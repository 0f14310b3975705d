--------------------------- MODULE MpesaPayments ---------------------------
(***************************************************************************)
(* Collecting one M-Pesa payment: the push of a prompt to the customer's   *)
(* phone, Safaricom's callback about it, the status polls of the client,   *)
(* the confirmation with Daraja (Safaricom's API), and the posting of the  *)
(* money to the ledger, which a user may retry.                            *)
(*                                                                         *)
(* Each of these is a request that reads the payments row, waits for       *)
(* Daraja or for the database, and writes what it concluded from what it   *)
(* read: a worker carries one request, with its program counter and the    *)
(* values it holds across an await.  Workers interleave between awaits.    *)
(* Payments do not share state, so one row is enough.                      *)
(*                                                                         *)
(* Safaricom is the environment: it may answer late, not at all, or with   *)
(* an error although the prompt was sent; it delivers its callback any     *)
(* number of times, none included.  Nothing in a callback is signed: what  *)
(* it claims, the amount included, may differ from one to the next and     *)
(* from what happened.                                                     *)
(***************************************************************************)
EXTENDS Naturals

CONSTANTS
    Workers,        \* requests the server works on at the same time
    MaxCrashes      \* bound: requests that die half-way in a behaviour

ASSUME MpesaAssumption == MaxCrashes \in Nat

VARIABLES
    payment,    \* the row of the payments table
    journals,   \* journals posted under the payment's id
    phone,      \* Safaricom's side of the payment
    age,        \* how old the row is, as far as the code asks
    worker,     \* the request each worker is handling
    crashes,    \* requests that died half-way so far
    claims,     \* history: the amounts of the callbacks that were stored
    reposted    \* history: a person has asked for a repost

vars == <<payment, journals, phone, age, worker, crashes, claims, reposted>>
history == <<claims, reposted>>

-----------------------------------------------------------------------------
(* The row, and Safaricom.                                                 *)

(* "NONE": the row is not there yet. *)
PaymentStatus == {"NONE", "PENDING", "SUCCEEDED", "FAILED", "CANCELLED"}

(* What happened on the phone; the last three are results Daraja reports. *)
Phone == {"none", "sent", "prompted", "paid", "cancelled", "failed"}

(* The Amount a callback claims: the one that was asked, or anything else. *)
Amounts == {"asked", "other"}
Failures == {"cancelled", "failed"}

(* The columns: payload is the Amount in the stored success callback; the
   others that are null or not are Booleans; "null" is no result code. *)
Payment ==
    [status : PaymentStatus, code : {"null", "paid"} \cup Failures, checkout : BOOLEAN,
     payload : {"none"} \cup Amounts, journal : BOOLEAN, error : BOOLEAN]

NoPayment ==
    [status |-> "NONE", code |-> "null", checkout |-> FALSE,
     payload |-> "none", journal |-> FALSE, error |-> FALSE]

(* Under a minute; over RECHECK_AFTER_MS; over OUTCOME_UNKNOWN_EXPIRY_MS. *)
Ages == {"fresh", "recheck", "expired"}

(* Daraja's query reports that the money arrived, not how much it was. *)
Paid == phone = "paid"
Answered == Paid \/ phone \in Failures

-----------------------------------------------------------------------------
(* The workers.                                                            *)

PCs == {"idle", "push", "await", "mark", "refused",             \* initiateStkPush
        "adopt", "adoptReread", "store", "verdict",             \* handleStkCallback
        "settle", "query", "succeed",                           \* settle
        "find", "post", "link", "relink", "error",              \* postToLedger
        "expire", "expireReread"}                               \* getPayment

(* result: what the callback claims, or the failure Daraja's query reports;
   payload: the Amount in the callback that settle or repost read. *)
Worker ==
    [pc : PCs, result : {"none"} \cup Amounts \cup Failures, payload : {"none"} \cup Amounts]

Idle == [pc |-> "idle", result |-> "none", payload |-> "none"]

At(w, pc) == worker[w].pc = pc
Goto(w, pc) == worker' = [worker EXCEPT ![w].pc = pc]
Return(w) == worker' = [worker EXCEPT ![w] = Idle]

(* What a step of a worker leaves alone: the world outside the server. *)
ServerOnly == UNCHANGED <<phone, age, crashes>>

(* A step that only reads. *)
ReadOnly == UNCHANGED <<payment, journals, history>> /\ ServerOnly

(* A step that writes the row only. *)
RowOnly == UNCHANGED <<journals, history>> /\ ServerOnly

(* completeIfPending: the row after it; SELECT ... FOR UPDATE, then UPDATE. *)
Completed(row, status, code) ==
    IF row.status = "PENDING"
    THEN [row EXCEPT !.status = status, !.code = code]
    ELSE row

(* failureStatus: 1032 is the customer's own refusal. *)
VerdictStatus(code) == IF code = "cancelled" THEN "CANCELLED" ELSE "FAILED"

(* adoptCheckoutRequest's WHERE clause. *)
Adoptable(row) ==
    /\ ~row.checkout
    /\ row.status = "PENDING" \/ (row.status = "FAILED" /\ row.code = "null")

-----------------------------------------------------------------------------
(* initiateStkPush.                                                        *)

(* insertPayment; a clientUuid that is already used is refused (409). *)
InsertPayment(w) ==
    /\ At(w, "idle")
    /\ payment = NoPayment
    /\ payment' = [NoPayment EXCEPT !.status = "PENDING"]
    /\ Goto(w, "push")
    /\ RowOnly

(* The request leaves for Daraja. *)
Push(w) ==
    /\ At(w, "push")
    /\ phone' = "sent"
    /\ Goto(w, "await")
    /\ UNCHANGED <<payment, journals, age, crashes, history>>

PushAccepted(w) ==
    /\ At(w, "await")
    /\ phone # "sent"
    /\ Goto(w, "mark")
    /\ ReadOnly

(* A provider error, whatever Safaricom goes on to do. *)
PushRefused(w) ==
    /\ At(w, "await")
    /\ Goto(w, "refused")
    /\ ReadOnly

(* StkPushOutcomeUnknownError: a time-out; the payment stays PENDING. *)
PushUnknown(w) ==
    /\ At(w, "await")
    /\ Return(w)
    /\ ReadOnly

MarkPushed(w) ==
    /\ At(w, "mark")
    /\ payment' = [payment EXCEPT !.checkout = TRUE]
    /\ Return(w)
    /\ RowOnly

(* The update fails; the catch block takes it for a refused push. *)
MarkPushedFails(w) ==
    /\ At(w, "mark")
    /\ Goto(w, "refused")
    /\ ReadOnly

FailPush(w) ==
    /\ At(w, "refused")
    /\ payment' = Completed(payment, "FAILED", "null")
    /\ Return(w)
    /\ RowOnly

-----------------------------------------------------------------------------
(* handleStkCallback.                                                      *)

(* Where a callback goes on, its payment being `row' as far as it knows. *)
AfterCallback(row, result) ==
    IF row.status # "PENDING" THEN "idle"
    ELSE IF result \in Amounts THEN "store" ELSE "verdict"

(***************************************************************************)
(* A callback arrives and the row is read.  Safaricom calls back once the  *)
(* prompt has an outcome; which outcome and which amount the callback      *)
(* claims is free: the code takes a failure at its word, confirms a        *)
(* success with Daraja, and has nothing to hold the amount against.        *)
(***************************************************************************)
CallbackRead(w) ==
    \E result \in Amounts \cup Failures :
        /\ At(w, "idle")
        /\ Answered
        /\ worker' = [worker EXCEPT ![w] =
               [Idle EXCEPT !.result = result,
                            !.pc = IF payment.checkout THEN AfterCallback(payment, result)
                                   ELSE "adopt"]]
        /\ ReadOnly

(* adoptCheckoutRequest; when it returns null the row is read once more. *)
Adopt(w) ==
    /\ At(w, "adopt")
    /\ IF Adoptable(payment)
       THEN /\ payment' = [payment EXCEPT !.checkout = TRUE, !.status = "PENDING"]
            /\ Goto(w, AfterCallback(payment', worker[w].result))
       ELSE /\ Goto(w, "adoptReread")
            /\ UNCHANGED payment
    /\ RowOnly

AdoptReread(w) ==
    /\ At(w, "adoptReread")
    /\ Goto(w, IF payment.checkout THEN AfterCallback(payment, worker[w].result) ELSE "idle")
    /\ ReadOnly

(* UPDATE ... WHERE status = 'PENDING'; a later callback overwrites. *)
WithPayload(w) ==
    /\ At(w, "store")
    /\ IF payment.status = "PENDING"
       THEN /\ payment' = [payment EXCEPT !.payload = worker[w].result]
            /\ claims' = claims \cup {worker[w].result}
       ELSE UNCHANGED <<payment, claims>>
    /\ UNCHANGED <<journals, reposted>> /\ ServerOnly

(* Mutant: the callback's word is enough. *)
StorePayloadTrusting(w) ==
    WithPayload(w) /\ worker' = [worker EXCEPT ![w] = [Idle EXCEPT !.pc = "succeed"]]

(* storeCallbackPayload, before the success is confirmed; settle is not
   told what the callback said, it reads the row. *)
StorePayload(w) ==
    WithPayload(w) /\ worker' = [worker EXCEPT ![w] = [Idle EXCEPT !.pc = "settle"]]

(* completeIfPending with the failure that the callback or the query reports. *)
RecordVerdict(w) ==
    /\ At(w, "verdict")
    /\ payment' = Completed(payment, VerdictStatus(worker[w].result), worker[w].result)
    /\ Return(w)
    /\ RowOnly

-----------------------------------------------------------------------------
(* settle.                                                                 *)

SettleRead(w) ==
    /\ At(w, "settle")
    /\ IF payment.status = "PENDING" /\ payment.checkout
       THEN worker' = [worker EXCEPT ![w].pc = "query", ![w].payload = payment.payload]
       ELSE Return(w)
    /\ ReadOnly

(* Daraja reports a result; a success still needs the callback's receipt. *)
QueryAnswered(w) ==
    /\ At(w, "query")
    /\ Answered
    /\ worker' = [worker EXCEPT
           ![w].pc = IF ~Paid THEN "verdict"
                     ELSE IF worker[w].payload # "none" THEN "succeed" ELSE "idle",
           ![w].result = IF Paid THEN @ ELSE phone]
    /\ ReadOnly

(* stkQuery throws, or the payment is still being processed. *)
QueryInconclusive(w) ==
    /\ At(w, "query")
    /\ Return(w)
    /\ ReadOnly

(* Mutant: completeIfPending's null is overlooked. *)
SucceedTwice(w) ==
    /\ At(w, "succeed")
    /\ payment' = Completed(payment, "SUCCEEDED", "paid")
    /\ Goto(w, "find")
    /\ RowOnly

(* Only the request that moves the row out of PENDING posts the journal. *)
Succeed(w) ==
    /\ At(w, "succeed")
    /\ payment' = Completed(payment, "SUCCEEDED", "paid")
    /\ Goto(w, IF payment.status = "PENDING" THEN "find" ELSE "idle")
    /\ RowOnly

-----------------------------------------------------------------------------
(* postToLedger.                                                           *)

(* findJournalByClientUuid, then the comparison of the amounts: the one
   asked with the one in the callback that settle or repost read. *)
FindJournal(w) ==
    /\ At(w, "find")
    /\ Goto(w, IF journals > 0 THEN "relink"
               ELSE IF worker[w].payload = "asked" THEN "post" ELSE "error")
    /\ ReadOnly

(* createJournal or receivePayment: the journal's client_uuid is the payment's id. *)
PostJournal(w) ==
    /\ At(w, "post")
    /\ journals = 0
    /\ journals' = 1
    /\ Goto(w, "link")
    /\ UNCHANGED <<payment, history>> /\ ServerOnly

(* Mutant: the failure is swallowed. *)
PostFailsSilently(w) ==
    /\ At(w, "post")
    /\ Goto(w, "idle")
    /\ ReadOnly

(* No open period, an invoice changed meanwhile, or a journal already there. *)
PostFails(w) ==
    /\ At(w, "post")
    /\ Goto(w, "error")
    /\ ReadOnly

(* setPostingResult with a journal. *)
Link(w) ==
    /\ At(w, "link") \/ At(w, "relink")
    /\ payment' = [payment EXCEPT !.journal = TRUE, !.error = FALSE]
    /\ Return(w)
    /\ RowOnly

(* It fails inside the try block, whose catch records an error instead. *)
LinkFails(w) ==
    /\ At(w, "link")
    /\ Goto(w, "error")
    /\ ReadOnly

(* Mutant: without WHERE journal_id IS NULL. *)
RecordErrorAlways(w) ==
    /\ At(w, "error")
    /\ payment' = [payment EXCEPT !.error = TRUE]
    /\ Return(w)
    /\ RowOnly

(* setPostingResult without one: only WHERE journal_id IS NULL. *)
RecordError(w) ==
    /\ At(w, "error")
    /\ payment' = IF payment.journal THEN payment ELSE [payment EXCEPT !.error = TRUE]
    /\ Return(w)
    /\ RowOnly

(* repostPayment: the amount is that of the callback stored last, or, were
   there none, the one asked. *)
RepostRead(w) ==
    /\ At(w, "idle")
    /\ payment.status = "SUCCEEDED" /\ ~payment.journal
    /\ worker' = [worker EXCEPT ![w].pc = "find",
           ![w].payload = IF payment.payload = "none" THEN "asked" ELSE payment.payload]
    /\ reposted' = TRUE
    /\ UNCHANGED <<payment, journals, claims>> /\ ServerOnly

-----------------------------------------------------------------------------
(* getPayment.                                                             *)

(* Mutant: a stale payment is not checked with Daraja. *)
PollReadOnly(w) ==
    /\ At(w, "idle")
    /\ payment.status = "PENDING"
    /\ age = "expired" /\ ~payment.checkout
    /\ Goto(w, "expire")
    /\ ReadOnly

(* Mutant: an unknown outcome is never given up on. *)
PollReadNoExpiry(w) ==
    /\ At(w, "idle")
    /\ payment.status = "PENDING"
    /\ age # "fresh"
    /\ Goto(w, "settle")
    /\ ReadOnly

(* Reading a young or finished payment changes nothing. *)
PollRead(w) ==
    /\ At(w, "idle")
    /\ payment.status = "PENDING"
    /\ age # "fresh"
    /\ Goto(w, IF age = "expired" /\ ~payment.checkout THEN "expire" ELSE "settle")
    /\ ReadOnly

(* completeIfPending of a payment that never learned its ids, as read before. *)
Expire(w) ==
    /\ At(w, "expire")
    /\ payment' = Completed(payment, "FAILED", "null")
    /\ Goto(w, IF payment.status = "PENDING" THEN "idle" ELSE "expireReread")
    /\ RowOnly

(* Somebody else finished it, or revived it since. *)
ExpireReread(w) ==
    /\ At(w, "expireReread")
    /\ Goto(w, IF payment.status = "PENDING" THEN "settle" ELSE "idle")
    /\ ReadOnly

-----------------------------------------------------------------------------
(* The rest of the world.                                                  *)

(* The prompt reaches the phone -- also after the server gave up waiting. *)
Prompt ==
    /\ phone = "sent"
    /\ phone' = "prompted"
    /\ UNCHANGED <<payment, journals, age, worker, crashes, history>>

(* The customer pays or refuses, or the prompt fails or runs out. *)
Answer ==
    /\ phone = "prompted"
    /\ phone' \in {"paid"} \cup Failures
    /\ UNCHANGED <<payment, journals, age, worker, crashes, history>>

Tick ==
    /\ payment # NoPayment
    /\ age # "expired"
    /\ age' = IF age = "fresh" THEN "recheck" ELSE "expired"
    /\ UNCHANGED <<payment, journals, phone, worker, crashes, history>>

(* The server process dies, or its database connection does. *)
Crash(w) ==
    /\ ~At(w, "idle")
    /\ crashes < MaxCrashes
    /\ crashes' = crashes + 1
    /\ Return(w)
    /\ UNCHANGED <<payment, journals, phone, age, history>>

-----------------------------------------------------------------------------
Init ==
    /\ payment = NoPayment
    /\ journals = 0
    /\ phone = "none"
    /\ age = "fresh"
    /\ worker = [w \in Workers |-> Idle]
    /\ crashes = 0
    /\ claims = {}
    /\ reposted = FALSE

(* A request goes on after an await. *)
Proceed(w) ==
    \/ Push(w) \/ PushAccepted(w) \/ PushRefused(w) \/ PushUnknown(w)
    \/ MarkPushed(w) \/ MarkPushedFails(w) \/ FailPush(w)
    \/ Adopt(w) \/ AdoptReread(w) \/ StorePayload(w) \/ RecordVerdict(w)
    \/ SettleRead(w) \/ QueryAnswered(w) \/ QueryInconclusive(w) \/ Succeed(w)
    \/ FindJournal(w) \/ PostJournal(w) \/ PostFails(w)
    \/ Link(w) \/ LinkFails(w) \/ RecordError(w)
    \/ Expire(w) \/ ExpireReread(w)

(* A request arrives. *)
Arrive(w) == InsertPayment(w) \/ CallbackRead(w) \/ PollRead(w) \/ RepostRead(w)

Next ==
    \/ \E w \in Workers : Arrive(w) \/ Proceed(w) \/ Crash(w)
    \/ Prompt \/ Answer \/ Tick

Spec == Init /\ [][Next]_vars

(***************************************************************************)
(* What progress rests on: a request that was started goes on (every await *)
(* has a time-out); time passes; the client polls a pending payment, as    *)
(* the API documentation tells it to, and is served; and Daraja does not   *)
(* leave every query about an answered prompt without a result.  Nothing   *)
(* is assumed of callbacks, of the customer, or of reposts.                *)
(***************************************************************************)
Fairness ==
    /\ \A w \in Workers : WF_vars(Proceed(w)) /\ SF_vars(QueryAnswered(w))
    /\ WF_vars(Tick)
    /\ SF_vars(\E w \in Workers : PollRead(w))

FairSpec == Spec /\ Fairness

-----------------------------------------------------------------------------
(* Properties.                                                             *)

(* The row, the workers and the environment keep the shape described above. *)
TypeOK ==
    /\ payment \in Payment
    /\ journals \in Nat
    /\ phone \in Phone
    /\ age \in Ages
    /\ worker \in [Workers -> Worker]
    /\ crashes \in 0 .. MaxCrashes
    /\ claims \subseteq Amounts
    /\ reposted \in BOOLEAN

(***************************************************************************)
(* A payment counts as received only when Daraja's query confirmed it and  *)
(* a callback brought its receipt, however old the answer a request acts   *)
(* on; and it is posted only after that, and only if a stored callback     *)
(* claimed the amount that was asked (settle, postToLedger, repostPayment).*)
(* That amount is the callback's word: the query confirms none, and the    *)
(* callback it came from need not be the one the row ends up with.         *)
(***************************************************************************)
OnlyConfirmedMoneyCounts ==
    /\ payment.status = "SUCCEEDED" => Paid /\ payment.payload # "none"
    /\ journals > 0 => payment.status = "SUCCEEDED" /\ "asked" \in claims

(***************************************************************************)
(* However many callbacks and polls settle a payment at once, one of them  *)
(* goes on to post it; a second request posts it only because a person     *)
(* asked for a repost (settle, completeIfPending).                         *)
(***************************************************************************)
Posting(w) == worker[w].pc \in {"find", "post", "link", "relink", "error"}

OnePoster ==
    \A v, w \in Workers : Posting(v) /\ Posting(w) /\ v # w => reposted

(***************************************************************************)
(* A payment that is linked to a journal is really in the ledger, once,    *)
(* and shows no posting error: a repost that loses the race cannot undo or *)
(* discredit the one that won.  A journal without its link, because the    *)
(* request died or failed in between, belongs to a payment that can still  *)
(* be reposted (setPostingResult, repostPayment).                          *)
(***************************************************************************)
LinkedIsPosted ==
    /\ payment.journal => journals = 1 /\ ~payment.error
    /\ journals > 0 /\ ~payment.journal => payment.status = "SUCCEEDED"

(***************************************************************************)
(* Safaricom's verdict is final: once the row carries a result, neither a  *)
(* late callback, a poll nor a push that fails late changes it             *)
(* (completeIfPending, adoptCheckoutRequest).                              *)
(***************************************************************************)
VerdictsAreFinal ==
    [][payment.code # "null" =>
           payment'.status = payment.status /\ payment'.code = payment.code]_vars

(***************************************************************************)
(* A payment whose result Daraja can report, and whose receipt has arrived *)
(* if it succeeded, does not stay PENDING while the client polls.          *)
(***************************************************************************)
ReportedIsSettled ==
    (/\ payment.status = "PENDING"
     /\ payment.checkout
     /\ phone \in Failures \/ (Paid /\ payment.payload # "none"))
    ~> payment.status # "PENDING"

(***************************************************************************)
(* A push whose outcome is unknown does not stay PENDING without ids: it   *)
(* is given up on, or a callback brings them (getPayment).                 *)
(***************************************************************************)
UnknownOutcomeEnds ==
    (payment.status = "PENDING" /\ ~payment.checkout)
        ~> (payment.status # "PENDING" \/ payment.checkout)

(***************************************************************************)
(* Money that has arrived is posted, or the row says why it is not, unless *)
(* a request died meanwhile (postToLedger).                                *)
(***************************************************************************)
ArrivedIsAccountedFor ==
    payment.status = "SUCCEEDED" ~> (payment.journal \/ payment.error \/ crashes > 0)

(***************************************************************************)
(* What the comments and the documentation say, and the races refute.      *)
(***************************************************************************)
(* The comment on OUTCOME_UNKNOWN_EXPIRY_MS: a callback that arrives after
   the server itself gave a payment up still revives it. *)
GivenUpIsRevivable ==
    payment.status = "FAILED" /\ payment.code = "null" => Adoptable(payment)

(* The documentation of GET /payments/{id}: the server re-checks a payment
   that stays PENDING, so a lost callback still resolves. *)
LostCallbackResolves ==
    (payment.status = "PENDING" /\ payment.checkout /\ Paid)
        ~> payment.status # "PENDING"
=============================================================================
