--------------------------- MODULE RetriesProofs ---------------------------
(***************************************************************************)
(* Proofs about the two parts of the server that must not do twice what is *)
(* asked of them twice: MpesaPayments, where callbacks, polls and reposts  *)
(* come again, and Idempotency, where a client sends a request again.  The *)
(* two specifications share nothing; their names differ.                   *)
(***************************************************************************)
EXTENDS MpesaPayments, Idempotency, TLAPS

(***************************************************************************)
(* MpesaPayments, for any number of workers and of crashes.  The inductive *)
(* invariant is IInv: besides the properties it says what a request that   *)
(* waits at some program counter still knows, which is what makes the      *)
(* writes that do not look again safe.                                     *)
(***************************************************************************)
Settled(ph) == ph \in {"paid"} \cup Failures
PostingPCs == {"find", "post", "link", "relink", "error"}

(* What request q knows of the row p, the phone ph, the journals j and the
   amounts c that callbacks have claimed. *)
Knows(q, p, ph, j, c) ==
    /\ q.pc # "idle" => p.status # "NONE"
    /\ q.pc = "succeed" => ph = "paid" /\ p.payload # "none"
    /\ q.pc = "verdict" => q.result \in Failures
    /\ q.pc \in {"adopt", "adoptReread"} => q.result \in Amounts \cup Failures
    /\ q.pc = "store" => q.result \in Amounts
    /\ q.pc = "query" /\ q.payload # "none" => p.payload # "none"
    /\ q.pc \in {"query", "succeed", "find", "post"} /\ q.payload = "asked" => "asked" \in c
    /\ q.pc = "post" => q.payload = "asked"
    /\ q.pc \in PostingPCs => p.status = "SUCCEEDED"
    /\ q.pc \in {"link", "relink"} => j = 1

WorkersKnow == \A w \in Workers : Knows(worker[w], payment, phone, journals, claims)

(* Only the request that inserted the row pushes, and only once. *)
PushedOnce ==
    \A v, w \in Workers : At(v, "push") => phone = "none" /\ (At(w, "push") => v = w)

RowOK ==
    /\ payment.status = "NONE" => payment = NoPayment /\ phone = "none"
    /\ payment.status = "PENDING" => payment.code = "null"
    /\ payment.payload # "none" => payment.payload \in claims
    /\ journals <= 1

IInv ==
    /\ TypeOK
    /\ RowOK
    /\ WorkersKnow
    /\ PushedOnce
    /\ OnlyConfirmedMoneyCounts
    /\ OnePoster
    /\ LinkedIsPosted

-----------------------------------------------------------------------------
(* What no step takes away, whatever request takes it.                     *)

Kept ==
    /\ payment.status # "NONE" => payment'.status # "NONE"
    /\ payment.status = "SUCCEEDED" => payment'.status = "SUCCEEDED"
    /\ payment.payload # "none" => payment'.payload # "none"
    /\ Settled(phone) => phone' = phone
    /\ journals > 0 => journals' = journals
    /\ claims \subseteq claims'
    /\ reposted => reposted'

(* What a request knows it goes on knowing while others take steps. *)
LEMMA KnowsKept ==
  ASSUME NEW q, TypeOK, Kept, Knows(q, payment, phone, journals, claims)
  PROVE  Knows(q, payment', phone', journals', claims')
  BY DEF Kept, Knows, Settled, PostingPCs, TypeOK

(* The request w is at q afterwards; if q posts, w did already, or nobody did,
   or a person asked for it. *)
MayPost(w, q) ==
    q.pc \in PostingPCs => Posting(w) \/ reposted' \/ \A v \in Workers : ~Posting(v)

(* The step of one request w, in the parts that differ between actions. *)
LEMMA WorkerStep ==
  ASSUME NEW w \in Workers, NEW q \in Worker,
         IInv, Kept,
         worker' = [worker EXCEPT ![w] = q],
         Knows(q, payment', phone', journals', claims'), MayPost(w, q),
         q.pc # "push", phone' = phone
  PROVE  (worker \in [Workers -> Worker] /\ WorkersKnow /\ PushedOnce /\ OnePoster)'
  <1>1. worker' \in [Workers -> Worker] /\ worker'[w] = q
        /\ \A v \in Workers \ {w} : worker'[v] = worker[v]
    BY DEF IInv, TypeOK
  <1>2. ASSUME NEW v \in Workers
        PROVE  Knows(worker'[v], payment', phone', journals', claims')
    <2>1. CASE v = w
      BY <1>1, <2>1
    <2>2. CASE v # w
      BY <1>1, <2>2, KnowsKept DEF IInv, WorkersKnow
    <2>. QED  BY <2>1, <2>2
  <1>3. PushedOnce'
    BY <1>1 DEF IInv, PushedOnce, At
  <1>4. OnePoster'
    <2>1. reposted => reposted'
      BY DEF Kept
    <2>2. \A v \in Workers \ {w} : Posting(v)' => Posting(v)
      BY <1>1 DEF Posting
    <2>3. Posting(w)' => q.pc \in PostingPCs
      BY <1>1 DEF Posting, PostingPCs
    <2>. QED  BY <2>1, <2>2, <2>3 DEF IInv, OnePoster, MayPost
  <1>. QED  BY <1>1, <1>2, <1>3, <1>4 DEF WorkersKnow

-----------------------------------------------------------------------------
(* The two halves of a step of the server: the tables, and the request.    *)

TablesOK ==
    /\ payment' \in Payment /\ journals' \in Nat /\ claims' \subseteq Amounts
    /\ phone' = phone /\ age' = age /\ crashes' \in 0 .. MaxCrashes
    /\ reposted' \in BOOLEAN
    /\ (RowOK /\ OnlyConfirmedMoneyCounts /\ LinkedIsPosted)'
    /\ Kept

StepsTo(w, q) ==
    /\ worker' = [worker EXCEPT ![w] = q]
    /\ q \in Worker /\ q.pc # "push"
    /\ Knows(q, payment', phone', journals', claims')
    /\ MayPost(w, q)

LEMMA ServerStep ==
  ASSUME IInv, TablesOK, NEW w \in Workers, NEW q, StepsTo(w, q)
  PROVE  IInv'
  <1>1. (worker \in [Workers -> Worker] /\ WorkersKnow /\ PushedOnce /\ OnePoster)'
    BY WorkerStep DEF TablesOK, StepsTo
  <1>2. TypeOK'
    BY <1>1 DEF TablesOK, IInv, TypeOK
  <1>. QED  BY <1>1, <1>2 DEF TablesOK, IInv

LEMMA WorkerType ==
  ASSUME IInv, NEW w \in Workers
  PROVE  /\ worker[w] \in Worker
         /\ Knows(worker[w], payment, phone, journals, claims)
  BY DEF IInv, TypeOK, WorkersKnow

LEMMA GotoStep ==
  ASSUME IInv, NEW w \in Workers, NEW pc \in PCs \ {"push"}, Goto(w, pc),
         pc \in PostingPCs => Posting(w) \/ \A v \in Workers : ~Posting(v),
         Knows([worker[w] EXCEPT !.pc = pc], payment', phone', journals', claims')
  PROVE  \E q : StepsTo(w, q)
  <1>1. worker' = [worker EXCEPT ![w] = [worker[w] EXCEPT !.pc = pc]]
    BY DEF IInv, TypeOK, Goto
  <1>2. [worker[w] EXCEPT !.pc = pc] \in Worker /\ [worker[w] EXCEPT !.pc = pc].pc = pc
    BY WorkerType DEF Worker
  <1>3. MayPost(w, [worker[w] EXCEPT !.pc = pc])
    BY <1>2 DEF MayPost
  <1>. QED  BY <1>1, <1>2, <1>3 DEF StepsTo

LEMMA ReturnStep ==
  ASSUME IInv, NEW w \in Workers, Return(w)
  PROVE  StepsTo(w, Idle)
  BY DEF Return, StepsTo, Idle, Worker, PCs, Knows, MayPost, PostingPCs

LEMMA ReadOnlyStep ==
  ASSUME IInv, ReadOnly
  PROVE  TablesOK
  BY DEF IInv, TypeOK, ReadOnly, ServerOnly, history, TablesOK, RowOK, Kept, NoPayment,
         OnlyConfirmedMoneyCounts, LinkedIsPosted, Paid

(* completeIfPending. *)
LEMMA CompletedStep ==
  ASSUME IInv, RowOnly,
         NEW status \in {"SUCCEEDED", "FAILED", "CANCELLED"},
         NEW code \in {"null", "paid"} \cup Failures,
         payment' = Completed(payment, status, code),
         status = "SUCCEEDED" => Paid /\ payment.payload # "none"
  PROVE  TablesOK
  <1>1. CASE payment.status = "PENDING"
    <2>1. payment' = [payment EXCEPT !.status = status, !.code = code]
      BY <1>1 DEF Completed
    <2>2. /\ payment' \in Payment
          /\ payment'.status = status /\ payment'.journal = payment.journal
          /\ payment'.error = payment.error /\ payment'.payload = payment.payload
      BY <2>1 DEF IInv, TypeOK, Payment, PaymentStatus
    <2>3. journals = 0
      BY <1>1 DEF IInv, TypeOK, OnlyConfirmedMoneyCounts
    <2>. QED
      BY <1>1, <2>2, <2>3 DEF IInv, TypeOK, RowOnly, history, ServerOnly, TablesOK, RowOK, Kept, Paid,
         OnlyConfirmedMoneyCounts, LinkedIsPosted
  <1>2. CASE payment.status # "PENDING"
    <2>1. ReadOnly
      BY <1>2 DEF Completed, ReadOnly, RowOnly
    <2>. QED  BY <2>1, ReadOnlyStep
  <1>. QED  BY <1>1, <1>2

(* An update of the columns that say neither how the payment ended nor where
   it was posted. *)
LEMMA ColumnsStep ==
  ASSUME IInv, RowOnly, payment' \in Payment,
         payment.status # "NONE", payment'.status = payment.status,
         payment'.code = payment.code, payment'.payload = payment.payload,
         payment'.journal => journals = 1 /\ ~payment'.error
  PROVE  TablesOK
  BY DEF IInv, TypeOK, RowOnly, history, ServerOnly, TablesOK, RowOK, Kept, Paid,
         OnlyConfirmedMoneyCounts, LinkedIsPosted

-----------------------------------------------------------------------------
(* initiateStkPush.                                                        *)

LEMMA InsertPaymentStep ==
  ASSUME IInv, NEW w \in Workers, InsertPayment(w)
  PROVE  IInv'
  <1> DEFINE q == [worker[w] EXCEPT !.pc = "push"]
  <1>1. /\ worker' = [worker EXCEPT ![w] = q] /\ q \in Worker /\ q.pc = "push"
        /\ \A v \in Workers : ~At(v, "push")
        /\ phone = "none" /\ phone' = "none" /\ journals' = journals
    BY WorkerType DEF InsertPayment, RowOnly, ServerOnly, Goto, IInv, TypeOK, RowOK, NoPayment,
       PushedOnce, At, Worker, PCs, WorkersKnow, Knows
  <1>2. /\ worker' \in [Workers -> Worker] /\ worker'[w] = q
        /\ \A v \in Workers \ {w} : worker'[v] = worker[v]
    BY <1>1 DEF IInv, TypeOK
  <1>3. /\ payment' = [NoPayment EXCEPT !.status = "PENDING"]
        /\ payment' \in Payment /\ payment'.status = "PENDING" /\ payment'.code = "null"
        /\ ~payment'.journal /\ payment.status = "NONE" /\ payment'.payload = "none"
        /\ payment.payload = "none" /\ claims' = claims /\ reposted' = reposted
    BY DEF InsertPayment, RowOnly, history, NoPayment, Payment, PaymentStatus
  <1>4. journals = 0
    BY <1>3 DEF IInv, TypeOK, OnlyConfirmedMoneyCounts
  <1>5. Kept
    BY <1>1, <1>3, <1>4 DEF Kept
  <1>6. WorkersKnow'
    <2>. SUFFICES ASSUME NEW v \in Workers
                  PROVE  Knows(worker'[v], payment', phone', journals', claims')
      BY DEF WorkersKnow
    <2>1. CASE v = w
      BY <1>1, <1>2, <1>3, <2>1 DEF Knows, PostingPCs
    <2>2. CASE v # w
      BY <1>2, <1>5, <2>2, KnowsKept DEF IInv, WorkersKnow
    <2>. QED  BY <2>1, <2>2
  <1>7. PushedOnce'
    BY <1>1, <1>2 DEF PushedOnce, At
  <1>8. OnePoster'
    <2>1. \A v \in Workers : Posting(v)' => v # w /\ Posting(v)
      BY <1>1, <1>2 DEF Posting
    <2>. QED  BY <1>3, <2>1 DEF IInv, OnePoster
  <1>. QED
    BY <1>1, <1>2, <1>3, <1>4, <1>6, <1>7, <1>8 DEF IInv, TypeOK, RowOK, InsertPayment,
       RowOnly, ServerOnly,
       OnlyConfirmedMoneyCounts, LinkedIsPosted, Paid

LEMMA PushStep ==
  ASSUME IInv, NEW w \in Workers, Push(w)
  PROVE  IInv'
  <1> DEFINE q == [worker[w] EXCEPT !.pc = "await"]
  <1>1. /\ worker' = [worker EXCEPT ![w] = q] /\ q \in Worker /\ q.pc = "await"
        /\ phone = "none" /\ phone' = "sent"
        /\ payment' = payment /\ journals' = journals
        /\ claims' = claims /\ reposted' = reposted
        /\ payment.status # "NONE"
    BY WorkerType DEF Push, history, Goto, IInv, TypeOK, PushedOnce, At, Worker, PCs, Knows
  <1>2. /\ worker' \in [Workers -> Worker] /\ worker'[w] = q
        /\ \A v \in Workers \ {w} : worker'[v] = worker[v]
    BY <1>1 DEF IInv, TypeOK
  <1>3. \A v \in Workers : ~At(v, "push")'
    BY <1>1, <1>2 DEF IInv, PushedOnce, At, Push
  <1>4. Kept
    BY <1>1 DEF Kept, Settled, Failures
  <1>5. WorkersKnow'
    <2>. SUFFICES ASSUME NEW v \in Workers
                  PROVE  Knows(worker'[v], payment', phone', journals', claims')
      BY DEF WorkersKnow
    <2>1. CASE v = w
      BY <1>1, <1>2, <2>1 DEF Knows, PostingPCs
    <2>2. CASE v # w
      BY <1>2, <1>4, <2>2, KnowsKept DEF IInv, WorkersKnow
    <2>. QED  BY <2>1, <2>2
  <1>6. PushedOnce'
    BY <1>3 DEF PushedOnce
  <1>7. OnePoster'
    <2>1. \A v \in Workers : Posting(v)' => Posting(v)
      BY <1>1, <1>2 DEF Posting
    <2>. QED  BY <1>1, <2>1 DEF IInv, OnePoster
  <1>. QED
    BY <1>1, <1>2, <1>5, <1>6, <1>7 DEF IInv, TypeOK, RowOK, Push, Phone,
       OnlyConfirmedMoneyCounts, LinkedIsPosted, Paid

(* The actions that leave the tables alone and go on at another place. *)
LEMMA ReadingStep ==
  ASSUME IInv, NEW w \in Workers,
         \/ PushAccepted(w) \/ PushRefused(w) \/ PushUnknown(w) \/ MarkPushedFails(w)
         \/ CallbackRead(w) \/ AdoptReread(w)
         \/ SettleRead(w) \/ QueryAnswered(w) \/ QueryInconclusive(w)
         \/ FindJournal(w) \/ PostFails(w) \/ LinkFails(w)
         \/ PollRead(w) \/ ExpireReread(w)
  PROVE  IInv'
  <1>1. ReadOnly
    BY DEF PushAccepted, PushRefused, PushUnknown, MarkPushedFails, CallbackRead,
       AdoptReread, SettleRead, QueryAnswered, QueryInconclusive, FindJournal, PostFails,
       LinkFails, PollRead, ExpireReread
  <1>2. TablesOK
    BY <1>1, ReadOnlyStep
  <1>3. /\ payment' = payment /\ phone' = phone /\ journals' = journals /\ claims' = claims
        /\ journals \in Nat /\ journals <= 1 /\ phone \in Phone
        /\ payment.payload # "none" => payment.payload \in claims
        /\ worker[w] \in Worker /\ Knows(worker[w], payment, phone, journals, claims)
    BY <1>1, WorkerType DEF ReadOnly, ServerOnly, history, IInv, TypeOK, RowOK
  <1>4. \E q : StepsTo(w, q)
    <2>1. CASE PushAccepted(w)
      BY <1>3, <2>1, GotoStep DEF PushAccepted, At, PCs, Worker, Knows, PostingPCs
    <2>2. CASE PushRefused(w)
      BY <1>3, <2>2, GotoStep DEF PushRefused, At, PCs, Worker, Knows, PostingPCs
    <2>3. CASE PushUnknown(w) \/ QueryInconclusive(w)
      BY <2>3, ReturnStep DEF PushUnknown, QueryInconclusive
    <2>4. CASE MarkPushedFails(w)
      BY <1>3, <2>4, GotoStep DEF MarkPushedFails, At, PCs, Worker, Knows, PostingPCs
    <2>5. CASE CallbackRead(w)
      <3>1. PICK result \in Amounts \cup Failures :
              worker' = [worker EXCEPT ![w] =
                 [Idle EXCEPT !.result = result,
                              !.pc = IF payment.checkout THEN AfterCallback(payment, result)
                                     ELSE "adopt"]]
        BY <2>5 DEF CallbackRead
      <3> DEFINE pc == IF payment.checkout THEN AfterCallback(payment, result) ELSE "adopt"
                 q == [Idle EXCEPT !.result = result, !.pc = pc]
      <3>2. /\ q \in Worker /\ q.pc = pc /\ q.result = result
            /\ pc \in {"idle", "store", "verdict", "adopt"}
            /\ pc = "store" => result \in Amounts
            /\ pc = "verdict" => result \in Failures
        BY DEF AfterCallback, Idle, Worker, PCs
      <3>3. payment.status # "NONE"
        BY <2>5 DEF CallbackRead, IInv, RowOK, Answered, Paid, Failures
      <3>4. Knows(q, payment, phone, journals, claims)
        BY <3>2, <3>3 DEF Knows, PostingPCs
      <3>5. MayPost(w, q) /\ q.pc # "push"
        BY <3>2 DEF MayPost, PostingPCs
      <3>. QED  BY <1>3, <3>1, <3>2, <3>4, <3>5 DEF StepsTo
    <2>6. CASE AdoptReread(w)
      <3> DEFINE pc == IF payment.checkout THEN AfterCallback(payment, worker[w].result)
                       ELSE "idle"
                 q == [worker[w] EXCEPT !.pc = pc]
      <3>1. Goto(w, pc) /\ At(w, "adoptReread")
        BY <2>6 DEF AdoptReread
      <3>2. /\ pc \in PCs \ {"push"} /\ pc \in {"idle", "store", "verdict"}
            /\ worker[w].result \in Amounts \cup Failures
            /\ pc = "store" => worker[w].result \in Amounts
            /\ pc = "verdict" => worker[w].result \in Failures
        BY <1>3, <3>1 DEF AfterCallback, PCs, Knows, At
      <3>3. q.pc = pc
        BY <1>3 DEF Worker
      <3>4. Knows(q, payment, phone, journals, claims)
        BY <1>3, <3>1, <3>2, <3>3 DEF Knows, At, Worker, PostingPCs
      <3>. QED  BY <1>3, <3>1, <3>2, <3>4, GotoStep DEF PostingPCs
    <2>7. CASE SettleRead(w)
      <3>1. CASE payment.status = "PENDING" /\ payment.checkout
        <4> DEFINE q == [worker[w] EXCEPT !.pc = "query", !.payload = payment.payload]
        <4>1. worker' = [worker EXCEPT ![w] = q]
          BY <2>7, <3>1 DEF SettleRead, IInv, TypeOK
        <4>2. q \in Worker /\ q.pc = "query" /\ q.payload = payment.payload
          BY <1>3 DEF Worker, PCs, IInv, TypeOK, Payment
        <4>3. Knows(q, payment, phone, journals, claims)
          BY <1>3, <3>1, <4>2 DEF Knows, PostingPCs
        <4>4. MayPost(w, q)
          BY <4>2 DEF MayPost, PostingPCs
        <4>. QED  BY <1>3, <4>1, <4>2, <4>3, <4>4 DEF StepsTo
      <3>2. CASE ~(payment.status = "PENDING" /\ payment.checkout)
        BY <2>7, <3>2, ReturnStep DEF SettleRead
      <3>. QED  BY <3>1, <3>2
    <2>8. CASE QueryAnswered(w)
      <3> DEFINE pc == IF ~Paid THEN "verdict"
                       ELSE IF worker[w].payload # "none" THEN "succeed" ELSE "idle"
                 result == IF Paid THEN worker[w].result ELSE phone
                 q == [worker[w] EXCEPT !.pc = pc, !.result = result]
      <3>1. worker' = [worker EXCEPT ![w] = q] /\ At(w, "query") /\ Answered
        BY <2>8 DEF QueryAnswered, IInv, TypeOK
      <3>2. /\ pc \in {"verdict", "succeed", "idle"} /\ pc \in PCs
            /\ result \in {"none"} \cup Amounts \cup Failures
            /\ pc = "verdict" => result \in Failures
            /\ pc = "succeed" => phone = "paid" /\ worker[w].payload # "none"
        BY <1>3, <3>1 DEF PCs, Answered, Paid, Worker
      <3>3. q \in Worker /\ q.pc = pc /\ q.result = result /\ q.payload = worker[w].payload
        BY <1>3, <3>2 DEF Worker
      <3>4. Knows(q, payment, phone, journals, claims)
        BY <1>3, <3>1, <3>2, <3>3 DEF Knows, At, PostingPCs
      <3>5. MayPost(w, q) /\ q.pc # "push"
        BY <3>2, <3>3 DEF MayPost, PostingPCs
      <3>. QED  BY <1>3, <3>1, <3>3, <3>4, <3>5 DEF StepsTo
    <2>9. CASE FindJournal(w)
      <3> DEFINE pc == IF journals > 0 THEN "relink"
                       ELSE IF worker[w].payload = "asked" THEN "post" ELSE "error"
                 q == [worker[w] EXCEPT !.pc = pc]
      <3>1. Goto(w, pc) /\ At(w, "find")
        BY <2>9 DEF FindJournal
      <3>2. pc \in PCs \ {"push"} /\ pc \in {"relink", "post", "error"}
        BY DEF PCs
      <3>3. q.pc = pc /\ q.payload = worker[w].payload
        BY <1>3 DEF Worker
      <3>4. Knows(q, payment, phone, journals, claims)
        BY <1>3, <3>1, <3>2, <3>3 DEF Knows, At, PostingPCs
      <3>. QED  BY <1>3, <3>1, <3>2, <3>4, GotoStep DEF At, Posting
    <2>10. CASE PostFails(w)
      BY <1>3, <2>10, GotoStep DEF PostFails, At, PCs, Worker, Knows, PostingPCs, Posting
    <2>11. CASE LinkFails(w)
      BY <1>3, <2>11, GotoStep DEF LinkFails, At, PCs, Worker, Knows, PostingPCs, Posting
    <2>12. CASE PollRead(w)
      <3> DEFINE pc == IF age = "expired" /\ ~payment.checkout THEN "expire" ELSE "settle"
      <3>1. Goto(w, pc) /\ payment.status = "PENDING"
        BY <2>12 DEF PollRead
      <3>2. pc \in {"expire", "settle"}
        OBVIOUS
      <3>. QED  BY <1>3, <3>1, <3>2, GotoStep DEF PCs, Worker, Knows, PostingPCs
    <2>13. CASE ExpireReread(w)
      <3> DEFINE pc == IF payment.status = "PENDING" THEN "settle" ELSE "idle"
      <3>1. Goto(w, pc) /\ At(w, "expireReread")
        BY <2>13 DEF ExpireReread
      <3>2. pc \in {"settle", "idle"}
        OBVIOUS
      <3>. QED  BY <1>3, <3>1, <3>2, GotoStep DEF PCs, Worker, Knows, At, PostingPCs
    <2>. QED
      BY <2>1, <2>2, <2>3, <2>4, <2>5, <2>6, <2>7, <2>8, <2>9, <2>10, <2>11, <2>12,
         <2>13
  <1>. QED  BY <1>2, <1>4, ServerStep

LEMMA RepostReadStep ==
  ASSUME IInv, NEW w \in Workers, RepostRead(w)
  PROVE  IInv'
  <1>1. /\ payment' = payment /\ phone' = phone /\ journals' = journals /\ claims' = claims
        /\ reposted' = TRUE /\ payment.status = "SUCCEEDED"
        /\ payment.payload # "none" /\ payment.payload \in claims
        /\ payment.payload \in Amounts /\ worker[w] \in Worker
    BY WorkerType DEF RepostRead, ServerOnly, IInv, TypeOK, RowOK, OnlyConfirmedMoneyCounts,
       Payment
  <1>2. TablesOK
    BY <1>1 DEF RepostRead, ServerOnly, TablesOK, Kept, IInv, TypeOK, RowOK, NoPayment,
       OnlyConfirmedMoneyCounts, LinkedIsPosted, Paid
  <1> DEFINE q == [worker[w] EXCEPT !.pc = "find", !.payload = payment.payload]
  <1>3. worker' = [worker EXCEPT ![w] = q]
    BY <1>1 DEF RepostRead, IInv, TypeOK
  <1>4. q \in Worker /\ q.pc = "find" /\ q.payload = payment.payload
    BY <1>1 DEF Worker, PCs
  <1>5. Knows(q, payment', phone', journals', claims') /\ MayPost(w, q)
    BY <1>1, <1>4 DEF Knows, MayPost
  <1>. QED  BY <1>2, <1>3, <1>4, <1>5, ServerStep DEF StepsTo

-----------------------------------------------------------------------------
(* The actions that update the row.                                        *)

LEMMA MarkPushedStep ==
  ASSUME IInv, NEW w \in Workers, MarkPushed(w)
  PROVE  IInv'
  <1>1. payment.status # "NONE"
    BY WorkerType DEF MarkPushed, At, Knows
  <1>2. payment' = [payment EXCEPT !.checkout = TRUE] /\ payment \in Payment
    BY DEF MarkPushed, IInv, TypeOK
  <1>3. /\ payment' \in Payment /\ payment'.status = payment.status
        /\ payment'.code = payment.code /\ payment'.journal = payment.journal
        /\ payment'.error = payment.error /\ payment'.payload = payment.payload
    BY <1>2 DEF Payment
  <1>4. TablesOK
    BY <1>1, <1>3, ColumnsStep DEF MarkPushed, IInv, LinkedIsPosted
  <1>5. StepsTo(w, Idle)
    BY ReturnStep DEF MarkPushed
  <1>. QED  BY <1>4, <1>5, ServerStep

LEMMA FailPushStep ==
  ASSUME IInv, NEW w \in Workers, FailPush(w)
  PROVE  IInv'
  <1>1. TablesOK
    BY CompletedStep DEF FailPush
  <1>2. StepsTo(w, Idle)
    BY ReturnStep DEF FailPush
  <1>. QED  BY <1>1, <1>2, ServerStep

LEMMA AdoptStep ==
  ASSUME IInv, NEW w \in Workers, Adopt(w)
  PROVE  IInv'
  <1>1. /\ worker[w] \in Worker /\ Knows(worker[w], payment, phone, journals, claims)
        /\ At(w, "adopt") /\ phone' = phone /\ journals' = journals
        /\ payment \in Payment /\ claims' = claims /\ reposted' = reposted
        /\ worker[w].result \in Amounts \cup Failures
    BY WorkerType DEF Adopt, RowOnly, history, ServerOnly, IInv, TypeOK, Knows, At
  <1>2. CASE Adoptable(payment)
    <2> DEFINE pc == AfterCallback(payment', worker[w].result)
               q == [worker[w] EXCEPT !.pc = pc]
    <2>1. payment' = [payment EXCEPT !.checkout = TRUE, !.status = "PENDING"] /\ Goto(w, pc)
      BY <1>2 DEF Adopt
    <2>2. /\ payment' \in Payment /\ payment'.status = "PENDING"
          /\ payment'.code = payment.code /\ payment'.journal = payment.journal
          /\ payment'.error = payment.error /\ payment'.payload = payment.payload
          /\ payment.status \in {"PENDING", "FAILED"}
          /\ payment.status = "FAILED" => payment.code = "null"
      BY <1>1, <1>2, <2>1 DEF Payment, PaymentStatus, Adoptable
    <2>3. journals = 0
      BY <2>2 DEF IInv, TypeOK, OnlyConfirmedMoneyCounts
    <2>4. TablesOK
      BY <1>1, <2>2, <2>3 DEF Adopt, RowOnly, ServerOnly, IInv, TypeOK, TablesOK, RowOK, Kept,
         OnlyConfirmedMoneyCounts, LinkedIsPosted
    <2>5. /\ pc \in PCs \ {"push"} /\ pc \in {"store", "verdict"}
          /\ pc = "store" => worker[w].result \in Amounts
          /\ pc = "verdict" => worker[w].result \in Failures
      BY <1>1, <2>2 DEF AfterCallback, PCs
    <2>6. q.pc = pc /\ q.result = worker[w].result
      BY <1>1 DEF Worker
    <2>7. Knows(q, payment', phone', journals', claims')
      BY <1>1, <2>2, <2>5, <2>6 DEF Knows, At, PostingPCs
    <2>. QED  BY <2>1, <2>4, <2>5, <2>7, GotoStep, ServerStep DEF PostingPCs
  <1>3. CASE ~Adoptable(payment)
    <2>1. ReadOnly /\ Goto(w, "adoptReread")
      BY <1>1, <1>3 DEF Adopt, ReadOnly, RowOnly
    <2>2. Knows([worker[w] EXCEPT !.pc = "adoptReread"], payment', phone', journals', claims')
      BY <1>1, <2>1 DEF ReadOnly, Knows, At, Worker, PostingPCs
    <2>. QED  BY <2>1, <2>2, ReadOnlyStep, GotoStep, ServerStep DEF PCs, PostingPCs
  <1>. QED  BY <1>2, <1>3

LEMMA StorePayloadStep ==
  ASSUME IInv, NEW w \in Workers, StorePayload(w)
  PROVE  IInv'
  <1> DEFINE q == [Idle EXCEPT !.pc = "settle"]
  <1>1. /\ At(w, "store") /\ payment.status # "NONE" /\ worker[w].result \in Amounts
        /\ worker' = [worker EXCEPT ![w] = q] /\ WithPayload(w)
        /\ journals' = journals /\ reposted' = reposted /\ phone' = phone
    BY WorkerType DEF StorePayload, WithPayload, ServerOnly, At, Knows
  <1>2. q \in Worker /\ q.pc = "settle" /\ q.payload = "none"
    BY DEF Idle, Worker, PCs
  <1>3. TablesOK
    <2>1. CASE payment.status = "PENDING"
      <3>1. /\ payment' = [payment EXCEPT !.payload = worker[w].result]
            /\ claims' = claims \cup {worker[w].result}
        BY <1>1, <2>1 DEF WithPayload
      <3>2. /\ payment' \in Payment /\ payment'.status = "PENDING"
            /\ payment'.code = payment.code /\ payment'.journal = payment.journal
            /\ payment'.error = payment.error /\ payment'.payload = worker[w].result
        BY <1>1, <2>1, <3>1 DEF IInv, TypeOK, Payment
      <3>3. journals = 0
        BY <2>1 DEF IInv, TypeOK, OnlyConfirmedMoneyCounts
      <3>4. payment'.payload # "none"
        BY <1>1, <3>2 DEF Amounts
      <3>. QED
        BY <1>1, <2>1, <3>1, <3>2, <3>3, <3>4 DEF WithPayload, ServerOnly, IInv, TypeOK,
           TablesOK, RowOK, Kept, OnlyConfirmedMoneyCounts, LinkedIsPosted
    <2>2. CASE payment.status # "PENDING"
      BY <1>1, <2>2, ReadOnlyStep DEF WithPayload, ReadOnly, history
    <2>. QED  BY <2>1, <2>2
  <1>4. payment'.status # "NONE"
    BY <1>1, <1>3 DEF TablesOK, Kept
  <1>5. Knows(q, payment', phone', journals', claims') /\ MayPost(w, q)
    BY <1>2, <1>4 DEF Knows, MayPost, PostingPCs
  <1>. QED  BY <1>1, <1>2, <1>3, <1>5, ServerStep DEF StepsTo

LEMMA RecordVerdictStep ==
  ASSUME IInv, NEW w \in Workers, RecordVerdict(w)
  PROVE  IInv'
  <1>1. /\ VerdictStatus(worker[w].result) \in {"CANCELLED", "FAILED"}
        /\ worker[w].result \in Failures
    BY WorkerType DEF VerdictStatus, RecordVerdict, Knows, At
  <1>2. TablesOK
    BY <1>1, CompletedStep DEF RecordVerdict
  <1>3. StepsTo(w, Idle)
    BY ReturnStep DEF RecordVerdict
  <1>. QED  BY <1>2, <1>3, ServerStep

LEMMA SucceedStep ==
  ASSUME IInv, NEW w \in Workers, Succeed(w)
  PROVE  IInv'
  <1>1. /\ worker[w] \in Worker /\ Knows(worker[w], payment, phone, journals, claims)
        /\ At(w, "succeed") /\ Paid /\ payment.payload # "none" /\ payment \in Payment
        /\ claims' = claims
    BY WorkerType DEF Succeed, RowOnly, history, At, Knows, Paid, IInv, TypeOK
  <1>2. TablesOK
    BY <1>1, CompletedStep DEF Succeed
  <1> DEFINE pc == IF payment.status = "PENDING" THEN "find" ELSE "idle"
             q == [worker[w] EXCEPT !.pc = pc]
  <1>3. q.pc = pc /\ q.payload = worker[w].payload
    BY <1>1 DEF Worker
  <1>4. payment.status = "PENDING" => payment'.status = "SUCCEEDED"
    BY <1>1 DEF Succeed, Completed, Payment
  <1>5. Knows(q, payment', phone', journals', claims')
    BY <1>1, <1>3, <1>4 DEF Knows, At, PostingPCs
  <1>6. Goto(w, pc) /\ pc \in PCs \ {"push"}
    BY DEF Succeed, PCs
  <1>7. pc = "find" => \A v \in Workers : ~Posting(v)
    BY DEF IInv, WorkersKnow, Knows, Posting, PostingPCs
  <1>8. pc \in PostingPCs => pc = "find"
    BY DEF PostingPCs
  <1>. QED  BY <1>2, <1>5, <1>6, <1>7, <1>8, GotoStep, ServerStep

LEMMA PostJournalStep ==
  ASSUME IInv, NEW w \in Workers, PostJournal(w)
  PROVE  IInv'
  <1>1. /\ worker[w] \in Worker /\ Knows(worker[w], payment, phone, journals, claims)
        /\ At(w, "post") /\ "asked" \in claims /\ payment.status = "SUCCEEDED"
        /\ journals = 0 /\ journals' = 1 /\ payment' = payment /\ phone' = phone
        /\ claims' = claims /\ reposted' = reposted
    BY WorkerType DEF PostJournal, ServerOnly, history, At, Knows, PostingPCs
  <1>2. TablesOK
    BY <1>1 DEF PostJournal, ServerOnly, IInv, TypeOK, TablesOK, RowOK, Kept, Paid,
       OnlyConfirmedMoneyCounts, LinkedIsPosted
  <1>3. Knows([worker[w] EXCEPT !.pc = "link"], payment', phone', journals', claims')
    BY <1>1 DEF Knows, Worker, PostingPCs
  <1>. QED  BY <1>1, <1>2, <1>3, GotoStep, ServerStep DEF PostJournal, PCs, Posting, At

LEMMA LinkStep ==
  ASSUME IInv, NEW w \in Workers, Link(w)
  PROVE  IInv'
  <1>1. payment.status = "SUCCEEDED" /\ journals = 1
    BY WorkerType DEF Link, At, Knows, PostingPCs
  <1>2. payment' = [payment EXCEPT !.journal = TRUE, !.error = FALSE] /\ payment \in Payment
    BY DEF Link, IInv, TypeOK
  <1>3. /\ payment' \in Payment /\ payment'.status = payment.status
        /\ payment'.code = payment.code /\ ~payment'.error
        /\ payment'.payload = payment.payload
    BY <1>2 DEF Payment
  <1>4. TablesOK
    BY <1>1, <1>3, ColumnsStep DEF Link
  <1>5. StepsTo(w, Idle)
    BY ReturnStep DEF Link
  <1>. QED  BY <1>4, <1>5, ServerStep

LEMMA RecordErrorStep ==
  ASSUME IInv, NEW w \in Workers, RecordError(w)
  PROVE  IInv'
  <1>1. payment.status = "SUCCEEDED" /\ payment \in Payment
    BY WorkerType DEF RecordError, At, Knows, PostingPCs, IInv, TypeOK
  <1>2. /\ payment' \in Payment /\ payment'.status = payment.status
        /\ payment'.code = payment.code /\ payment'.journal = payment.journal
        /\ payment'.payload = payment.payload
        /\ payment.journal => payment'.error = payment.error
    BY <1>1 DEF RecordError, Payment
  <1>3. TablesOK
    BY <1>1, <1>2, ColumnsStep DEF RecordError, IInv, LinkedIsPosted
  <1>4. StepsTo(w, Idle)
    BY ReturnStep DEF RecordError
  <1>. QED  BY <1>3, <1>4, ServerStep

LEMMA ExpireStep ==
  ASSUME IInv, NEW w \in Workers, Expire(w)
  PROVE  IInv'
  <1>1. /\ worker[w] \in Worker /\ Knows(worker[w], payment, phone, journals, claims)
        /\ At(w, "expire")
    BY WorkerType DEF Expire
  <1>2. TablesOK
    BY CompletedStep DEF Expire
  <1> DEFINE pc == IF payment.status = "PENDING" THEN "idle" ELSE "expireReread"
             q == [worker[w] EXCEPT !.pc = pc]
  <1>3. q.pc = pc /\ pc \in PCs \ {"push"} /\ Goto(w, pc)
    BY <1>1 DEF Worker, PCs, Expire
  <1>4. payment.status # "NONE" /\ payment'.status # "NONE"
    BY <1>1, <1>2 DEF Knows, At, TablesOK, Kept
  <1>5. Knows(q, payment', phone', journals', claims')
    BY <1>3, <1>4 DEF Knows, PostingPCs
  <1>. QED  BY <1>2, <1>3, <1>5, GotoStep, ServerStep DEF PostingPCs

-----------------------------------------------------------------------------
(* The rest of the world.                                                  *)

LEMMA CrashStep ==
  ASSUME IInv, NEW w \in Workers, Crash(w)
  PROVE  IInv'
  <1>1. TablesOK
    BY MpesaAssumption DEF Crash, history, IInv, TypeOK, TablesOK, RowOK, Kept, NoPayment, Paid,
       OnlyConfirmedMoneyCounts, LinkedIsPosted
  <1>2. StepsTo(w, Idle)
    BY ReturnStep DEF Crash
  <1>. QED  BY <1>1, <1>2, ServerStep

LEMMA WorldStep ==
  ASSUME IInv, Prompt \/ Answer \/ Tick
  PROVE  IInv'
  <1>1. /\ payment' = payment /\ journals' = journals /\ worker' = worker
        /\ crashes' = crashes /\ phone' \in Phone /\ age' \in Ages
        /\ claims' = claims /\ reposted' = reposted
        /\ phone' = phone \/ phone \in {"sent", "prompted"}
    BY DEF Prompt, Answer, Tick, history, IInv, TypeOK, Phone, Failures, Ages
  <1>2. Kept
    BY <1>1 DEF Kept, Settled, Failures
  <1>3. WorkersKnow'
    <2>. SUFFICES ASSUME NEW v \in Workers
                  PROVE  Knows(worker'[v], payment', phone', journals', claims')
      BY DEF WorkersKnow
    <2>. QED  BY <1>1, <1>2, KnowsKept DEF IInv, WorkersKnow
  <1>4. PushedOnce' /\ OnePoster'
    BY <1>1 DEF IInv, PushedOnce, OnePoster, Posting, At
  <1>. QED
    BY <1>1, <1>3, <1>4 DEF IInv, TypeOK, RowOK, Paid,
       OnlyConfirmedMoneyCounts, LinkedIsPosted

-----------------------------------------------------------------------------
(* The theorems.                                                           *)

LEMMA IInvInit == Init => IInv
  <1>. SUFFICES ASSUME Init PROVE IInv
    OBVIOUS
  <1>1. TypeOK
    <2>1. NoPayment \in Payment /\ Idle \in Worker
      BY DEF Payment, NoPayment, PaymentStatus, Worker, Idle, PCs
    <2>2. crashes \in 0 .. MaxCrashes /\ journals \in Nat
      BY MpesaAssumption DEF Init
    <2>3. phone \in Phone /\ age \in Ages /\ claims \subseteq Amounts /\ reposted \in BOOLEAN
      BY DEF Init, Phone, Ages
    <2>. QED  BY <2>1, <2>2, <2>3 DEF Init, TypeOK
  <1>2. RowOK /\ OnlyConfirmedMoneyCounts /\ LinkedIsPosted
    BY DEF Init, RowOK, NoPayment, OnlyConfirmedMoneyCounts, LinkedIsPosted
  <1>3. WorkersKnow /\ PushedOnce /\ OnePoster
    BY DEF Init, WorkersKnow, PushedOnce, OnePoster, Posting, Knows, At, Idle, PostingPCs
  <1>. QED  BY <1>1, <1>2, <1>3 DEF IInv

LEMMA IInvStep == IInv /\ [Next]_vars => IInv'
  <1>. SUFFICES ASSUME IInv, [Next]_vars PROVE IInv'
    OBVIOUS
  <1>1. ASSUME NEW w \in Workers, Arrive(w) PROVE IInv'
    BY <1>1, InsertPaymentStep, ReadingStep, RepostReadStep DEF Arrive
  <1>2. ASSUME NEW w \in Workers, Proceed(w) PROVE IInv'
    BY <1>2, PushStep, ReadingStep, MarkPushedStep, FailPushStep, AdoptStep,
       StorePayloadStep, RecordVerdictStep, SucceedStep, PostJournalStep, LinkStep,
       RecordErrorStep, ExpireStep DEF Proceed
  <1>3. ASSUME NEW w \in Workers, Crash(w) PROVE IInv'
    BY <1>3, CrashStep
  <1>4. CASE Prompt \/ Answer \/ Tick
    BY <1>4, WorldStep
  <1>5. CASE UNCHANGED vars
    BY <1>5 DEF vars, IInv, TypeOK, RowOK, WorkersKnow, PushedOnce, OnePoster, Posting, At,
       Knows, Paid, OnlyConfirmedMoneyCounts, LinkedIsPosted
  <1>. QED  BY <1>1, <1>2, <1>3, <1>4, <1>5 DEF Next

(* The inductive invariant holds in every reachable state: what a request
   knows while it waits stays true whatever the others do. *)
THEOREM Inductive == Spec => []IInv
  BY IInvInit, IInvStep, PTL DEF Spec

(* The payments row, the requests and Safaricom keep their types. *)
THEOREM TypeCorrect == Spec => []TypeOK
  <1>1. IInv => TypeOK
    BY DEF IInv
  <1>. QED  BY <1>1, Inductive, PTL

(* A payment counts as received only when Daraja confirmed it and a callback
   brought a receipt; it is posted only if a stored callback claimed the
   amount asked, for any number of racing requests (settle, postToLedger). *)
THEOREM ConfirmedMoneyOnly == Spec => []OnlyConfirmedMoneyCounts
  <1>1. IInv => OnlyConfirmedMoneyCounts
    BY DEF IInv
  <1>. QED  BY <1>1, Inductive, PTL

(* Of all the requests that settle a payment, one goes on to post it, unless
   a person asks for a repost (completeIfPending, settle). *)
THEOREM PostedByOne == Spec => []OnePoster
  <1>1. IInv => OnePoster
    BY DEF IInv
  <1>. QED  BY <1>1, Inductive, PTL

(* A linked payment is in the ledger, once, and shows no posting error; a
   journal that lacks its link can still get it (setPostingResult). *)
THEOREM LinkedPosted == Spec => []LinkedIsPosted
  <1>1. IInv => LinkedIsPosted
    BY DEF IInv
  <1>. QED  BY <1>1, Inductive, PTL

LEMMA VerdictStep ==
  ASSUME IInv, [Next]_vars, payment.code # "null"
  PROVE  payment'.status = payment.status /\ payment'.code = payment.code
  <1>1. payment \in Payment /\ payment.status \notin {"NONE", "PENDING"}
    BY DEF IInv, TypeOK, RowOK, NoPayment
  <1>2. ~Adoptable(payment) /\ \A st, c : Completed(payment, st, c) = payment
    BY <1>1 DEF Adoptable, Completed
  <1>3. ASSUME NEW w \in Workers, Arrive(w) \/ Proceed(w) \/ Crash(w)
        PROVE  payment'.status = payment.status /\ payment'.code = payment.code
    <2>1. CASE Arrive(w)
      BY <1>1, <2>1 DEF Arrive, InsertPayment, NoPayment, CallbackRead, PollRead,
         RepostRead, ReadOnly
    <2>2. CASE Proceed(w)
      BY <1>1, <1>2, <2>2 DEF Proceed, ReadOnly, Payment, Push, PushAccepted, PushRefused,
         PushUnknown, MarkPushed, MarkPushedFails, FailPush, Adopt, AdoptReread,
         StorePayload, WithPayload, RecordVerdict, SettleRead, QueryAnswered, QueryInconclusive,
         Succeed, FindJournal, PostJournal, PostFails, Link, LinkFails, RecordError,
         Expire, ExpireReread
    <2>3. CASE Crash(w)
      BY <2>3 DEF Crash
    <2>. QED  BY <1>3, <2>1, <2>2, <2>3
  <1>4. CASE Prompt \/ Answer \/ Tick \/ UNCHANGED vars
    BY <1>4 DEF Prompt, Answer, Tick, vars
  <1>. QED  BY <1>3, <1>4 DEF Next

(* Once the row carries a result no request changes it, however late it
   comes (completeIfPending, adoptCheckoutRequest). *)
THEOREM VerdictsFinal == Spec => VerdictsAreFinal
  <1>1. IInv /\ [Next]_vars
        => [payment.code # "null" =>
              payment'.status = payment.status /\ payment'.code = payment.code]_vars
    BY VerdictStep
  <1>. QED  BY <1>1, Inductive, PTL DEF Spec, VerdictsAreFinal

-----------------------------------------------------------------------------
(***************************************************************************)
(* Idempotency, for any number of requests, bodies, failures and effects.  *)
(* The inductive invariant is KeyInv: until claims are disturbed, the row  *)
(* belongs to at most one request at a time, and what that request and the *)
(* row know of each other.                                                 *)
(***************************************************************************)
IsClaimer(q) == q.pc \in {"run", "settle"}

(* What request q knows of the row r and the effects e. *)
RequestKnows(q, r, e) ==
    /\ q.pc # "idle" => q.body \in Bodies
    /\ IsClaimer(q) => r.status = "IN_PROGRESS" /\ r.body = q.body
    /\ q.pc \in {"takeOver", "run"} => ~q.ok
    /\ q.pc \in {"settle", "answer"} /\ q.ok => e[q.body] > 0
    /\ q.pc = "answer" /\ q.ok => r.status = "COMPLETED" /\ r.body = q.body

RequestsKnow == \A w \in Requests : RequestKnows(request[w], row, effects)

OneClaimer ==
    \A v, w \in Requests : IsClaimer(request[v]) /\ IsClaimer(request[w]) => v = w

(* A stored answer is that of an execution of the request it is kept for. *)
StoredIsOwn ==
    row.status = "COMPLETED" => row.answer = row.body /\ effects[row.body] > 0

(* Where an effect of a body without clientUuid can be seen, unless the
   handler answered it with an error. *)
Witnessed(b) ==
    \/ row.status = "COMPLETED" /\ row.body = b
    \/ \E w \in Requests : request[w].pc = "settle" /\ request[w].ok /\ request[w].body = b

EffectsWitnessed ==
    failures = 0 =>
        /\ \A b \in Bodies \ (GuardedBodies \cup halfway) : effects[b] > 0 => Witnessed(b)
        /\ \A b \in Bodies \ (halfway \ GuardedBodies) : effects[b] <= 1

Undisturbed ==
    /\ RequestsKnow
    /\ OneClaimer
    /\ StoredIsOwn
    /\ EffectsWitnessed
    /\ AnsweredIsReplayed
    /\ ReplaysReportSuccess

(* Every request in flight has a body. *)
BodiesOK == \A w \in Requests : request[w].pc # "idle" => request[w].body \in Bodies

KeyInv ==
    /\ KeyTypeOK
    /\ BodiesOK
    /\ disturbed \/ Undisturbed

-----------------------------------------------------------------------------
(* Types.                                                                  *)

LEMMA RowType ==
  ASSUME KeyTypeOK
  PROVE  /\ row.status \in {"NONE", "IN_PROGRESS", "COMPLETED"}
         /\ row.status = "NONE" <=> row = NoRow
         /\ row # NoRow => row.body \in Bodies
         /\ row.status = "IN_PROGRESS" => \A t \in BOOLEAN : [row EXCEPT !.stale = t] \in Row
         /\ \A b \in Bodies : ClaimOf(b) \in Row
         /\ row # NoRow => \A b \in Bodies :
                [row EXCEPT !.status = "COMPLETED", !.answer = b] \in Row
  <1>1. ASSUME NEW b \in Bodies PROVE ClaimOf(b) \in Row
    BY DEF ClaimOf, NoRow, Row
  <1>2. CASE row = NoRow
    BY <1>1, <1>2 DEF NoRow
  <1>3. CASE row \in [status : {"IN_PROGRESS"}, body : Bodies, answer : {NoBody},
                      stale : BOOLEAN]
    <2>1. row.status = "IN_PROGRESS" /\ row # NoRow /\ row.body \in Bodies
      BY <1>3 DEF NoRow
    <2>2. ASSUME NEW t \in BOOLEAN PROVE [row EXCEPT !.stale = t] \in Row
      <3>. [row EXCEPT !.stale = t] \in [status : {"IN_PROGRESS"}, body : Bodies,
                                         answer : {NoBody}, stale : BOOLEAN]
        BY <1>3
      <3>. QED  BY DEF Row
    <2>3. ASSUME NEW b \in Bodies
          PROVE  [row EXCEPT !.status = "COMPLETED", !.answer = b] \in Row
      <3>. [row EXCEPT !.status = "COMPLETED", !.answer = b]
             \in [status : {"COMPLETED"}, body : Bodies, answer : Bodies, stale : BOOLEAN]
        BY <1>3
      <3>. QED  BY DEF Row
    <2>. QED  BY <1>1, <2>1, <2>2, <2>3
  <1>4. CASE row \in [status : {"COMPLETED"}, body : Bodies, answer : Bodies,
                      stale : BOOLEAN]
    <2>1. row.status = "COMPLETED" /\ row # NoRow /\ row.body \in Bodies
      BY <1>4 DEF NoRow
    <2>2. ASSUME NEW b \in Bodies
          PROVE  [row EXCEPT !.status = "COMPLETED", !.answer = b] \in Row
      <3>. [row EXCEPT !.status = "COMPLETED", !.answer = b]
             \in [status : {"COMPLETED"}, body : Bodies, answer : Bodies, stale : BOOLEAN]
        BY <1>4
      <3>. QED  BY DEF Row
    <2>. QED  BY <1>1, <2>1, <2>2
  <1>. QED  BY <1>2, <1>3, <1>4 DEF KeyTypeOK, Row

(* The step of request w that leaves it in state q. *)
LEMMA RequestType ==
  ASSUME KeyTypeOK, BodiesOK, NEW w \in Requests, NEW q \in Request,
         request' = [request EXCEPT ![w] = q], q.pc # "idle" => q.body \in Bodies
  PROVE  /\ request' \in [Requests -> Request] /\ BodiesOK'
         /\ request'[w] = q
         /\ \A v \in Requests \ {w} : request'[v] = request[v]
  BY DEF KeyTypeOK, BodiesOK

LEMMA GotoType ==
  ASSUME KeyTypeOK, BodiesOK, NEW w \in Requests, request[w].pc # "idle",
         NEW pc \in {"read", "run", "settle", "answer"}, MoveTo(w, pc)
  PROVE  /\ request' \in [Requests -> Request] /\ BodiesOK'
         /\ request'[w].pc = pc /\ request'[w].body = request[w].body
         /\ request'[w].ok = request[w].ok
         /\ \A v \in Requests \ {w} : request'[v] = request[v]
  <1> DEFINE q == [request[w] EXCEPT !.pc = pc]
  <1>1. request[w] \in Request
    BY DEF KeyTypeOK
  <1>2. /\ q \in Request /\ q.pc = pc /\ q.body = request[w].body /\ q.ok = request[w].ok
        /\ request' = [request EXCEPT ![w] = q] /\ q.body \in Bodies
    BY <1>1 DEF Request, MoveTo, KeyTypeOK, BodiesOK
  <1>. QED  BY <1>2, RequestType

LEMMA ReturnType ==
  ASSUME KeyTypeOK, BodiesOK, NEW w \in Requests, Leave(w)
  PROVE  /\ request' \in [Requests -> Request] /\ BodiesOK'
         /\ request'[w] = NoRequest
         /\ \A v \in Requests \ {w} : request'[v] = request[v]
  <1>1. NoRequest \in Request /\ NoRequest.pc = "idle"
    BY DEF NoRequest, Request
  <1>. QED  BY <1>1, RequestType DEF Leave

-----------------------------------------------------------------------------
(* The invariant after each action.                                        *)

LEMMA ClaimInsertStep ==
  ASSUME KeyInv, NEW w \in Requests, ClaimInsert(w)
  PROVE  KeyInv'
  <1>1. PICK b \in Bodies :
          /\ row' = IF row = NoRow THEN ClaimOf(b) ELSE row
          /\ request' = [request EXCEPT ![w] = [NoRequest EXCEPT !.body = b,
                            !.pc = IF row = NoRow THEN "run" ELSE "takeOver"]]
          /\ UNCHANGED <<effects, failures, disturbed, halfway, answered, replayed>>
          /\ request[w].pc = "idle"
    BY DEF ClaimInsert, histories, Doing
  <1> DEFINE pc == IF row = NoRow THEN "run" ELSE "takeOver"
             q == [NoRequest EXCEPT !.body = b, !.pc = pc]
  <1>2. q \in Request /\ q.pc = pc /\ q.body = b /\ ~q.ok
    BY DEF NoRequest, Request
  <1>3. /\ request' \in [Requests -> Request] /\ BodiesOK' /\ request'[w] = q
        /\ \A v \in Requests \ {w} : request'[v] = request[v]
    BY <1>1, <1>2, RequestType DEF KeyInv
  <1>4. KeyTypeOK'
    BY <1>1, <1>3, RowType DEF KeyInv, KeyTypeOK
  <1>5. ASSUME ~disturbed PROVE Undisturbed'
    <2>1. Undisturbed /\ ~disturbed'
      BY <1>1, <1>5 DEF KeyInv
    <2>2. CASE row = NoRow
      <3>1. row' = ClaimOf(b) /\ row'.status = "IN_PROGRESS" /\ row'.body = b
            /\ row.status = "NONE" /\ q.pc = "run"
        BY <1>1, <1>2, <2>2, RowType DEF ClaimOf, NoRow, KeyInv
      <3>2. \A v \in Requests : ~IsClaimer(request[v])
                /\ ~(request[v].pc = "answer" /\ request[v].ok)
        BY <2>1, <3>1 DEF Undisturbed, RequestsKnow, RequestKnows
      <3>3. RequestsKnow' /\ OneClaimer'
        BY <1>1, <1>2, <1>3, <2>1, <3>1, <3>2
           DEF Undisturbed, RequestsKnow, OneClaimer, RequestKnows, IsClaimer
      <3>4. answered = {}
        BY <2>1, <1>5, <3>1 DEF Undisturbed, AnsweredIsReplayed, KeyInv, KeyTypeOK
      <3>5. StoredIsOwn' /\ AnsweredIsReplayed' /\ ReplaysReportSuccess'
        BY <1>1, <2>1, <1>5, <3>1, <3>4
           DEF Undisturbed, StoredIsOwn, AnsweredIsReplayed, ReplaysReportSuccess
      <3>6. EffectsWitnessed'
        BY <1>1, <1>3, <2>1, <3>1, <3>2
           DEF Undisturbed, EffectsWitnessed, Witnessed, IsClaimer
      <3>. QED  BY <3>3, <3>5, <3>6 DEF Undisturbed
    <2>3. CASE row # NoRow
      <3>1. row' = row /\ q.pc = "takeOver"
        BY <1>1, <1>2, <2>3
      <3>2. RequestsKnow' /\ OneClaimer'
        BY <1>1, <1>2, <1>3, <2>1, <3>1
           DEF Undisturbed, RequestsKnow, OneClaimer, RequestKnows, IsClaimer
      <3>3. StoredIsOwn' /\ AnsweredIsReplayed' /\ ReplaysReportSuccess'
        BY <1>1, <2>1, <3>1
           DEF Undisturbed, StoredIsOwn, AnsweredIsReplayed, ReplaysReportSuccess
      <3>4. EffectsWitnessed'
        BY <1>1, <1>3, <2>1, <3>1
           DEF Undisturbed, EffectsWitnessed, Witnessed
      <3>. QED  BY <3>2, <3>3, <3>4 DEF Undisturbed
    <2>. QED  BY <2>2, <2>3
  <1>. QED  BY <1>1, <1>3, <1>4, <1>5 DEF KeyInv

LEMMA TakeOverStep ==
  ASSUME KeyInv, NEW w \in Requests, TakeOver(w)
  PROVE  KeyInv'
  <1> DEFINE q == request[w]
             Takes == row.status = "IN_PROGRESS" /\ row.stale /\ row.body = q.body
  <1>1. request[w].pc = "takeOver" /\ request[w].body \in Bodies
        /\ UNCHANGED <<effects, failures, halfway, answered, replayed>>
    BY DEF TakeOver, Doing, KeyInv, BodiesOK
  <1>2. CASE Takes
    <2>1. /\ row' = [row EXCEPT !.stale = FALSE] /\ MoveTo(w, "run")
          /\ disturbed' = (disturbed \/ Claimers # {})
      BY <1>2 DEF TakeOver
    <2>2. /\ request' \in [Requests -> Request] /\ BodiesOK'
          /\ request'[w].pc = "run" /\ request'[w].body = request[w].body
          /\ request'[w].ok = request[w].ok
          /\ \A v \in Requests \ {w} : request'[v] = request[v]
      BY <1>1, <2>1, GotoType DEF KeyInv
    <2>3. row' \in Row /\ row'.status = row.status /\ row'.body = row.body
      BY <1>2, <2>1, RowType DEF KeyInv, KeyTypeOK, Row
    <2>4. disturbed' \in BOOLEAN
      BY <2>1 DEF KeyInv, KeyTypeOK
    <2>5. KeyTypeOK'
      BY <1>1, <2>2, <2>3, <2>4 DEF KeyInv, KeyTypeOK
    <2>6. ASSUME ~disturbed' PROVE Undisturbed'
      <3>1. ~disturbed /\ Claimers = {}
        BY <2>1, <2>6
      <3>2. Undisturbed /\ \A v \in Requests : ~IsClaimer(request[v])
        BY <3>1 DEF KeyInv, Claimers, IsClaimer
      <3>3. RequestsKnow' /\ OneClaimer'
        BY <1>1, <1>2, <2>2, <2>3, <3>2
           DEF Undisturbed, RequestsKnow, OneClaimer, RequestKnows, IsClaimer
      <3>4. answered = {}
        BY <1>2, <3>1, <3>2 DEF Undisturbed, AnsweredIsReplayed, KeyInv, KeyTypeOK
      <3>5. StoredIsOwn' /\ AnsweredIsReplayed' /\ ReplaysReportSuccess'
        BY <1>1, <1>2, <2>3, <3>1, <3>2, <3>4
           DEF Undisturbed, StoredIsOwn, AnsweredIsReplayed, ReplaysReportSuccess
      <3>6. EffectsWitnessed'
        BY <1>1, <1>2, <2>2, <2>3, <3>2
           DEF Undisturbed, EffectsWitnessed, Witnessed, IsClaimer
      <3>. QED  BY <3>3, <3>5, <3>6 DEF Undisturbed
    <2>. QED  BY <2>2, <2>5, <2>6 DEF KeyInv
  <1>3. CASE ~Takes
    <2>1. row' = row /\ disturbed' = disturbed /\ MoveTo(w, "read")
      BY <1>3 DEF TakeOver
    <2>2. /\ request' \in [Requests -> Request] /\ BodiesOK'
          /\ request'[w].pc = "read" /\ request'[w].body = request[w].body
          /\ \A v \in Requests \ {w} : request'[v] = request[v]
      BY <1>1, <2>1, GotoType DEF KeyInv
    <2>3. KeyTypeOK'
      BY <1>1, <2>1, <2>2 DEF KeyInv, KeyTypeOK
    <2>4. ASSUME ~disturbed' PROVE Undisturbed'
      <3>1. Undisturbed
        BY <2>1, <2>4 DEF KeyInv
      <3>2. RequestsKnow' /\ OneClaimer'
        BY <1>1, <2>1, <2>2, <3>1
           DEF Undisturbed, RequestsKnow, OneClaimer, RequestKnows, IsClaimer
      <3>3. StoredIsOwn' /\ AnsweredIsReplayed' /\ ReplaysReportSuccess'
        BY <1>1, <2>1, <3>1
           DEF Undisturbed, StoredIsOwn, AnsweredIsReplayed, ReplaysReportSuccess
      <3>4. EffectsWitnessed'
        BY <1>1, <2>1, <2>2, <3>1 DEF Undisturbed, EffectsWitnessed, Witnessed
      <3>. QED  BY <3>2, <3>3, <3>4 DEF Undisturbed
    <2>. QED  BY <2>2, <2>3, <2>4 DEF KeyInv
  <1>. QED  BY <1>2, <1>3

LEMMA ReadExistingStep ==
  ASSUME KeyInv, NEW w \in Requests, ReadExisting(w)
  PROVE  KeyInv'
  <1>1. /\ UNCHANGED <<row, effects, failures, disturbed, halfway, answered>> /\ Leave(w)
        /\ request[w].pc = "read" /\ request[w].body \in Bodies
    BY DEF ReadExisting, Doing, KeyInv, BodiesOK
  <1>2. /\ request' \in [Requests -> Request] /\ BodiesOK' /\ request'[w] = NoRequest
        /\ \A v \in Requests \ {w} : request'[v] = request[v]
    BY <1>1, ReturnType DEF KeyInv
  <1>3. NoRequest.pc = "idle"
    BY DEF NoRequest
  <1>4. row.status = "COMPLETED" => row.answer \in Bodies
    BY DEF KeyInv, KeyTypeOK, Row, NoRow
  <1>5. KeyTypeOK'
    BY <1>1, <1>2, <1>4 DEF KeyInv, KeyTypeOK, ReadExisting
  <1>6. ASSUME ~disturbed' PROVE Undisturbed'
    <2>1. Undisturbed /\ ~disturbed
      BY <1>1, <1>6 DEF KeyInv
    <2>2. RequestsKnow' /\ OneClaimer'
      BY <1>1, <1>2, <1>3, <2>1
         DEF Undisturbed, RequestsKnow, OneClaimer, RequestKnows, IsClaimer
    <2>3. StoredIsOwn' /\ AnsweredIsReplayed'
      BY <1>1, <2>1 DEF Undisturbed, StoredIsOwn, AnsweredIsReplayed
    <2>4. ReplaysReportSuccess'
      <3>. SUFFICES ASSUME NEW x \in replayed'
                    PROVE  x[1] = x[2] /\ effects'[x[1]] > 0
        BY DEF ReplaysReportSuccess
      <3>1. CASE x \in replayed
        BY <1>1, <2>1, <3>1 DEF Undisturbed, ReplaysReportSuccess
      <3>2. CASE x \notin replayed
        <4>1. row.status = "COMPLETED" /\ row.body = request[w].body
              /\ x = <<request[w].body, row.answer>>
          BY <3>2 DEF ReadExisting
        <4>. QED  BY <1>1, <2>1, <4>1 DEF Undisturbed, StoredIsOwn
      <3>. QED  BY <3>1, <3>2
    <2>5. EffectsWitnessed'
      BY <1>1, <1>2, <2>1 DEF Undisturbed, EffectsWitnessed, Witnessed
    <2>. QED  BY <2>2, <2>3, <2>4, <2>5 DEF Undisturbed
  <1>. QED  BY <1>2, <1>5, <1>6 DEF KeyInv

(* The two ways the handler commits; ok is whether it then answers 2xx. *)
LEMMA CommitStep ==
  ASSUME KeyInv, NEW w \in Requests, NEW b, b = request[w].body, Doing(w, "run"),
         NEW q \in Request, q.pc = "settle", q.body = b,
         request' = [request EXCEPT ![w] = q],
         effects' = [effects EXCEPT ![b] = @ + 1],
         b \in GuardedBodies => effects[b] = 0,
         halfway' \in {halfway, halfway \cup {b}}, q.ok \/ b \in halfway',
         UNCHANGED <<row, failures, disturbed, answered, replayed>>
  PROVE  KeyInv'
  <1>1. request[w].pc = "run" /\ b \in Bodies
    BY DEF Doing, KeyInv, BodiesOK
  <1>2. /\ request' \in [Requests -> Request] /\ BodiesOK' /\ request'[w] = q
        /\ \A v \in Requests \ {w} : request'[v] = request[v]
    BY <1>1, RequestType DEF KeyInv
  <1>3. /\ effects' \in [Bodies -> Nat] /\ effects'[b] = effects[b] + 1
        /\ \A c \in Bodies \ {b} : effects'[c] = effects[c]
        /\ \A c \in Bodies : effects[c] \in Nat /\ effects'[c] >= effects[c]
    BY <1>1 DEF KeyInv, KeyTypeOK
  <1>4. KeyTypeOK'
    BY <1>1, <1>2, <1>3 DEF KeyInv, KeyTypeOK
  <1>5. ASSUME ~disturbed' PROVE Undisturbed'
    <2>1. Undisturbed /\ ~disturbed
      BY <1>5 DEF KeyInv
    <2>2. row.status = "IN_PROGRESS" /\ row.body = b
      BY <1>1, <2>1 DEF Undisturbed, RequestsKnow, RequestKnows, IsClaimer
    <2>3. RequestsKnow'
      <3>. SUFFICES ASSUME NEW v \in Requests PROVE RequestKnows(request'[v], row', effects')
        BY DEF RequestsKnow
      <3>1. CASE v = w
        BY <1>1, <1>2, <1>3, <2>2, <3>1 DEF RequestKnows, IsClaimer
      <3>2. CASE v # w
        <4>1. RequestKnows(request[v], row, effects) /\ request'[v] = request[v]
              /\ (request[v].pc # "idle" => request[v].body \in Bodies)
          BY <1>2, <2>1, <3>2 DEF Undisturbed, RequestsKnow, KeyInv, BodiesOK
        <4>. QED  BY <1>3, <4>1 DEF RequestKnows
      <3>. QED  BY <3>1, <3>2
    <2>4. OneClaimer'
      BY <1>1, <1>2, <2>1 DEF Undisturbed, OneClaimer, IsClaimer
    <2>5. answered = {}
      BY <2>1, <2>2 DEF Undisturbed, AnsweredIsReplayed, KeyInv, KeyTypeOK
    <2>6. StoredIsOwn' /\ AnsweredIsReplayed'
      BY <2>2, <2>5 DEF StoredIsOwn, AnsweredIsReplayed
    <2>7. ReplaysReportSuccess'
      <3>. SUFFICES ASSUME NEW x \in replayed
                    PROVE  x[1] = x[2] /\ effects'[x[1]] > 0
        BY DEF ReplaysReportSuccess
      <3>1. x[1] = x[2] /\ effects[x[1]] > 0 /\ x[1] \in Bodies
        BY <2>1 DEF Undisturbed, ReplaysReportSuccess, KeyInv, KeyTypeOK
      <3>. QED  BY <1>3, <3>1
    <2>8. EffectsWitnessed'
      <3>. SUFFICES ASSUME failures = 0
                    PROVE  /\ \A c \in Bodies \ (GuardedBodies \cup halfway') :
                                  effects'[c] > 0 => Witnessed(c)'
                           /\ \A c \in Bodies \ (halfway' \ GuardedBodies) : effects'[c] <= 1
        BY DEF EffectsWitnessed
      <3>1. \A v \in Requests : ~(request[v].pc = "settle")
        BY <1>1, <2>1 DEF Undisturbed, OneClaimer, IsClaimer
      <3>2. b \notin halfway \ GuardedBodies => effects[b] = 0
        BY <1>1, <1>3, <2>1, <2>2, <3>1 DEF Undisturbed, EffectsWitnessed, Witnessed
      <3>3. \A c \in Bodies \ (halfway' \ GuardedBodies) : effects'[c] <= 1
        BY <1>3, <2>1, <3>2 DEF Undisturbed, EffectsWitnessed
      <3>4. ASSUME NEW c \in Bodies \ (GuardedBodies \cup halfway'), effects'[c] > 0
            PROVE  Witnessed(c)'
        BY <1>2, <1>3, <2>1, <2>2, <3>1, <3>4 DEF Undisturbed, EffectsWitnessed, Witnessed
      <3>. QED  BY <3>3, <3>4
    <2>. QED  BY <2>3, <2>4, <2>6, <2>7, <2>8 DEF Undisturbed
  <1>. QED  BY <1>2, <1>4, <1>5 DEF KeyInv

LEMMA ExecuteStep ==
  ASSUME KeyInv, NEW w \in Requests, Execute(w)
  PROVE  KeyInv'
  <1> DEFINE b == request[w].body
             q == [request[w] EXCEPT !.pc = "settle", !.ok = TRUE]
  <1>1. request[w] \in Request
    BY DEF KeyInv, KeyTypeOK
  <1>2. q \in Request /\ q.pc = "settle" /\ q.body = b /\ q.ok
    BY <1>1 DEF Request
  <1>3. /\ Doing(w, "run") /\ (b \in GuardedBodies => effects[b] = 0)
        /\ effects' = [effects EXCEPT ![b] = @ + 1]
        /\ UNCHANGED <<row, failures, disturbed, halfway, answered, replayed>>
    BY DEF Execute, histories
  <1>4. request' = [request EXCEPT ![w] = q]
    BY DEF Execute, KeyInv, KeyTypeOK
  <1>. QED  BY <1>2, <1>3, <1>4, CommitStep

LEMMA FailHalfwayStep ==
  ASSUME KeyInv, NEW w \in Requests, FailHalfway(w)
  PROVE  KeyInv'
  <1> DEFINE b == request[w].body
             q == [request[w] EXCEPT !.pc = "settle"]
  <1>1. request[w] \in Request
    BY DEF KeyInv, KeyTypeOK
  <1>2. q \in Request /\ q.pc = "settle" /\ q.body = b
    BY <1>1 DEF Request
  <1>3. /\ Doing(w, "run") /\ (b \in GuardedBodies => effects[b] = 0)
        /\ effects' = [effects EXCEPT ![b] = @ + 1]
        /\ halfway' = halfway \cup {b}
        /\ UNCHANGED <<row, failures, disturbed, answered, replayed>>
    BY DEF FailHalfway
  <1>4. request' = [request EXCEPT ![w] = q]
    BY DEF FailHalfway, MoveTo, KeyInv, KeyTypeOK
  <1>. QED  BY <1>2, <1>3, <1>4, CommitStep

LEMMA RefuseStep ==
  ASSUME KeyInv, NEW w \in Requests, Refuse(w)
  PROVE  KeyInv'
  <1>1. /\ request[w].pc = "run" /\ MoveTo(w, "settle")
        /\ UNCHANGED <<row, effects, failures, disturbed, halfway, answered, replayed>>
    BY DEF Refuse, Doing, histories
  <1>2. /\ request' \in [Requests -> Request] /\ BodiesOK'
        /\ request'[w].pc = "settle" /\ request'[w].body = request[w].body
        /\ request'[w].ok = request[w].ok
        /\ \A v \in Requests \ {w} : request'[v] = request[v]
    BY <1>1, GotoType DEF KeyInv
  <1>3. KeyTypeOK'
    BY <1>1, <1>2 DEF KeyInv, KeyTypeOK
  <1>4. ASSUME ~disturbed' PROVE Undisturbed'
    <2>1. Undisturbed
      BY <1>1, <1>4 DEF KeyInv
    <2>2. RequestsKnow' /\ OneClaimer'
      BY <1>1, <1>2, <2>1 DEF Undisturbed, RequestsKnow, OneClaimer, RequestKnows, IsClaimer
    <2>3. StoredIsOwn' /\ AnsweredIsReplayed' /\ ReplaysReportSuccess'
      BY <1>1, <2>1
         DEF Undisturbed, StoredIsOwn, AnsweredIsReplayed, ReplaysReportSuccess
    <2>4. EffectsWitnessed'
      BY <1>1, <1>2, <2>1 DEF Undisturbed, EffectsWitnessed, Witnessed
    <2>. QED  BY <2>2, <2>3, <2>4 DEF Undisturbed
  <1>. QED  BY <1>2, <1>3, <1>4 DEF KeyInv

LEMMA SettleStep ==
  ASSUME KeyInv, NEW w \in Requests, Settle(w)
  PROVE  KeyInv'
  <1> DEFINE b == request[w].body
  <1>1. /\ request[w].pc = "settle" /\ MoveTo(w, "answer") /\ b \in Bodies
        /\ UNCHANGED <<effects, failures, disturbed, halfway, answered, replayed>>
        /\ row' = IF request[w].ok THEN Complete(w) ELSE Release
    BY DEF Settle, Doing, histories, KeyInv, BodiesOK
  <1>2. /\ request' \in [Requests -> Request] /\ BodiesOK'
        /\ request'[w].pc = "answer" /\ request'[w].body = b
        /\ request'[w].ok = request[w].ok
        /\ \A v \in Requests \ {w} : request'[v] = request[v]
    BY <1>1, GotoType DEF KeyInv
  <1>3. row \in Row /\ NoRow \in Row
    BY DEF KeyInv, KeyTypeOK, Row
  <1>4. KeyTypeOK'
    BY <1>1, <1>2, <1>3, RowType DEF KeyInv, KeyTypeOK, Complete, Release
  <1>5. ASSUME ~disturbed' PROVE Undisturbed'
    <2>1. Undisturbed /\ ~disturbed
      BY <1>1, <1>5 DEF KeyInv
    <2>2. /\ row.status = "IN_PROGRESS" /\ row.body = b
          /\ \A v \in Requests \ {w} : ~IsClaimer(request[v])
                /\ ~(request[v].pc = "answer" /\ request[v].ok)
      BY <1>1, <2>1 DEF Undisturbed, RequestsKnow, OneClaimer, RequestKnows, IsClaimer
    <2>3. answered = {} /\ row # NoRow
      BY <2>1, <2>2 DEF Undisturbed, AnsweredIsReplayed, KeyInv, KeyTypeOK, NoRow
    <2>4. CASE request[w].ok
      <3>1. row'.status = "COMPLETED" /\ row'.body = b /\ row'.answer = b
        BY <1>1, <1>3, <2>2, <2>3, <2>4 DEF Complete, Row
      <3>2. effects[b] > 0
        BY <1>1, <2>1, <2>4 DEF Undisturbed, RequestsKnow, RequestKnows
      <3>3. RequestsKnow' /\ OneClaimer'
        BY <1>1, <1>2, <2>1, <2>2, <3>1, <3>2
           DEF Undisturbed, RequestsKnow, OneClaimer, RequestKnows, IsClaimer
      <3>4. StoredIsOwn' /\ AnsweredIsReplayed' /\ ReplaysReportSuccess'
        BY <1>1, <2>1, <2>3, <3>1, <3>2
           DEF Undisturbed, StoredIsOwn, AnsweredIsReplayed, ReplaysReportSuccess
      <3>5. EffectsWitnessed'
        BY <1>1, <1>2, <2>1, <2>2, <3>1
           DEF Undisturbed, EffectsWitnessed, Witnessed, IsClaimer
      <3>. QED  BY <3>3, <3>4, <3>5 DEF Undisturbed
    <2>5. CASE ~request[w].ok
      <3>1. row' = NoRow /\ row'.status = "NONE"
        BY <1>1, <2>2, <2>5 DEF Release, NoRow
      <3>2. RequestsKnow' /\ OneClaimer'
        BY <1>1, <1>2, <2>1, <2>2, <2>5, <3>1
           DEF Undisturbed, RequestsKnow, OneClaimer, RequestKnows, IsClaimer
      <3>3. StoredIsOwn' /\ AnsweredIsReplayed' /\ ReplaysReportSuccess'
        BY <1>1, <2>1, <2>3, <3>1
           DEF Undisturbed, StoredIsOwn, AnsweredIsReplayed, ReplaysReportSuccess
      <3>4. EffectsWitnessed'
        BY <1>1, <1>2, <2>1, <2>2, <2>5, <3>1
           DEF Undisturbed, EffectsWitnessed, Witnessed, IsClaimer
      <3>. QED  BY <3>2, <3>3, <3>4 DEF Undisturbed
    <2>. QED  BY <2>4, <2>5
  <1>. QED  BY <1>2, <1>4, <1>5 DEF KeyInv

LEMMA SettleFailsStep ==
  ASSUME KeyInv, NEW w \in Requests, SettleFails(w)
  PROVE  KeyInv'
  <1>1. /\ request[w].pc = "settle" /\ MoveTo(w, "answer") /\ disturbed' = TRUE
        /\ UNCHANGED <<row, effects, halfway, answered, replayed>>
        /\ failures' \in 0 .. MaxFailures
    BY IdempotencyAssumption DEF SettleFails, Doing, KeyInv, KeyTypeOK
  <1>2. request' \in [Requests -> Request] /\ BodiesOK'
    BY <1>1, GotoType DEF KeyInv
  <1>. QED  BY <1>1, <1>2 DEF KeyInv, KeyTypeOK

LEMMA AnswerStep ==
  ASSUME KeyInv, NEW w \in Requests, Respond(w)
  PROVE  KeyInv'
  <1>1. /\ request[w].pc = "answer" /\ request[w].body \in Bodies /\ Leave(w)
        /\ answered' = IF request[w].ok THEN answered \cup {request[w].body} ELSE answered
        /\ UNCHANGED <<row, effects, failures, disturbed, halfway, replayed>>
    BY DEF Respond, Doing, KeyInv, BodiesOK
  <1>2. /\ request' \in [Requests -> Request] /\ BodiesOK' /\ request'[w] = NoRequest
        /\ \A v \in Requests \ {w} : request'[v] = request[v]
    BY <1>1, ReturnType DEF KeyInv
  <1>3. NoRequest.pc = "idle"
    BY DEF NoRequest
  <1>4. KeyTypeOK'
    BY <1>1, <1>2 DEF KeyInv, KeyTypeOK
  <1>5. ASSUME ~disturbed' PROVE Undisturbed'
    <2>1. Undisturbed
      BY <1>1, <1>5 DEF KeyInv
    <2>2. RequestsKnow' /\ OneClaimer'
      BY <1>1, <1>2, <1>3, <2>1
         DEF Undisturbed, RequestsKnow, OneClaimer, RequestKnows, IsClaimer
    <2>3. AnsweredIsReplayed'
      BY <1>1, <2>1
         DEF Undisturbed, RequestsKnow, RequestKnows, AnsweredIsReplayed, StoredIsOwn
    <2>4. StoredIsOwn' /\ ReplaysReportSuccess'
      BY <1>1, <2>1 DEF Undisturbed, StoredIsOwn, ReplaysReportSuccess
    <2>5. EffectsWitnessed'
      BY <1>1, <1>2, <2>1 DEF Undisturbed, EffectsWitnessed, Witnessed
    <2>. QED  BY <2>2, <2>3, <2>4, <2>5 DEF Undisturbed
  <1>. QED  BY <1>2, <1>4, <1>5 DEF KeyInv

LEMMA DieStep ==
  ASSUME KeyInv, NEW w \in Requests, Die(w)
  PROVE  KeyInv'
  <1>1. /\ failures' = failures + 1 /\ failures' \in 0 .. MaxFailures /\ failures \in Nat
        /\ Leave(w)
        /\ UNCHANGED <<row, effects, disturbed, halfway, answered, replayed>>
    BY IdempotencyAssumption DEF Die, histories, KeyInv, KeyTypeOK
  <1>2. /\ request' \in [Requests -> Request] /\ BodiesOK' /\ request'[w] = NoRequest
        /\ \A v \in Requests \ {w} : request'[v] = request[v]
    BY <1>1, ReturnType DEF KeyInv
  <1>3. NoRequest.pc = "idle"
    BY DEF NoRequest
  <1>4. KeyTypeOK'
    BY <1>1, <1>2 DEF KeyInv, KeyTypeOK
  <1>5. ASSUME ~disturbed' PROVE Undisturbed'
    <2>1. Undisturbed
      BY <1>1, <1>5 DEF KeyInv
    <2>2. RequestsKnow' /\ OneClaimer'
      BY <1>1, <1>2, <1>3, <2>1
         DEF Undisturbed, RequestsKnow, OneClaimer, RequestKnows, IsClaimer
    <2>3. StoredIsOwn' /\ AnsweredIsReplayed' /\ ReplaysReportSuccess'
      BY <1>1, <2>1
         DEF Undisturbed, StoredIsOwn, AnsweredIsReplayed, ReplaysReportSuccess
    <2>4. EffectsWitnessed'
      BY <1>1 DEF EffectsWitnessed
    <2>. QED  BY <2>2, <2>3, <2>4 DEF Undisturbed
  <1>. QED  BY <1>2, <1>4, <1>5 DEF KeyInv

LEMMA AgeStep ==
  ASSUME KeyInv, Age
  PROVE  KeyInv'
  <1>1. /\ row.status = "IN_PROGRESS" /\ row' = [row EXCEPT !.stale = TRUE]
        /\ UNCHANGED <<effects, request, failures, disturbed, halfway, answered, replayed>>
    BY DEF Age, histories
  <1>2. row' \in Row /\ row'.status = row.status /\ row'.body = row.body
        /\ row'.answer = row.answer
    BY <1>1, RowType DEF KeyInv, KeyTypeOK, Row
  <1>3. KeyTypeOK' /\ BodiesOK'
    BY <1>1, <1>2 DEF KeyInv, KeyTypeOK, BodiesOK
  <1>4. ASSUME ~disturbed' PROVE Undisturbed'
    BY <1>1, <1>2, <1>4
       DEF KeyInv, Undisturbed, RequestsKnow, OneClaimer, RequestKnows, StoredIsOwn,
           EffectsWitnessed, Witnessed, AnsweredIsReplayed, ReplaysReportSuccess
  <1>. QED  BY <1>3, <1>4 DEF KeyInv

-----------------------------------------------------------------------------
(* The theorems.                                                           *)

LEMMA KeyInvInit == KeyInit => KeyInv
  <1>. SUFFICES ASSUME KeyInit PROVE KeyInv
    OBVIOUS
  <1>1. BodiesOK /\ request \in [Requests -> Request]
    BY DEF KeyInit, BodiesOK, Request, NoRequest
  <1>a. KeyTypeOK
    <2>1. row \in Row /\ disturbed \in BOOLEAN
      BY DEF KeyInit, Row
    <2>2. effects \in [Bodies -> Nat] /\ failures \in 0 .. MaxFailures
      BY IdempotencyAssumption DEF KeyInit
    <2>3. /\ answered \subseteq Bodies /\ halfway \subseteq Bodies
          /\ replayed \subseteq Bodies \X (Bodies \cup {NoBody})
      BY DEF KeyInit
    <2>. QED  BY <1>1, <2>1, <2>2, <2>3 DEF KeyTypeOK
  <1>2. RequestsKnow /\ OneClaimer
    BY DEF KeyInit, RequestsKnow, OneClaimer, RequestKnows, IsClaimer, NoRequest
  <1>3. StoredIsOwn /\ EffectsWitnessed /\ AnsweredIsReplayed /\ ReplaysReportSuccess
    BY DEF KeyInit, StoredIsOwn, EffectsWitnessed, AnsweredIsReplayed, ReplaysReportSuccess,
       NoRow
  <1>. QED  BY <1>1, <1>a, <1>2, <1>3 DEF KeyInv, Undisturbed

LEMMA KeyInvStep == KeyInv /\ [KeyNext]_keyVars => KeyInv'
  <1>. SUFFICES ASSUME KeyInv, [KeyNext]_keyVars PROVE KeyInv'
    OBVIOUS
  <1>1. ASSUME NEW w \in Requests, ClaimInsert(w) \/ Continue(w) \/ Die(w)
        PROVE  KeyInv'
    BY <1>1, ClaimInsertStep, TakeOverStep, ReadExistingStep, ExecuteStep, RefuseStep,
       FailHalfwayStep, SettleStep, SettleFailsStep, AnswerStep, DieStep DEF Continue
  <1>2. CASE Age
    BY <1>2, AgeStep
  <1>3. CASE UNCHANGED keyVars
    BY <1>3 DEF keyVars, KeyInv, KeyTypeOK, BodiesOK, Undisturbed, RequestsKnow, OneClaimer,
       RequestKnows, StoredIsOwn, EffectsWitnessed, Witnessed, AnsweredIsReplayed,
       ReplaysReportSuccess
  <1>. QED  BY <1>1, <1>2, <1>3 DEF KeyNext

(* Until claims are disturbed, the key belongs to one request at a time and
   every stored answer is that of an execution of the request it is kept for. *)
THEOREM KeyInductive == KeySpec => []KeyInv
  BY KeyInvInit, KeyInvStep, PTL DEF KeySpec

(* The row of the key, the requests and the histories keep their types. *)
THEOREM KeyTypeCorrect == KeySpec => []KeyTypeOK
  <1>1. KeyInv => KeyTypeOK
    BY DEF KeyInv
  <1>. QED  BY <1>1, KeyInductive, PTL

(* A client that has seen a 2xx is replayed it, unless claims were disturbed
   (the order of settling and answering in res.json). *)
THEOREM AnswersReplayed == KeySpec => []AnsweredIsReplayed
  <1>1. KeyInv => AnsweredIsReplayed
    BY DEF KeyInv, Undisturbed, AnsweredIsReplayed
  <1>. QED  BY <1>1, KeyInductive, PTL

(* Nothing is executed twice under a key without a death or a disturbed claim,
   for any number of racing requests (claim). *)
THEOREM ReExecutionNeedsTrouble == KeySpec => []ReExecutedOnlyAfterTrouble
  <1>1. KeyInv => ReExecutedOnlyAfterTrouble
    BY DEF KeyInv, KeyTypeOK, Undisturbed, EffectsWitnessed, ReExecutedOnlyAfterTrouble
  <1>. QED  BY <1>1, KeyInductive, PTL

(* What is replayed is a success of the same request, unless claims were
   disturbed (complete, release). *)
THEOREM ReplaysSound == KeySpec => []ReplaysReportSuccess
  <1>1. KeyInv => ReplaysReportSuccess
    BY DEF KeyInv, Undisturbed, ReplaysReportSuccess
  <1>. QED  BY <1>1, KeyInductive, PTL
=============================================================================
