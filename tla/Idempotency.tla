---------------------------- MODULE Idempotency ----------------------------
(***************************************************************************)
(* The Idempotency-Key header: one row of idempotency_keys per key, the    *)
(* requests that carry the key, and the middleware around their handlers.  *)
(* A request claims the key, or is replayed or refused; the handler runs;  *)
(* its outcome is stored (2xx) or the claim released; the answer is sent.  *)
(* Each of these is a transaction of its own, the claim's three statements *)
(* see what the others committed between them, and a claim that is not     *)
(* settled within STALE_CLAIM_SECONDS may be taken over by a retry.        *)
(*                                                                         *)
(* Keys do not share state, so one key is enough.  The answer a handler    *)
(* gives is abstracted to the request it answers.                          *)
(***************************************************************************)
EXTENDS Naturals

CONSTANTS
    Requests,       \* requests with this key the server works on at a time
    Bodies,         \* what may be sent with the key: user, method, path, body
    NoBody,         \* not one of them
    GuardedBodies,  \* those whose handler writes under a clientUuid of the body
    MaxEffects,     \* bound: how often a handler commits for the same body
    MaxFailures     \* bound: deaths and failed settlements in a behaviour

ASSUME IdempotencyAssumption ==
    /\ GuardedBodies \subseteq Bodies
    /\ NoBody \notin Bodies
    /\ MaxEffects \in Nat
    /\ MaxFailures \in Nat

VARIABLES
    row,        \* the row of the key
    effects,    \* how often the handler has committed, for each body
    request,    \* what each request is doing
    failures,   \* deaths and failed settlements so far
    disturbed,  \* history: a claim was taken from a live request, or not settled
    halfway,    \* history: bodies that committed and were then answered an error
    answered,   \* history: bodies whose execution was answered with a 2xx
    replayed    \* history: <<body, stored answer>> of every replay

keyVars == <<row, effects, request, failures, disturbed, halfway, answered, replayed>>
histories == <<disturbed, halfway, answered, replayed>>

-----------------------------------------------------------------------------
NoRow == [status |-> "NONE", body |-> NoBody, answer |-> NoBody, stale |-> FALSE]

Row ==
    {NoRow}
        \cup
    [status : {"IN_PROGRESS"}, body : Bodies, answer : {NoBody}, stale : BOOLEAN]
        \cup
    [status : {"COMPLETED"}, body : Bodies, answer : Bodies, stale : BOOLEAN]

ClaimOf(b) == [NoRow EXCEPT !.status = "IN_PROGRESS", !.body = b]

(* ok: the handler's outcome is a 2xx. *)
Request == [pc : {"idle", "takeOver", "read", "run", "settle", "answer"},
           body : Bodies \cup {NoBody}, ok : BOOLEAN]

NoRequest == [pc |-> "idle", body |-> NoBody, ok |-> FALSE]

Doing(w, pc) == request[w].pc = pc
MoveTo(w, pc) == request' = [request EXCEPT ![w].pc = pc]
Leave(w) == request' = [request EXCEPT ![w] = NoRequest]

(* Requests that hold, or believe to hold, the claim. *)
Claimers == {w \in Requests : request[w].pc \in {"run", "settle"}}

-----------------------------------------------------------------------------
(* claim.                                                                  *)

(* Mutant: INSERT ... ON CONFLICT DO UPDATE. *)
ClaimInsertUpserting(w) ==
    \E b \in Bodies :
        /\ Doing(w, "idle")
        /\ row' = ClaimOf(b)
        /\ request' = [request EXCEPT ![w] = [NoRequest EXCEPT !.body = b, !.pc = "run"]]
        /\ UNCHANGED <<effects, failures>> /\ UNCHANGED histories

(* INSERT ... ON CONFLICT DO NOTHING. *)
ClaimInsert(w) ==
    \E b \in Bodies :
        /\ Doing(w, "idle")
        /\ row' = IF row = NoRow THEN ClaimOf(b) ELSE row
        /\ request' = [request EXCEPT ![w] = [NoRequest EXCEPT !.body = b,
                           !.pc = IF row = NoRow THEN "run" ELSE "takeOver"]]
        /\ UNCHANGED <<effects, failures>> /\ UNCHANGED histories

(* Mutant: no claim is ever stale. *)
TakeOverNever(w) ==
    /\ Doing(w, "takeOver")
    /\ MoveTo(w, "read")
    /\ UNCHANGED <<row, effects, failures>> /\ UNCHANGED histories

(* The UPDATE of a stale claim of the same request. *)
TakeOver(w) ==
    /\ Doing(w, "takeOver")
    /\ IF row.status = "IN_PROGRESS" /\ row.stale /\ row.body = request[w].body
       THEN /\ row' = [row EXCEPT !.stale = FALSE]
            /\ MoveTo(w, "run")
            /\ disturbed' = (disturbed \/ Claimers # {})
       ELSE /\ MoveTo(w, "read")
            /\ UNCHANGED <<row, disturbed>>
    /\ UNCHANGED <<effects, failures, halfway, answered, replayed>>

(* The SELECT, and what handleIdempotency makes of it: 409, 422 or a replay. *)
ReadExisting(w) ==
    /\ Doing(w, "read")
    /\ replayed' = IF row.status = "COMPLETED" /\ row.body = request[w].body
                   THEN replayed \cup {<<request[w].body, row.answer>>}
                   ELSE replayed
    /\ Leave(w)
    /\ UNCHANGED <<row, effects, failures, disturbed, halfway, answered>>

-----------------------------------------------------------------------------
(* The handler.                                                            *)

(* Its transaction commits. *)
Execute(w) ==
    LET b == request[w].body
    IN  /\ Doing(w, "run")
        /\ b \in GuardedBodies => effects[b] = 0
        /\ effects[b] < MaxEffects
        /\ effects' = [effects EXCEPT ![b] = @ + 1]
        /\ request' = [request EXCEPT ![w].pc = "settle", ![w].ok = TRUE]
        /\ UNCHANGED <<row, failures>> /\ UNCHANGED histories

(* It is refused -- a clientUuid that is already there, say -- and rolls back. *)
Refuse(w) ==
    /\ Doing(w, "run")
    /\ MoveTo(w, "settle")
    /\ UNCHANGED <<row, effects, failures>> /\ UNCHANGED histories

(***************************************************************************)
(* It fails after a transaction of its own committed: an M-Pesa push that  *)
(* is refused once its payment row is there, an invite whose inviter's     *)
(* look-up or e-mail throws once the invite is there -- the latter without *)
(* a clientUuid.                                                           *)
(***************************************************************************)
FailHalfway(w) ==
    LET b == request[w].body
    IN  /\ Doing(w, "run")
        /\ b \in GuardedBodies => effects[b] = 0
        /\ effects[b] < MaxEffects
        /\ effects' = [effects EXCEPT ![b] = @ + 1]
        /\ halfway' = halfway \cup {b}
        /\ MoveTo(w, "settle")
        /\ UNCHANGED <<row, failures, disturbed, answered, replayed>>

-----------------------------------------------------------------------------
(* res.json.                                                               *)

(* complete: the row of the key, whoever claimed it. *)
Complete(w) ==
    IF row = NoRow THEN row
    ELSE [row EXCEPT !.status = "COMPLETED", !.answer = request[w].body]

(* release: it is deleted if it is IN_PROGRESS, whoever claimed it. *)
Release == IF row.status = "IN_PROGRESS" THEN NoRow ELSE row

(* Mutant: the answer is sent while the result is still being stored. *)
SettleAnswering(w) ==
    /\ Doing(w, "settle")
    /\ answered' = IF request[w].ok THEN answered \cup {request[w].body} ELSE answered
    /\ Leave(w)
    /\ UNCHANGED <<row, effects, failures, disturbed, halfway, replayed>>

Settle(w) ==
    /\ Doing(w, "settle")
    /\ row' = IF request[w].ok THEN Complete(w) ELSE Release
    /\ MoveTo(w, "answer")
    /\ UNCHANGED <<effects, failures>> /\ UNCHANGED histories

(* It fails; the request is answered all the same. *)
SettleFails(w) ==
    /\ Doing(w, "settle")
    /\ failures < MaxFailures
    /\ failures' = failures + 1
    /\ disturbed' = TRUE
    /\ MoveTo(w, "answer")
    /\ UNCHANGED <<row, effects, halfway, answered, replayed>>

Respond(w) ==
    /\ Doing(w, "answer")
    /\ answered' = IF request[w].ok THEN answered \cup {request[w].body} ELSE answered
    /\ Leave(w)
    /\ UNCHANGED <<row, effects, failures, disturbed, halfway, replayed>>

-----------------------------------------------------------------------------
(* The server process dies, or its database connection does. *)
Die(w) ==
    /\ ~Doing(w, "idle")
    /\ failures < MaxFailures
    /\ failures' = failures + 1
    /\ Leave(w)
    /\ UNCHANGED <<row, effects>> /\ UNCHANGED histories

(* STALE_CLAIM_SECONDS go by. *)
Age ==
    /\ row.status = "IN_PROGRESS"
    /\ ~row.stale
    /\ row' = [row EXCEPT !.stale = TRUE]
    /\ UNCHANGED <<effects, request, failures>> /\ UNCHANGED histories

KeyInit ==
    /\ row = NoRow
    /\ effects = [b \in Bodies |-> 0]
    /\ request = [w \in Requests |-> NoRequest]
    /\ failures = 0
    /\ disturbed = FALSE
    /\ halfway = {}
    /\ answered = {}
    /\ replayed = {}

(* A request goes on after an await. *)
Continue(w) ==
    \/ TakeOver(w) \/ ReadExisting(w)
    \/ Execute(w) \/ Refuse(w) \/ FailHalfway(w)
    \/ Settle(w) \/ SettleFails(w) \/ Respond(w)

KeyNext ==
    \/ \E w \in Requests : ClaimInsert(w) \/ Continue(w) \/ Die(w)
    \/ Age

KeySpec == KeyInit /\ [][KeyNext]_keyVars

(***************************************************************************)
(* A request that was started goes on, time passes, and a client whose     *)
(* request was not answered sends it again and is served in the end.       *)
(***************************************************************************)
KeyFairness ==
    /\ \A w \in Requests : WF_keyVars(Continue(w))
    /\ WF_keyVars(Age)
    /\ \A w \in Requests :
           SF_keyVars(ClaimInsert(w) /\ request'[w].body = row.body /\ row.stale)

KeyFairSpec == KeySpec /\ KeyFairness

-----------------------------------------------------------------------------
(* Properties.                                                             *)

(* The row, the requests and the histories keep the shape described above. *)
KeyTypeOK ==
    /\ row \in Row
    /\ effects \in [Bodies -> Nat]
    /\ request \in [Requests -> Request]
    /\ failures \in 0 .. MaxFailures
    /\ disturbed \in BOOLEAN
    /\ halfway \subseteq Bodies
    /\ answered \subseteq Bodies
    /\ replayed \subseteq Bodies \X (Bodies \cup {NoBody})

(***************************************************************************)
(* A client that has seen a 2xx can rely on its retry: the stored answer   *)
(* is there, and is the one to its request, unless the claim was taken     *)
(* over from a request that was still running or could not be settled      *)
(* (the order of settling and answering in res.json).                      *)
(***************************************************************************)
AnsweredIsReplayed ==
    disturbed \/ \A b \in answered :
                     row.status = "COMPLETED" /\ row.body = b /\ row.answer = b

(***************************************************************************)
(* What an execution under the key did is not done again -- even where no  *)
(* clientUuid protects it -- unless a request died, was not settled, or    *)
(* was taken over while it was still running, or the handler committed and *)
(* then answered an error, which frees the key; against the last a         *)
(* clientUuid does protect (claim, release).                               *)
(***************************************************************************)
ReExecutedOnlyAfterTrouble ==
    \A b \in Bodies :
        effects[b] <= 1 \/ disturbed \/ failures > 0 \/ b \in halfway \ GuardedBodies

(***************************************************************************)
(* A replay is for a request that really succeeded: a failed one frees the *)
(* key and leaves nothing to replay, unless claims were disturbed          *)
(* (complete, release).                                                    *)
(***************************************************************************)
ReplaysReportSuccess ==
    disturbed \/ \A p \in replayed : p[1] = p[2] /\ effects[p[1]] > 0

(***************************************************************************)
(* A key does not stay blocked by a request that died: its retries take    *)
(* the claim over once it is stale (claim).                                *)
(***************************************************************************)
ClaimsEnd == row.status = "IN_PROGRESS" ~> row.status # "IN_PROGRESS"

(***************************************************************************)
(* What the middleware's header says of the stored response: a request is  *)
(* never handed the one of another user, method, path or body.             *)
(***************************************************************************)
ReplaysAnswerTheirRequest == \A p \in replayed : p[1] = p[2]
=============================================================================
