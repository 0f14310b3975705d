------------------------------ MODULE Journals ------------------------------
(***************************************************************************)
(* The general ledger of one tenant: journals, the accounting periods they *)
(* are posted into, and the HTTP requests that post, approve, reject and   *)
(* reverse them, replace the opening balances, and open and close periods. *)
(*                                                                         *)
(* Every handler reads in one or more database transactions and writes in  *)
(* a later one (prepareJournal, then insertJournal).  A request is a       *)
(* process: "prepare" actions are its reads, up to the last check before   *)
(* the write; "write" actions are the single transaction that commits.     *)
(* Requests interleave between their steps, as they do on the server.      *)
(*                                                                         *)
(* Journals are listed in the order they were inserted, so an index of     *)
(* `journals' is a journal id.  A date is abstracted to the period that    *)
(* covers it, and who sent a request is kept only where a check asks.      *)
(***************************************************************************)
EXTENDS Naturals, Sequences, FiniteSets

CONSTANTS
    Requests,           \* in-flight HTTP requests the server can hold
    Users,              \* actors of the tenant
    NoUser,             \* not a user: nobody, or nobody the properties tell apart
    ClientUuids,        \* identities a client may put in a request
    RandomUuid,         \* an identity the server drew with randomUUID()
    HandSources,        \* sources the body of POST /journals may name; only
                        \* OPENING is told from the others, which MANUAL stands for
    Periods,            \* accounting periods; a date is the period covering it
    CurrentPeriod,      \* the one covering today
    Amounts,            \* totals of a hand-entered journal
    ApprovalThreshold,  \* from this total on, a second person must approve
    MaxJournals         \* bound: journals inserted in a behaviour

ASSUME JournalsAssumption ==
    /\ NoUser \notin Users
    /\ RandomUuid \notin ClientUuids
    /\ CurrentPeriod \in Periods
    /\ HandSources \subseteq {"MANUAL", "OPENING"}
    /\ Amounts \subseteq Nat
    /\ ApprovalThreshold \in Nat
    /\ MaxJournals \in Nat

VARIABLES
    journals,       \* the journals table, in insertion order
    lastNumber,     \* journal_number_sequences.last_value
    periodStatus,   \* the periods table: period -> status, "NONE" if absent
    req,            \* what each in-flight request has read so far
    late            \* history: requests whose validated period was closed since

vars == <<journals, lastNumber, periodStatus, req, late>>
dbVars == <<journals, lastNumber>>

-----------------------------------------------------------------------------
(* Rows and request states.                                                *)

JournalStatus == {"PENDING_APPROVAL", "POSTED", "REJECTED"}
JournalSource == {"MANUAL", "DOCUMENT", "OPENING", "REVERSAL"}
PeriodStatus == {"NONE", "OPEN", "CLOSED"}

Journal ==
    [status : JournalStatus, source : JournalSource,
     uuid : ClientUuids \cup {RandomUuid}, amount : Amounts \cup {0},
     period : Periods, creator : Users \cup {NoUser}, approver : Users \cup {NoUser},
     number : Nat, reversalOf : Nat]

Ops == {"none", "manual", "document", "approve", "reject", "reverse",
        "opening", "close", "reopen"}

(* The operations whose write puts a journal in the book. *)
PostingOps == {"manual", "document", "approve", "reverse", "opening"}

Request ==
    [op : Ops, pc : {"idle", "reversal", "validate", "write", "locked"},
     user : Users \cup {NoUser}, uuid : ClientUuids \cup {RandomUuid},
     amount : Amounts \cup {0}, source : JournalSource,
     period : Periods, target : Nat]

Idle ==
    [op |-> "none", pc |-> "idle", user |-> NoUser, uuid |-> RandomUuid,
     amount |-> 0, source |-> "MANUAL", period |-> CurrentPeriod, target |-> 0]

-----------------------------------------------------------------------------
(* Queries.                                                                *)

JournalIds == 1 .. Len(journals)

UuidTaken(uuid) == \E i \in JournalIds : journals[i].uuid = uuid

Reversed(i) == \E k \in JournalIds : journals[k].reversalOf = i

Pending(i) == journals[i].status = "PENDING_APPROVAL"

ActiveOpenings ==
    {i \in JournalIds : /\ journals[i].source = "OPENING"
                        /\ journals[i].reversalOf = 0
                        /\ ~Reversed(i)}

(* What findActiveJournalBySource returns: i is the newest of them; 0 is none. *)
ActiveOpening(i) ==
    IF i = 0 THEN ActiveOpenings = {}
    ELSE i \in ActiveOpenings /\ \A k \in ActiveOpenings : k <= i

(* Mutant: the threshold itself is let through. *)
NeedsApprovalAbove(amount) == amount > ApprovalThreshold

(* total >= threshold; approval switched off is a threshold above every amount. *)
NeedsApproval(amount) == amount >= ApprovalThreshold

(* ensureCurrentPeriodForDate: only the current month is opened implicitly. *)
EnsurePeriod(p) ==
    IF p = CurrentPeriod /\ periodStatus[p] = "NONE"
    THEN [periodStatus EXCEPT ![p] = "OPEN"]
    ELSE periodStatus

(* The periods request q has already found open for what it will post. *)
ReliedOn(q) ==
    (IF q.pc \in {"write", "locked"} /\ q.op \in PostingOps THEN {q.period} ELSE {})
        \cup
    (IF q.op = "opening" /\ q.target # 0 /\ q.pc \in {"validate", "write", "locked"}
     THEN {journals[q.target].period} ELSE {})

-----------------------------------------------------------------------------
(* Requests begin, proceed and end.                                        *)

Begin(r, q) ==
    /\ req[r].pc = "idle"
    /\ req' = [req EXCEPT ![r] = q]

(* The request answers and is gone, whatever it answered. *)
Finish(r) ==
    /\ req' = [req EXCEPT ![r] = Idle]
    /\ late' = late \ {r}

(***************************************************************************)
(* A request that has written nothing yet ends: another check refused it   *)
(* (an account was deactivated, say), its connection or the process died.  *)
(***************************************************************************)
Drop(r) ==
    /\ req[r].pc # "idle"
    /\ Finish(r)
    /\ UNCHANGED <<journals, lastNumber, periodStatus>>

(* POST /journals; the body may name any source. *)
PrepareManual(r) ==
    \E u \in Users, c \in ClientUuids, a \in Amounts, p \in Periods,
       s \in HandSources :
        /\ Begin(r, [Idle EXCEPT !.op = "manual", !.pc = "validate", !.user = u,
                                 !.uuid = c, !.amount = a, !.source = s, !.period = p])
        /\ periodStatus' = EnsurePeriod(p)
        /\ UNCHANGED <<journals, lastNumber, late>>

(* A sale, bill, receipt or payment posts its journal through the same path. *)
PrepareDocument(r) ==
    \E c \in ClientUuids, p \in Periods :
        /\ Begin(r, [Idle EXCEPT !.op = "document", !.pc = "validate", !.uuid = c,
                                 !.source = "DOCUMENT", !.period = p])
        /\ periodStatus' = EnsurePeriod(p)
        /\ UNCHANGED <<journals, lastNumber, late>>

(* Mutant: the journal was validated when it was entered, so not again. *)
PrepareApproveOnce(r) ==
    \E u \in Users, i \in JournalIds :
        /\ Pending(i)
        /\ journals[i].creator # u
        /\ Begin(r, [Idle EXCEPT !.op = "approve", !.pc = "write", !.user = u,
                                 !.period = journals[i].period, !.target = i])
        /\ UNCHANGED <<journals, lastNumber, periodStatus, late>>

(* approveJournal up to its ensureCurrentPeriodForDate; the same journal is
   validated again, since its period may have been closed meanwhile. *)
PrepareApprove(r) ==
    \E u \in Users, i \in JournalIds :
        /\ Pending(i)
        /\ journals[i].creator # u
        /\ Begin(r, [Idle EXCEPT !.op = "approve", !.pc = "validate", !.user = u,
                                 !.period = journals[i].period, !.target = i])
        /\ periodStatus' = EnsurePeriod(journals[i].period)
        /\ UNCHANGED <<journals, lastNumber, late>>

(* rejectJournal's first look at the journal. *)
PrepareReject(r) ==
    \E i \in JournalIds :
        /\ Pending(i)
        /\ Begin(r, [Idle EXCEPT !.op = "reject", !.pc = "write", !.target = i])
        /\ UNCHANGED <<journals, lastNumber, periodStatus, late>>

(* Mutant: buildReversal without its guard. *)
ReversibleAnyStatus(i) == ~Reversed(i)

(* buildReversal's guard, and the look-up of an earlier reversal. *)
Reversible(i) == journals[i].status = "POSTED" /\ ~Reversed(i)

(* prepareReversal; the reversal is dated today. *)
PrepareReverse(r) ==
    \E i \in JournalIds :
        /\ Reversible(i)
        /\ Begin(r, [Idle EXCEPT !.op = "reverse", !.pc = "validate", !.target = i])
        /\ periodStatus' = EnsurePeriod(CurrentPeriod)
        /\ UNCHANGED <<journals, lastNumber, late>>

(* setOpeningBalances reads the current opening journal and its period. *)
PrepareOpening(r) ==
    \E p \in Periods, i \in JournalIds \cup {0} :
        /\ ActiveOpening(i)
        /\ i # 0 => periodStatus[journals[i].period] = "OPEN"
        /\ Begin(r, [Idle EXCEPT !.op = "opening", !.source = "OPENING",
                                 !.pc = IF i = 0 THEN "validate" ELSE "reversal",
                                 !.period = p, !.target = i])
        /\ periodStatus' = IF i = 0 THEN EnsurePeriod(p) ELSE periodStatus
        /\ UNCHANGED <<journals, lastNumber, late>>

(* prepareReversal of the journal being replaced, on that journal's own date. *)
PrepareOpeningReversal(r) ==
    /\ req[r].pc = "reversal"
    /\ Reversible(req[r].target)
    /\ periodStatus[journals[req[r].target].period] = "OPEN"
    /\ req' = [req EXCEPT ![r].pc = "validate"]
    /\ periodStatus' = EnsurePeriod(req[r].period)
    /\ UNCHANGED <<journals, lastNumber, late>>

(* buildPostingContext and validateForPosting: the period must be open. *)
ValidateForPosting(r) ==
    /\ req[r].pc = "validate"
    /\ periodStatus[req[r].period] = "OPEN"
    /\ req' = [req EXCEPT ![r].pc = "write"]
    /\ UNCHANGED <<journals, lastNumber, periodStatus, late>>

-----------------------------------------------------------------------------
(* The transactions that write.                                            *)

Writing(r, op) == req[r].pc = "write" /\ req[r].op = op

(* The row insertJournal inserts for a request. *)
RowOf(q) ==
    [status |-> IF q.op = "manual" /\ NeedsApproval(q.amount)
                THEN "PENDING_APPROVAL" ELSE "POSTED",
     source |-> q.source, uuid |-> q.uuid, amount |-> q.amount,
     period |-> q.period, creator |-> q.user, approver |-> NoUser,
     number |-> IF q.op = "manual" THEN lastNumber + 1 ELSE 0, reversalOf |-> 0]

(* The reversing row for journal i, posted into period p. *)
ReversalRow(i, p) ==
    [status |-> "POSTED", source |-> "REVERSAL", uuid |-> RandomUuid,
     amount |-> journals[i].amount, period |-> p, creator |-> NoUser,
     approver |-> NoUser, number |-> 0, reversalOf |-> i]

(* Mutant: the counter is bumped in a transaction of its own. *)
InsertJournalBumpFirst(q) ==
    /\ journals' = IF UuidTaken(q.uuid) THEN journals ELSE Append(journals, RowOf(q))
    /\ lastNumber' = IF q.op = "manual" THEN lastNumber + 1 ELSE lastNumber

(***************************************************************************)
(* insertJournal for a new journal.  The counter and the row are written   *)
(* in one transaction: a client_uuid already used rolls both back (409).   *)
(***************************************************************************)
InsertJournal(q) ==
    IF UuidTaken(q.uuid)
    THEN UNCHANGED dbVars
    ELSE /\ journals' = Append(journals, RowOf(q))
         /\ lastNumber' = IF q.op = "manual" THEN lastNumber + 1 ELSE lastNumber

(* The write of createManualJournal and of every document's posting. *)
WriteCreate(r) ==
    /\ Writing(r, "manual") \/ Writing(r, "document")
    /\ Len(journals) < MaxJournals
    /\ InsertJournal(req[r])
    /\ Finish(r)
    /\ UNCHANGED periodStatus

(* The table after journal i was decided; u is who approved it, if anybody. *)
Decided(i, status, u) ==
    [journals EXCEPT ![i].status = status, ![i].approver = u]

(* SELECT ... WHERE status = 'PENDING_APPROVAL' FOR UPDATE, then the update. *)
WriteDecision(r, op, status) ==
    /\ Writing(r, op)
    /\ journals' = IF Pending(req[r].target)
                   THEN Decided(req[r].target, status, req[r].user)
                   ELSE journals
    /\ Finish(r)
    /\ UNCHANGED <<lastNumber, periodStatus>>

WriteApprove(r) == WriteDecision(r, "approve", "POSTED")
WriteReject(r) == WriteDecision(r, "reject", "REJECTED")

(* Mutant: the original is marked REVERSED, a status the domain also names. *)
WriteReverseMarking(r) ==
    /\ Writing(r, "reverse")
    /\ Len(journals) < MaxJournals
    /\ journals' = Append(Decided(req[r].target, "REVERSED", NoUser),
                          ReversalRow(req[r].target, req[r].period))
    /\ Finish(r)
    /\ UNCHANGED <<lastNumber, periodStatus>>

(* reverseJournal's createJournal.  Nothing re-checks for another reversal. *)
WriteReverse(r) ==
    /\ Writing(r, "reverse")
    /\ Len(journals) < MaxJournals
    /\ journals' = Append(journals, ReversalRow(req[r].target, req[r].period))
    /\ Finish(r)
    /\ UNCHANGED <<lastNumber, periodStatus>>

(* Mutant: the look again under the lock only asks whether somebody else has
   entered the first opening journal, not whether it was replaced. *)
LockOpeningUnchecked(r) ==
    /\ Writing(r, "opening")
    /\ \A s \in Requests : req[s].pc # "locked"
    /\ req[r].target = 0 => ActiveOpening(0)
    /\ req' = [req EXCEPT ![r].pc = "locked"]
    /\ UNCHANGED <<journals, lastNumber, periodStatus, late>>

(***************************************************************************)
(* setOpeningBalances' transaction begins: under the advisory lock, which  *)
(* is held to commit, the journal read at the start must still be active.  *)
(* Only writers of opening balances take the lock; reversals and           *)
(* hand-entered OPENING journals do not.                                   *)
(***************************************************************************)
LockOpening(r) ==
    /\ Writing(r, "opening")
    /\ \A s \in Requests : req[s].pc # "locked"
    /\ ActiveOpening(req[r].target)
    /\ req' = [req EXCEPT ![r].pc = "locked"]
    /\ UNCHANGED <<journals, lastNumber, periodStatus, late>>

(* The rows setOpeningBalances inserts: the reversal, if any, comes first. *)
OpeningRows(q) ==
    IF q.target = 0 THEN <<RowOf(q)>>
    ELSE <<ReversalRow(q.target, journals[q.target].period), RowOf(q)>>

WriteOpening(r) ==
    /\ req[r].pc = "locked"
    /\ Len(journals) + Len(OpeningRows(req[r])) <= MaxJournals
    /\ journals' = journals \o OpeningRows(req[r])
    /\ Finish(r)
    /\ UNCHANGED <<lastNumber, periodStatus>>

-----------------------------------------------------------------------------
(* Periods.                                                                *)

(* POST /periods. *)
CreatePeriod(p) ==
    /\ periodStatus[p] = "NONE"
    /\ periodStatus' = [periodStatus EXCEPT ![p] = "OPEN"]
    /\ UNCHANGED <<journals, lastNumber, req, late>>

(* closePeriod reads the status; so does reopenPeriod. *)
PrepareClose(r) ==
    \E p \in Periods :
        /\ periodStatus[p] = "OPEN"
        /\ Begin(r, [Idle EXCEPT !.op = "close", !.pc = "write", !.period = p])
        /\ UNCHANGED <<journals, lastNumber, periodStatus, late>>

PrepareReopen(r) ==
    \E p \in Periods :
        /\ periodStatus[p] = "CLOSED"
        /\ Begin(r, [Idle EXCEPT !.op = "reopen", !.pc = "write", !.period = p])
        /\ UNCHANGED <<journals, lastNumber, periodStatus, late>>

(* setPeriodStatus updates whatever it finds: it does not look again. *)
WriteClose(r) ==
    /\ Writing(r, "close")
    /\ periodStatus' = [periodStatus EXCEPT ![req[r].period] = "CLOSED"]
    /\ req' = [req EXCEPT ![r] = Idle]
    /\ late' = late \cup {s \in Requests : req[r].period \in ReliedOn(req[s])}
    /\ UNCHANGED dbVars

WriteReopen(r) ==
    /\ Writing(r, "reopen")
    /\ periodStatus' = [periodStatus EXCEPT ![req[r].period] = "OPEN"]
    /\ Finish(r)
    /\ UNCHANGED dbVars

-----------------------------------------------------------------------------
Init ==
    /\ journals = << >>
    /\ lastNumber = 0
    /\ periodStatus \in [Periods -> PeriodStatus]
    /\ req = [r \in Requests |-> Idle]
    /\ late = {}

Step(r) ==
    \/ PrepareManual(r) \/ PrepareDocument(r) \/ PrepareApprove(r)
    \/ PrepareReject(r) \/ PrepareReverse(r) \/ PrepareOpening(r)
    \/ PrepareOpeningReversal(r) \/ ValidateForPosting(r)
    \/ WriteCreate(r) \/ WriteApprove(r) \/ WriteReject(r)
    \/ WriteReverse(r) \/ LockOpening(r) \/ WriteOpening(r)
    \/ PrepareClose(r) \/ PrepareReopen(r) \/ WriteClose(r) \/ WriteReopen(r)
    \/ Drop(r)

Next ==
    \/ \E r \in Requests : Step(r)
    \/ \E p \in Periods : CreatePeriod(p)

Spec == Init /\ [][Next]_vars

-----------------------------------------------------------------------------
(* Properties.                                                             *)

(* Every table row and every in-flight request has the shape the code gives it. *)
TypeOK ==
    /\ journals \in Seq(Journal)
    /\ lastNumber \in Nat
    /\ periodStatus \in [Periods -> PeriodStatus]
    /\ req \in [Requests -> Request]
    /\ late \subseteq Requests

(***************************************************************************)
(* JE- numbers are gapless and never reused, although hand-entered         *)
(* journals race, are refused as duplicates (409) and are rejected later:  *)
(* the counter and the row commit or roll back together (insertJournal).   *)
(***************************************************************************)
GaplessNumbers ==
    /\ \A n \in 1 .. lastNumber : \E i \in JournalIds : journals[i].number = n
    /\ \A i \in JournalIds : journals[i].number <= lastNumber
    /\ \A i, k \in JournalIds :
           journals[i].number = journals[k].number /\ journals[i].number # 0 => i = k

(***************************************************************************)
(* A client identity names at most one journal, whatever concurrent or     *)
(* repeated requests carry it (DR-05).                                     *)
(***************************************************************************)
OneJournalPerUuid ==
    \A i, k \in JournalIds :
        journals[i].uuid = journals[k].uuid /\ journals[i].uuid # RandomUuid => i = k

(***************************************************************************)
(* Segregation of duties (FR-RBAC-03): a hand-entered journal that reaches *)
(* the threshold counts only once somebody other than its creator has      *)
(* approved it -- also when several people decide it at the same time.     *)
(***************************************************************************)
SegregationOfDuties ==
    \A i \in JournalIds :
        (/\ journals[i].status = "POSTED"
         /\ journals[i].number # 0
         /\ journals[i].amount >= ApprovalThreshold)
        => journals[i].approver \in Users \ {journals[i].creator}

(***************************************************************************)
(* Only what counts is corrected: a reversal is posted and points back at  *)
(* a journal that is posted -- never at one awaiting approval or rejected, *)
(* although its status was read in an earlier transaction.                 *)
(***************************************************************************)
ReversalsCorrectPosted ==
    \A k \in JournalIds :
        journals[k].reversalOf # 0 =>
            /\ journals[k].status = "POSTED"
            /\ journals[k].reversalOf < k
            /\ journals[journals[k].reversalOf].status = "POSTED"

(***************************************************************************)
(* A decision is final (FR-JNL-01): approve and reject racing on the same  *)
(* journal never overwrite each other, so the database's immutability      *)
(* trigger, which this module leaves out, never has to fire.               *)
(***************************************************************************)
DecisionsAreFinal ==
    [][\A i \in JournalIds :
           journals[i].status # "PENDING_APPROVAL" => journals'[i] = journals[i]]_vars

(* Journal i enters the book in this step. *)
PostedNow(i) ==
    /\ i \in 1 .. Len(journals')
    /\ journals'[i].status = "POSTED"
    /\ ~(i \in JournalIds /\ journals[i].status = "POSTED")

(***************************************************************************)
(* How far a closed period leaks: a journal enters a period that is not    *)
(* open only if the request that posts it had found the period open and    *)
(* the close overtook it.  In particular a journal held for approval       *)
(* before the close is not approved into the period after it               *)
(* (approveJournal validates again).                                       *)
(***************************************************************************)
OnlyOvertakenPostings ==
    [][\A i \in 1 .. Len(journals') :
           PostedNow(i) /\ periodStatus[journals'[i].period] # "OPEN"
               => \E r \in late : req[r].pc \in {"write", "locked"} /\ req'[r] = Idle]_vars

(* Journal i was replaced by setOpeningBalances: its reversal and the new
   opening journal, which the server named, went in together. *)
Replaced(i) ==
    \E k \in 1 .. Len(journals) - 1 :
        /\ journals[k].reversalOf = i
        /\ journals[k + 1].source = "OPENING"
        /\ journals[k + 1].uuid = RandomUuid

(***************************************************************************)
(* No lost update of the opening balances: of two people who replace the   *)
(* same opening journal, or enter the first one, at the same time only one *)
(* succeeds; the other is told that they changed meanwhile                 *)
(* (lockActiveJournalBySource).                                            *)
(***************************************************************************)
OpeningReplacedOnce ==
    [][\A r \in Requests :
           /\ req[r].pc = "locked"
           /\ req'[r] = Idle
           /\ Len(journals') > Len(journals)
           => IF req[r].target = 0
              THEN \A i \in ActiveOpenings : journals[i].uuid # RandomUuid
              ELSE ~Replaced(req[r].target)]_vars

(***************************************************************************)
(* The posted journals implement the append-only book of Ledger.tla        *)
(* (FR-ACC-02, C-04).                                                      *)
(***************************************************************************)
Book == INSTANCE Ledger WITH
    book <- [i \in {k \in JournalIds : journals[k].status = "POSTED"} |-> journals[i]]

ImplementsLedger == Book!LedgerSpec

(***************************************************************************)
(* What the documentation says, and the races refute (see the README).     *)
(***************************************************************************)
(* reverseJournal's doc comment: a journal must not already be reversed.   *)
AtMostOneReversal ==
    \A i, k \in JournalIds :
        journals[i].reversalOf = journals[k].reversalOf /\ journals[i].reversalOf # 0
            => i = k

(***************************************************************************)
(* Only a posted journal counts (the comment on JOURNAL_STATUSES), so the  *)
(* opening balances a business sees and replaces are posted ones.  The     *)
(* query for the active opening journal does not look at the status.       *)
(***************************************************************************)
ActiveOpeningIsPosted ==
    \A i \in JournalIds : ActiveOpening(i) => journals[i].status # "REJECTED"

(* POST /journals fails with PERIOD_LOCKED if the covering period is closed. *)
PostsOnlyIntoOpenPeriods ==
    [][\A i \in 1 .. Len(journals') :
           PostedNow(i) => periodStatus[journals'[i].period] = "OPEN"]_vars
=============================================================================
