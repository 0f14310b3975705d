--------------------------- MODULE JournalsProofs ---------------------------
(***************************************************************************)
(* Proofs about Journals, for any number of requests, users, periods and   *)
(* journals.  The inductive invariant is IInv: besides the properties      *)
(* themselves it says what an in-flight request may still rely on from its *)
(* reads, which is what makes the writes that do not look again safe.      *)
(***************************************************************************)
EXTENDS Journals, SequenceTheorems, TLAPS

(* What a request read about table js, and nothing since took away. *)
RequestWF(q, js) ==
    /\ q.pc = "reversal" => q.op = "opening" /\ q.target # 0
    /\ q.pc = "locked" => q.op = "opening"
    /\ q.op \in {"approve", "reject", "reverse"} => q.target \in 1 .. Len(js)
    /\ q.op = "approve" => /\ q.user \in Users \ {js[q.target].creator}
                           /\ q.period = js[q.target].period
    /\ q.op = "reverse" => js[q.target].status = "POSTED"
    /\ q.op = "opening" => q.target \in 0 .. Len(js) /\ q.uuid = RandomUuid
    /\ q.op = "opening" /\ q.target # 0 /\ q.pc # "reversal"
           => js[q.target].status = "POSTED"

RequestsWF == \A r \in Requests : RequestWF(req[r], journals)

(* A period a request relies on is open, unless a close has overtaken it. *)
ReliedOnOpen ==
    \A r \in Requests \ late : \A p \in ReliedOn(req[r]) : periodStatus[p] = "OPEN"

IInv ==
    /\ TypeOK
    /\ RequestsWF
    /\ GaplessNumbers
    /\ OneJournalPerUuid
    /\ SegregationOfDuties
    /\ ReversalsCorrectPosted
    /\ ReliedOnOpen

-----------------------------------------------------------------------------
(* The rows and tables the writes produce.                                 *)

LEMMA IdleType == Idle \in Request
  BY JournalsAssumption DEF Idle, Request, Ops, JournalSource

LEMMA EnsurePeriodType ==
  ASSUME TypeOK, NEW p \in Periods
  PROVE  /\ EnsurePeriod(p) \in [Periods -> PeriodStatus]
         /\ \A s \in Periods : periodStatus[s] = "OPEN" => EnsurePeriod(p)[s] = "OPEN"
  BY DEF EnsurePeriod, TypeOK, PeriodStatus

LEMMA JournalType ==
  ASSUME TypeOK, NEW i \in JournalIds
  PROVE  /\ journals[i] \in Journal
         /\ Len(journals) \in Nat
         /\ journals[i].period \in Periods
         /\ journals[i].amount \in Nat
         /\ journals[i].number \in Nat
         /\ journals[i].reversalOf \in Nat
  <1>1. journals[i] \in Journal
    BY ElementOfSeq DEF TypeOK, JournalIds
  <1>2. Len(journals) \in Nat
    BY LenProperties DEF TypeOK
  <1>3. Amounts \cup {0} \subseteq Nat
    BY JournalsAssumption
  <1> QED BY <1>1, <1>2, <1>3 DEF Journal

LEMMA RowOfType ==
  ASSUME TypeOK, NEW q \in Request
  PROVE  RowOf(q) \in Journal
  BY JournalsAssumption DEF RowOf, Request, Journal, TypeOK, JournalStatus

LEMMA ReversalRowType ==
  ASSUME TypeOK, NEW i \in JournalIds, NEW p \in Periods
  PROVE  ReversalRow(i, p) \in Journal
  <1>1. journals[i].amount \in Amounts \cup {0}
    BY JournalType DEF Journal
  <1>2. i \in Nat
    BY DEF JournalIds
  <1> QED BY <1>1, <1>2 DEF ReversalRow, Journal, JournalStatus, JournalSource

LEMMA OpeningRowsType ==
  ASSUME TypeOK, NEW q \in Request, q.target \in JournalIds \cup {0}
  PROVE  /\ OpeningRows(q) \in Seq(Journal)
         /\ Len(OpeningRows(q)) = IF q.target = 0 THEN 1 ELSE 2
  <1>1. RowOf(q) \in Journal
    BY RowOfType
  <1>2. CASE q.target = 0
    BY <1>1, <1>2 DEF OpeningRows
  <1>3. CASE q.target # 0
    <2>1. ReversalRow(q.target, journals[q.target].period) \in Journal
      BY <1>3, JournalType, ReversalRowType
    <2> QED BY <1>1, <1>3, <2>1 DEF OpeningRows
  <1> QED BY <1>2, <1>3

(* One more row at the end of the table. *)
LEMMA AppendRow ==
  ASSUME TypeOK, NEW row \in Journal
  PROVE  /\ Append(journals, row) \in Seq(Journal)
         /\ Len(Append(journals, row)) = Len(journals) + 1
         /\ \A i \in JournalIds : Append(journals, row)[i] = journals[i]
         /\ Append(journals, row)[Len(journals) + 1] = row
  BY DEF TypeOK, JournalIds

(* Deciding journal i touches its status and approver, and no other row. *)
Decision(row, st, u) == [row EXCEPT !.status = st, !.approver = u]

LEMMA DecisionType ==
  ASSUME NEW row \in Journal, NEW st \in JournalStatus, NEW u \in Users \cup {NoUser}
  PROVE  /\ Decision(row, st, u) \in Journal
         /\ Decision(row, st, u).status = st
         /\ Decision(row, st, u).approver = u
         /\ Decision(row, st, u).creator = row.creator
         /\ Decision(row, st, u).amount = row.amount
         /\ Decision(row, st, u).number = row.number
         /\ Decision(row, st, u).uuid = row.uuid
         /\ Decision(row, st, u).reversalOf = row.reversalOf
         /\ Decision(row, st, u).period = row.period
  BY DEF Decision, Journal

LEMMA DecidedRow ==
  ASSUME TypeOK, NEW i \in JournalIds, NEW st \in JournalStatus,
         NEW u \in Users \cup {NoUser}
  PROVE  /\ Decided(i, st, u) \in Seq(Journal)
         /\ Len(Decided(i, st, u)) = Len(journals)
         /\ \A k \in JournalIds : k # i => Decided(i, st, u)[k] = journals[k]
         /\ Decided(i, st, u)[i] = Decision(journals[i], st, u)
  <1> DEFINE row == Decision(journals[i], st, u)
  <1>1. row \in Journal
    BY JournalType, DecisionType
  <1>2. Decided(i, st, u) = [journals EXCEPT ![i] = row]
    BY LenProperties DEF Decided, TypeOK, JournalIds, Decision
  <1>3. journals \in Seq(Journal) /\ i \in 1 .. Len(journals)
    BY DEF TypeOK, JournalIds
  <1> HIDE DEF row
  <1>4. /\ [journals EXCEPT ![i] = row] \in Seq(Journal)
        /\ Len([journals EXCEPT ![i] = row]) = Len(journals)
        /\ \A j \in 1 .. Len(journals) :
              [journals EXCEPT ![i] = row][j] = IF j = i THEN row ELSE journals[j]
    BY <1>1, <1>3, ExceptSeq
  <1> QED BY <1>2, <1>3, <1>4 DEF JournalIds, row

-----------------------------------------------------------------------------
(* Type correctness.                                                       *)

(* What an EXCEPT on the request table gives. *)
LEMMA RequestTable ==
  ASSUME TypeOK, NEW r \in Requests, NEW q \in Request
  PROVE  /\ [req EXCEPT ![r] = q] \in [Requests -> Request]
         /\ [req EXCEPT ![r] = q][r] = q
         /\ \A s \in Requests \ {r} : [req EXCEPT ![r] = q][s] = req[s]
  BY DEF TypeOK

LEMMA FinishType ==
  ASSUME TypeOK, NEW r \in Requests, Finish(r)
  PROVE  req' \in [Requests -> Request] /\ late' \subseteq Requests
  BY IdleType, RequestTable DEF Finish, TypeOK

LEMMA BeginType ==
  ASSUME TypeOK, NEW r \in Requests, NEW q \in Request, Begin(r, q)
  PROVE  req' \in [Requests -> Request]
  BY RequestTable DEF Begin

LEMMA TypeOKStep ==
  ASSUME TypeOK, RequestsWF, [Next]_vars
  PROVE  TypeOK'
  <1> USE JournalsAssumption
  <1>1. ASSUME NEW r \in Requests, PrepareManual(r) PROVE TypeOK'
    <2>1. PICK u \in Users, c \in ClientUuids, a \in Amounts, p \in Periods, s \in HandSources :
            /\ Begin(r, [Idle EXCEPT !.op = "manual", !.pc = "validate", !.user = u,
                             !.uuid = c, !.amount = a, !.source = s, !.period = p])
            /\ periodStatus' = EnsurePeriod(p)
            /\ UNCHANGED <<journals, lastNumber, late>>
      BY <1>1 DEF PrepareManual
    <2>2. [Idle EXCEPT !.op = "manual", !.pc = "validate", !.user = u,
                       !.uuid = c, !.amount = a, !.source = s, !.period = p] \in Request
      BY DEF Idle, Request, Ops, JournalSource
    <2> QED BY <2>1, <2>2, EnsurePeriodType, BeginType DEF TypeOK
  <1>2. ASSUME NEW r \in Requests, PrepareDocument(r) PROVE TypeOK'
    <2>1. PICK c \in ClientUuids, p \in Periods :
            /\ Begin(r, [Idle EXCEPT !.op = "document", !.pc = "validate", !.uuid = c,
                                     !.source = "DOCUMENT", !.period = p])
            /\ periodStatus' = EnsurePeriod(p)
            /\ UNCHANGED <<journals, lastNumber, late>>
      BY <1>2 DEF PrepareDocument
    <2>2. [Idle EXCEPT !.op = "document", !.pc = "validate", !.uuid = c,
                       !.source = "DOCUMENT", !.period = p] \in Request
      BY DEF Idle, Request, Ops, JournalSource
    <2> QED BY <2>1, <2>2, EnsurePeriodType, BeginType DEF TypeOK
  <1>3. ASSUME NEW r \in Requests, PrepareApprove(r) PROVE TypeOK'
    <2>1. PICK u \in Users, i \in JournalIds :
            /\ Begin(r, [Idle EXCEPT !.op = "approve", !.pc = "validate", !.user = u,
                                 !.period = journals[i].period, !.target = i])
            /\ periodStatus' = EnsurePeriod(journals[i].period)
            /\ UNCHANGED <<journals, lastNumber, late>>
      BY <1>3 DEF PrepareApprove
    <2>0. i \in Nat
      BY DEF JournalIds
    <2>2. [Idle EXCEPT !.op = "approve", !.pc = "validate", !.user = u,
                       !.period = journals[i].period, !.target = i] \in Request
      BY <2>0, JournalType DEF Idle, Request, Ops, JournalSource
    <2> QED BY <2>1, <2>2, EnsurePeriodType, JournalType, BeginType DEF TypeOK
  <1>4. ASSUME NEW r \in Requests, PrepareReject(r) PROVE TypeOK'
    <2>1. PICK i \in JournalIds :
            /\ Begin(r, [Idle EXCEPT !.op = "reject", !.pc = "write", !.target = i])
            /\ UNCHANGED <<journals, lastNumber, periodStatus, late>>
      BY <1>4 DEF PrepareReject
    <2>0. i \in Nat
      BY DEF JournalIds
    <2>2. [Idle EXCEPT !.op = "reject", !.pc = "write", !.target = i] \in Request
      BY <2>0 DEF Idle, Request, Ops, JournalSource
    <2> QED BY <2>1, <2>2, BeginType DEF TypeOK
  <1>5. ASSUME NEW r \in Requests, PrepareReverse(r) PROVE TypeOK'
    <2>1. PICK i \in JournalIds :
            /\ Begin(r, [Idle EXCEPT !.op = "reverse", !.pc = "validate", !.target = i])
            /\ periodStatus' = EnsurePeriod(CurrentPeriod)
            /\ UNCHANGED <<journals, lastNumber, late>>
      BY <1>5 DEF PrepareReverse
    <2>0. i \in Nat
      BY DEF JournalIds
    <2>2. [Idle EXCEPT !.op = "reverse", !.pc = "validate", !.target = i] \in Request
      BY <2>0 DEF Idle, Request, Ops, JournalSource
    <2> QED BY <2>1, <2>2, EnsurePeriodType, BeginType DEF TypeOK
  <1>6. ASSUME NEW r \in Requests, PrepareOpening(r) PROVE TypeOK'
    <2>1. PICK p \in Periods, i \in JournalIds \cup {0} :
            /\ Begin(r, [Idle EXCEPT !.op = "opening", !.source = "OPENING",
                                 !.pc = IF i = 0 THEN "validate" ELSE "reversal",
                                 !.period = p, !.target = i])
            /\ periodStatus' = IF i = 0 THEN EnsurePeriod(p) ELSE periodStatus
            /\ UNCHANGED <<journals, lastNumber, late>>
      BY <1>6 DEF PrepareOpening
    <2>2. i \in Nat
      BY DEF JournalIds
    <2>3. [Idle EXCEPT !.op = "opening", !.source = "OPENING",
                       !.pc = IF i = 0 THEN "validate" ELSE "reversal",
                       !.period = p, !.target = i] \in Request
      BY <2>2 DEF Idle, Request, Ops, JournalSource
    <2>4. periodStatus' \in [Periods -> PeriodStatus]
      BY <2>1, EnsurePeriodType DEF TypeOK
    <2> QED BY <2>1, <2>3, <2>4, BeginType DEF TypeOK
  <1>7. ASSUME NEW r \in Requests, NEW pc \in {"validate", "write", "locked"},
               req' = [req EXCEPT ![r].pc = pc]
        PROVE  req' \in [Requests -> Request]
    <2>1. [req[r] EXCEPT !.pc = pc] \in Request
      BY DEF TypeOK, Request
    <2>2. req' = [req EXCEPT ![r] = [req[r] EXCEPT !.pc = pc]]
      BY <1>7
    <2> QED BY <2>1, <2>2, RequestTable
  <1>8. ASSUME NEW r \in Requests, PrepareOpeningReversal(r) PROVE TypeOK'
    <2>1. req[r].period \in Periods
      BY DEF TypeOK, Request
    <2>2. req' \in [Requests -> Request]
      BY <1>7, <1>8 DEF PrepareOpeningReversal
    <2> QED BY <1>8, <2>1, <2>2, EnsurePeriodType DEF PrepareOpeningReversal, TypeOK
  <1>9. ASSUME NEW r \in Requests, ValidateForPosting(r) \/ LockOpening(r) PROVE TypeOK'
    <2>1. req' \in [Requests -> Request]
      BY <1>7, <1>9 DEF ValidateForPosting, LockOpening
    <2> QED BY <1>9, <2>1 DEF ValidateForPosting, LockOpening, TypeOK
  <1>10. ASSUME NEW r \in Requests, WriteCreate(r) PROVE TypeOK'
    <2>1. req[r] \in Request
      BY DEF TypeOK
    <2>2. journals' \in Seq(Journal) /\ lastNumber' \in Nat
      BY <1>10, <2>1, RowOfType, AppendRow DEF WriteCreate, InsertJournal, dbVars, TypeOK
    <2> QED BY <1>10, <2>2, FinishType DEF WriteCreate, TypeOK
  <1>11. ASSUME NEW r \in Requests, WriteApprove(r) \/ WriteReject(r) PROVE TypeOK'
    <2>1. req[r].user \in Users \cup {NoUser}
      BY DEF TypeOK, Request
    <2>2. req[r].target \in JournalIds
      BY <1>11 DEF RequestsWF, RequestWF, JournalIds, WriteApprove, WriteReject, WriteDecision, Writing
    <2>3. \A st \in {"POSTED", "REJECTED"} :
              Decided(req[r].target, st, req[r].user) \in Seq(Journal)
      BY <2>1, <2>2, DecidedRow DEF JournalStatus
    <2>4. journals \in Seq(Journal)
      BY DEF TypeOK
    <2>5. journals' \in Seq(Journal)
      BY <1>11, <2>3, <2>4 DEF WriteApprove, WriteReject, WriteDecision
    <2> QED
      BY <1>11, <2>5, FinishType DEF WriteApprove, WriteReject, WriteDecision, TypeOK
  <1>12. ASSUME NEW r \in Requests, WriteReverse(r) PROVE TypeOK'
    <2>1. req[r].target \in JournalIds /\ req[r].period \in Periods
      BY <1>12 DEF RequestsWF, RequestWF, JournalIds, WriteReverse, Writing, TypeOK, Request
    <2>2. journals' \in Seq(Journal)
      BY <1>12, <2>1, ReversalRowType, AppendRow DEF WriteReverse
    <2> QED BY <1>12, <2>2, FinishType DEF WriteReverse, TypeOK
  <1>13. ASSUME NEW r \in Requests, WriteOpening(r) PROVE TypeOK'
    <2>1. req[r] \in Request
      BY DEF TypeOK
    <2>2. OpeningRows(req[r]) \in Seq(Journal)
      BY <1>13, <2>1, OpeningRowsType, LenProperties
         DEF WriteOpening, RequestsWF, RequestWF, JournalIds, TypeOK
    <2>3. journals' \in Seq(Journal)
      BY <1>13, <2>2, ConcatProperties DEF WriteOpening, TypeOK
    <2> QED BY <1>13, <2>3, FinishType DEF WriteOpening, TypeOK
  <1>14. ASSUME NEW r \in Requests, Drop(r) PROVE TypeOK'
    BY <1>14, FinishType DEF Drop, TypeOK
  <1>15. ASSUME NEW r \in Requests, PrepareClose(r) PROVE TypeOK'
    <2>1. PICK p \in Periods :
            /\ Begin(r, [Idle EXCEPT !.op = "close", !.pc = "write", !.period = p])
            /\ UNCHANGED <<journals, lastNumber, periodStatus, late>>
      BY <1>15 DEF PrepareClose
    <2>2. [Idle EXCEPT !.op = "close", !.pc = "write", !.period = p] \in Request
      BY DEF Idle, Request, Ops, JournalSource
    <2> QED BY <2>1, <2>2, BeginType DEF TypeOK
  <1>16. ASSUME NEW r \in Requests, PrepareReopen(r) PROVE TypeOK'
    <2>1. PICK p \in Periods :
            /\ Begin(r, [Idle EXCEPT !.op = "reopen", !.pc = "write", !.period = p])
            /\ UNCHANGED <<journals, lastNumber, periodStatus, late>>
      BY <1>16 DEF PrepareReopen
    <2>2. [Idle EXCEPT !.op = "reopen", !.pc = "write", !.period = p] \in Request
      BY DEF Idle, Request, Ops, JournalSource
    <2> QED BY <2>1, <2>2, BeginType DEF TypeOK
  <1>17. ASSUME NEW r \in Requests, WriteClose(r) PROVE TypeOK'
    <2>1. req' \in [Requests -> Request]
      BY <1>17, IdleType, RequestTable DEF WriteClose
    <2>2. periodStatus' \in [Periods -> PeriodStatus]
      BY <1>17 DEF WriteClose, TypeOK, PeriodStatus
    <2> QED BY <1>17, <2>1, <2>2 DEF WriteClose, TypeOK, dbVars
  <1>18. ASSUME NEW r \in Requests, WriteReopen(r) PROVE TypeOK'
    <2>1. periodStatus' \in [Periods -> PeriodStatus]
      BY <1>18 DEF WriteReopen, TypeOK, PeriodStatus
    <2> QED BY <1>18, <2>1, FinishType DEF WriteReopen, TypeOK, dbVars
  <1>19. ASSUME NEW p \in Periods, CreatePeriod(p) PROVE TypeOK'
    BY <1>19 DEF CreatePeriod, TypeOK, PeriodStatus
  <1>20. CASE UNCHANGED vars
    BY <1>20 DEF vars, TypeOK
  <1> QED
    BY <1>1, <1>2, <1>3, <1>4, <1>5, <1>6, <1>8, <1>9, <1>10, <1>11, <1>12, <1>13,
       <1>14, <1>15, <1>16, <1>17, <1>18, <1>19, <1>20 DEF Next, Step

-----------------------------------------------------------------------------
(* What no step does to the table.                                         *)

(* Table js2 still has every row of js: decided rows as they were, and every
   row under the name of the same creator and in the same period. *)
Kept(js, js2) ==
    /\ Len(js) \in Nat /\ Len(js2) \in Nat
    /\ Len(js) <= Len(js2)
    /\ \A i \in 1 .. Len(js) :
           /\ js2[i].creator = js[i].creator
           /\ js2[i].period = js[i].period
           /\ js[i].status # "PENDING_APPROVAL" => js2[i] = js[i]

LEMMA KeptRefl ==
  ASSUME TypeOK
  PROVE  Kept(journals, journals)
  BY LenProperties DEF Kept, TypeOK

(* A request that read the table finds what it read in every later one. *)
LEMMA RequestKept ==
  ASSUME NEW q, NEW js, NEW js2, Kept(js, js2), RequestWF(q, js)
  PROVE  RequestWF(q, js2)
  BY DEF Kept, RequestWF

(* One more row. *)
LEMMA KeptAppend ==
  ASSUME TypeOK, NEW row \in Journal
  PROVE  Kept(journals, Append(journals, row))
  <1>1. Len(journals) \in Nat
    BY LenProperties DEF TypeOK
  <1> QED BY <1>1, AppendRow DEF Kept, JournalIds

(* A decision on a journal that awaits one. *)
LEMMA KeptDecided ==
  ASSUME TypeOK, NEW i \in JournalIds, Pending(i), NEW st \in JournalStatus,
         NEW u \in Users \cup {NoUser}
  PROVE  Kept(journals, Decided(i, st, u))
  <1>1. Len(journals) \in Nat
    BY LenProperties DEF TypeOK
  <1>2. /\ Decision(journals[i], st, u).creator = journals[i].creator
        /\ Decision(journals[i], st, u).period = journals[i].period
    BY JournalType, DecisionType
  <1>3. ASSUME NEW k \in JournalIds
        PROVE  /\ Decided(i, st, u)[k].creator = journals[k].creator
               /\ Decided(i, st, u)[k].period = journals[k].period
               /\ journals[k].status # "PENDING_APPROVAL"
                     => Decided(i, st, u)[k] = journals[k]
    BY <1>2, DecidedRow DEF Pending
  <1>4. Len(Decided(i, st, u)) = Len(journals)
    BY DecidedRow
  <1> QED BY <1>1, <1>3, <1>4 DEF Kept, JournalIds

(* The rows of the opening balances. *)
LEMMA KeptConcat ==
  ASSUME TypeOK, NEW rows \in Seq(Journal)
  PROVE  Kept(journals, journals \o rows)
  <1>1. journals \in Seq(Journal) /\ Len(journals) \in Nat /\ Len(rows) \in Nat
    BY LenProperties DEF TypeOK
  <1>2. /\ Len(journals \o rows) = Len(journals) + Len(rows)
        /\ \A i \in 1 .. Len(journals) + Len(rows) : (journals \o rows)[i] =
               IF i <= Len(journals) THEN journals[i] ELSE rows[i - Len(journals)]
    BY <1>1, ConcatProperties
  <1> QED BY <1>1, <1>2 DEF Kept

LEMMA RowsKept ==
  ASSUME TypeOK, RequestsWF, [Next]_vars
  PROVE  Kept(journals, journals')
  <1>1. CASE UNCHANGED journals
    BY <1>1, KeptRefl
  <1>2. ASSUME NEW r \in Requests, WriteCreate(r), journals' # journals
        PROVE  Kept(journals, journals')
    <2>1. journals' = Append(journals, RowOf(req[r]))
      BY <1>2 DEF WriteCreate, InsertJournal, dbVars
    <2>2. RowOf(req[r]) \in Journal
      BY RowOfType DEF TypeOK
    <2> QED BY <2>1, <2>2, KeptAppend
  <1>3. ASSUME NEW r \in Requests, WriteApprove(r) \/ WriteReject(r), journals' # journals
        PROVE  Kept(journals, journals')
    <2>1. req[r].user \in Users \cup {NoUser}
      BY DEF TypeOK, Request
    <2>2. req[r].target \in JournalIds
      BY <1>3 DEF RequestsWF, RequestWF, JournalIds, WriteApprove, WriteReject,
                  WriteDecision, Writing
    <2>3. Pending(req[r].target)
      BY <1>3 DEF WriteApprove, WriteReject, WriteDecision
    <2>4. PICK st \in {"POSTED", "REJECTED"} : journals' = Decided(req[r].target, st, req[r].user)
      BY <1>3, <2>3 DEF WriteApprove, WriteReject, WriteDecision
    <2>5. st \in JournalStatus
      BY DEF JournalStatus
    <2> QED BY <2>1, <2>2, <2>3, <2>4, <2>5, KeptDecided
  <1>4. ASSUME NEW r \in Requests, WriteReverse(r) PROVE Kept(journals, journals')
    <2>1. req[r].target \in JournalIds /\ req[r].period \in Periods
      BY <1>4 DEF RequestsWF, RequestWF, JournalIds, WriteReverse, Writing, TypeOK, Request
    <2> QED BY <1>4, <2>1, ReversalRowType, KeptAppend DEF WriteReverse
  <1>5. ASSUME NEW r \in Requests, WriteOpening(r) PROVE Kept(journals, journals')
    <2>1. req[r] \in Request
      BY DEF TypeOK
    <2>2. OpeningRows(req[r]) \in Seq(Journal)
      BY <1>5, <2>1, OpeningRowsType, LenProperties
         DEF WriteOpening, RequestsWF, RequestWF, JournalIds, TypeOK
    <2> QED BY <1>5, <2>2, KeptConcat DEF WriteOpening
  <1> QED
    BY <1>1, <1>2, <1>3, <1>4, <1>5
       DEF Next, Step, vars, dbVars, Drop, PrepareManual, PrepareDocument, PrepareApprove,
           PrepareReject, PrepareReverse, PrepareOpening, PrepareOpeningReversal,
           ValidateForPosting, LockOpening, PrepareClose, PrepareReopen, WriteClose,
           WriteReopen, CreatePeriod

-----------------------------------------------------------------------------
(* What requests rely on.                                                  *)

LEMMA RequestsWFStep ==
  ASSUME TypeOK, RequestsWF, [Next]_vars
  PROVE  RequestsWF'
  <1> DEFINE Fresh(r) == \A s \in Requests : req'[s] = req[s] \/ (s = r /\ RequestWF(req'[s], journals))
  <1>1. Kept(journals, journals')
    BY RowsKept
  <1>2. ASSUME NEW r \in Requests, Fresh(r) PROVE RequestsWF'
    BY <1>1, <1>2, RequestKept DEF RequestsWF
  <1>3. RequestWF(Idle, journals)
    BY DEF RequestWF, Idle
  <1>4. ASSUME NEW r \in Requests, Finish(r) PROVE RequestsWF'
    <2>1. Fresh(r)
      BY <1>3, <1>4, IdleType, RequestTable DEF Finish
    <2> QED BY <1>2, <2>1
  <1>5. Len(journals) \in Nat
    BY LenProperties DEF TypeOK
  <1>6. ASSUME NEW r \in Requests, NEW q \in Request, Begin(r, q), RequestWF(q, journals)
        PROVE  RequestsWF'
    <2>1. Fresh(r)
      BY <1>6, RequestTable DEF Begin
    <2> QED BY <1>2, <2>1
  <1>7. ASSUME NEW r \in Requests, NEW pc, req' = [req EXCEPT ![r].pc = pc],
               RequestWF([req[r] EXCEPT !.pc = pc], journals)
        PROVE  RequestsWF'
    <2>1. Fresh(r)
      BY <1>7 DEF TypeOK, Request
    <2> QED BY <1>2, <2>1
  <1>8. ASSUME NEW r \in Requests, PrepareManual(r) PROVE RequestsWF'
    <2>1. PICK u \in Users, c \in ClientUuids, a \in Amounts, p \in Periods, s \in HandSources :
            Begin(r, [Idle EXCEPT !.op = "manual", !.pc = "validate", !.user = u,
                             !.uuid = c, !.amount = a, !.source = s, !.period = p])
      BY <1>8 DEF PrepareManual
    <2> DEFINE q == [Idle EXCEPT !.op = "manual", !.pc = "validate", !.user = u,
                                 !.uuid = c, !.amount = a, !.source = s, !.period = p]
    <2>2. q.op = "manual" /\ q.pc = "validate"
      BY DEF Idle
    <2>3. RequestWF(q, journals)
      BY <2>2 DEF RequestWF
    <2>4. q \in Request
      BY JournalsAssumption DEF Idle, Request, Ops, JournalSource
    <2> QED BY <1>6, <2>1, <2>3, <2>4
  <1>9. ASSUME NEW r \in Requests, PrepareDocument(r) PROVE RequestsWF'
    <2>1. PICK c \in ClientUuids, p \in Periods :
            Begin(r, [Idle EXCEPT !.op = "document", !.pc = "validate", !.uuid = c,
                                  !.source = "DOCUMENT", !.period = p])
      BY <1>9 DEF PrepareDocument
    <2> DEFINE q == [Idle EXCEPT !.op = "document", !.pc = "validate", !.uuid = c,
                                 !.source = "DOCUMENT", !.period = p]
    <2>2. q.op = "document" /\ q.pc = "validate"
      BY DEF Idle
    <2>3. RequestWF(q, journals)
      BY <2>2 DEF RequestWF
    <2>4. q \in Request
      BY JournalsAssumption DEF Idle, Request, Ops, JournalSource
    <2> QED BY <1>6, <2>1, <2>3, <2>4
  <1>10. ASSUME NEW r \in Requests, PrepareApprove(r) PROVE RequestsWF'
    <2>1. PICK u \in Users, i \in JournalIds :
            /\ journals[i].creator # u
            /\ Begin(r, [Idle EXCEPT !.op = "approve", !.pc = "validate", !.user = u,
                                     !.period = journals[i].period, !.target = i])
      BY <1>10 DEF PrepareApprove
    <2> DEFINE q == [Idle EXCEPT !.op = "approve", !.pc = "validate", !.user = u,
                                 !.period = journals[i].period, !.target = i]
    <2>2. /\ q.op = "approve" /\ q.pc = "validate" /\ q.user = u /\ q.target = i
          /\ q.period = journals[i].period
      BY DEF Idle
    <2>3. RequestWF(q, journals)
      BY <2>1, <2>2 DEF RequestWF, JournalIds
    <2>4. i \in Nat
      BY DEF JournalIds
    <2>5. q \in Request
      BY <2>4, JournalType, JournalsAssumption DEF Idle, Request, Ops, JournalSource
    <2> QED BY <1>6, <2>1, <2>3, <2>5
  <1>11. ASSUME NEW r \in Requests, PrepareReject(r) PROVE RequestsWF'
    <2>1. PICK i \in JournalIds :
            Begin(r, [Idle EXCEPT !.op = "reject", !.pc = "write", !.target = i])
      BY <1>11 DEF PrepareReject
    <2> DEFINE q == [Idle EXCEPT !.op = "reject", !.pc = "write", !.target = i]
    <2>2. q.op = "reject" /\ q.pc = "write" /\ q.target = i
      BY DEF Idle
    <2>3. RequestWF(q, journals)
      BY <2>2 DEF RequestWF, JournalIds
    <2>4. i \in Nat
      BY DEF JournalIds
    <2>5. q \in Request
      BY <2>4, JournalsAssumption DEF Idle, Request, Ops, JournalSource
    <2> QED BY <1>6, <2>1, <2>3, <2>5
  <1>12. ASSUME NEW r \in Requests, PrepareReverse(r) PROVE RequestsWF'
    <2>1. PICK i \in JournalIds :
            /\ Reversible(i)
            /\ Begin(r, [Idle EXCEPT !.op = "reverse", !.pc = "validate", !.target = i])
      BY <1>12 DEF PrepareReverse
    <2> DEFINE q == [Idle EXCEPT !.op = "reverse", !.pc = "validate", !.target = i]
    <2>2. q.op = "reverse" /\ q.pc = "validate" /\ q.target = i
      BY DEF Idle
    <2>3. RequestWF(q, journals)
      BY <2>1, <2>2 DEF RequestWF, JournalIds, Reversible
    <2>4. i \in Nat
      BY DEF JournalIds
    <2>5. q \in Request
      BY <2>4, JournalsAssumption DEF Idle, Request, Ops, JournalSource
    <2> QED BY <1>6, <2>1, <2>3, <2>5
  <1>13. ASSUME NEW r \in Requests, PrepareOpening(r) PROVE RequestsWF'
    <2>1. PICK p \in Periods, i \in JournalIds \cup {0} :
            Begin(r, [Idle EXCEPT !.op = "opening", !.source = "OPENING",
                                  !.pc = IF i = 0 THEN "validate" ELSE "reversal",
                                  !.period = p, !.target = i])
      BY <1>13 DEF PrepareOpening
    <2> DEFINE q == [Idle EXCEPT !.op = "opening", !.source = "OPENING",
                                 !.pc = IF i = 0 THEN "validate" ELSE "reversal",
                                 !.period = p, !.target = i]
    <2>2. /\ q.op = "opening" /\ q.target = i /\ q.uuid = RandomUuid
          /\ q.pc = IF i = 0 THEN "validate" ELSE "reversal"
      BY DEF Idle
    <2>3. i \in 0 .. Len(journals)
      BY <1>5 DEF JournalIds
    <2>4. RequestWF(q, journals)
      BY <2>2, <2>3 DEF RequestWF
    <2>5. i \in Nat
      BY <2>3
    <2>6. q \in Request
      BY <2>5, JournalsAssumption DEF Idle, Request, Ops, JournalSource
    <2> QED BY <1>6, <2>1, <2>4, <2>6
  <1>14. ASSUME NEW r \in Requests, PrepareOpeningReversal(r) PROVE RequestsWF'
    <2> DEFINE q == [req[r] EXCEPT !.pc = "validate"]
    <2>1. req[r] \in Request /\ RequestWF(req[r], journals)
      BY DEF TypeOK, RequestsWF
    <2>2. /\ q.op = req[r].op /\ q.user = req[r].user /\ q.uuid = req[r].uuid
          /\ q.target = req[r].target /\ q.pc = "validate"
      BY <2>1 DEF Request
    <2>3. req[r].op = "opening" /\ journals[req[r].target].status = "POSTED"
      BY <1>14, <2>1 DEF PrepareOpeningReversal, Reversible, RequestWF
    <2>4. RequestWF(q, journals)
      BY <2>1, <2>2, <2>3 DEF RequestWF
    <2> QED BY <1>7, <1>14, <2>4 DEF PrepareOpeningReversal
  <1>15. ASSUME NEW r \in Requests, NEW pc \in {"write", "locked"},
                \/ ValidateForPosting(r) /\ pc = "write"
                \/ LockOpening(r) /\ pc = "locked"
         PROVE  RequestsWF'
    <2> DEFINE q == [req[r] EXCEPT !.pc = pc]
    <2>1. req[r] \in Request /\ RequestWF(req[r], journals)
      BY DEF TypeOK, RequestsWF
    <2>2. /\ q.op = req[r].op /\ q.user = req[r].user /\ q.uuid = req[r].uuid
          /\ q.target = req[r].target /\ q.period = req[r].period /\ q.pc = pc
      BY <2>1 DEF Request
    <2>3. /\ req[r].pc # "reversal"
          /\ pc = "locked" => req[r].op = "opening"
      BY <1>15 DEF ValidateForPosting, LockOpening, Writing
    <2>4. RequestWF(q, journals)
      BY <2>1, <2>2, <2>3 DEF RequestWF
    <2> QED BY <1>7, <1>15, <2>4 DEF ValidateForPosting, LockOpening
  <1>16. ASSUME NEW r \in Requests, PrepareClose(r) PROVE RequestsWF'
    <2>1. PICK p \in Periods :
            Begin(r, [Idle EXCEPT !.op = "close", !.pc = "write", !.period = p])
      BY <1>16 DEF PrepareClose
    <2> DEFINE q == [Idle EXCEPT !.op = "close", !.pc = "write", !.period = p]
    <2>2. q.op = "close" /\ q.pc = "write"
      BY DEF Idle
    <2>3. RequestWF(q, journals)
      BY <2>2 DEF RequestWF
    <2>4. q \in Request
      BY JournalsAssumption DEF Idle, Request, Ops, JournalSource
    <2> QED BY <1>6, <2>1, <2>3, <2>4
  <1>17. ASSUME NEW r \in Requests, PrepareReopen(r) PROVE RequestsWF'
    <2>1. PICK p \in Periods :
            Begin(r, [Idle EXCEPT !.op = "reopen", !.pc = "write", !.period = p])
      BY <1>17 DEF PrepareReopen
    <2> DEFINE q == [Idle EXCEPT !.op = "reopen", !.pc = "write", !.period = p]
    <2>2. q.op = "reopen" /\ q.pc = "write"
      BY DEF Idle
    <2>3. RequestWF(q, journals)
      BY <2>2 DEF RequestWF
    <2>4. q \in Request
      BY JournalsAssumption DEF Idle, Request, Ops, JournalSource
    <2> QED BY <1>6, <2>1, <2>3, <2>4
  <1>18. ASSUME NEW r \in Requests, WriteClose(r) PROVE RequestsWF'
    <2>1. Fresh(r)
      BY <1>3, <1>18, IdleType, RequestTable DEF WriteClose
    <2> QED BY <1>2, <2>1
  <1>19. ASSUME UNCHANGED req PROVE RequestsWF'
    BY <1>1, <1>19, RequestKept DEF RequestsWF
  <1> QED
    BY <1>4, <1>8, <1>9, <1>10, <1>11, <1>12, <1>13, <1>14, <1>15, <1>16, <1>17, <1>18, <1>19
       DEF Next, Step, vars, CreatePeriod, Drop, WriteCreate, WriteApprove, WriteReject,
           WriteDecision, WriteReverse, WriteOpening, WriteReopen

-----------------------------------------------------------------------------
(* The four ways a step may change the table, row by row.                  *)

Untouched == journals' = journals /\ lastNumber' = lastNumber

KeepsRows ==
    /\ Len(journals') \in Nat
    /\ \A i \in JournalIds : journals'[i] = journals[i]

(* A request with an identity of its own adds its row. *)
AddsRow(q) ==
    /\ q \in Request /\ q.op \in {"manual", "document"}
    /\ ~UuidTaken(q.uuid)
    /\ KeepsRows
    /\ Len(journals') = Len(journals) + 1
    /\ journals'[Len(journals) + 1] = RowOf(q)
    /\ lastNumber' = IF q.op = "manual" THEN lastNumber + 1 ELSE lastNumber

(* A journal that awaited approval is decided. *)
Decides(i, st, u) ==
    /\ i \in JournalIds /\ Pending(i)
    /\ st \in {"POSTED", "REJECTED"} /\ u \in Users \cup {NoUser}
    /\ st = "POSTED" => u \in Users \ {journals[i].creator}
    /\ Len(journals') = Len(journals)
    /\ \A k \in JournalIds : k # i => journals'[k] = journals[k]
    /\ journals'[i] = Decision(journals[i], st, u)
    /\ lastNumber' = lastNumber

(* The server posts rows of its own: reversals and opening journals. *)
ServerRow(row) ==
    /\ row.status = "POSTED" /\ row.number = 0 /\ row.uuid = RandomUuid
    /\ \/ row.reversalOf = 0
       \/ row.reversalOf \in JournalIds /\ journals[row.reversalOf].status = "POSTED"

AddsServerRows ==
    /\ KeepsRows
    /\ Len(journals) <= Len(journals')
    /\ \A k \in 1 .. Len(journals') : k > Len(journals) => ServerRow(journals'[k])
    /\ lastNumber' = lastNumber

LEMMA ServerRowReversal ==
  ASSUME TypeOK, NEW i \in JournalIds, journals[i].status = "POSTED", NEW p
  PROVE  ServerRow(ReversalRow(i, p))
  BY DEF ServerRow, ReversalRow

LEMMA ServerRowOpening ==
  ASSUME NEW q \in Request, q.op = "opening", q.uuid = RandomUuid
  PROVE  ServerRow(RowOf(q))
  BY DEF ServerRow, RowOf

LEMMA TableStep ==
  ASSUME TypeOK, RequestsWF, [Next]_vars
  PROVE  \/ Untouched
         \/ \E r \in Requests : AddsRow(req[r])
         \/ \E i, st, u : Decides(i, st, u)
         \/ AddsServerRows
  <1>0. journals \in Seq(Journal) /\ Len(journals) \in Nat
    BY LenProperties DEF TypeOK
  <1>1. ASSUME NEW r \in Requests, WriteCreate(r) PROVE Untouched \/ AddsRow(req[r])
    <2>1. CASE UuidTaken(req[r].uuid)
      BY <1>1, <2>1 DEF WriteCreate, InsertJournal, dbVars, Untouched
    <2>2. CASE ~UuidTaken(req[r].uuid)
      <3> DEFINE row == RowOf(req[r])
      <3>1. req[r] \in Request /\ row \in Journal
        BY RowOfType DEF TypeOK
      <3>2. journals' = Append(journals, row)
        BY <1>1, <2>2 DEF WriteCreate, InsertJournal
      <3> HIDE DEF row
      <3>3. /\ KeepsRows /\ Len(journals') = Len(journals) + 1
            /\ journals'[Len(journals) + 1] = row
        <4>1. /\ Len(Append(journals, row)) = Len(journals) + 1
              /\ \A i \in JournalIds : Append(journals, row)[i] = journals[i]
              /\ Append(journals, row)[Len(journals) + 1] = row
          BY <3>1, AppendRow
        <4> QED BY <1>0, <3>2, <4>1 DEF KeepsRows, JournalIds
      <3>4. lastNumber' = IF req[r].op = "manual" THEN lastNumber + 1 ELSE lastNumber
        BY <1>1, <2>2 DEF WriteCreate, InsertJournal
      <3>5. req[r].op \in {"manual", "document"}
        BY <1>1 DEF WriteCreate, Writing
      <3> QED BY <2>2, <3>1, <3>3, <3>4, <3>5 DEF AddsRow, row
    <2> QED BY <2>1, <2>2
  <1>2. ASSUME NEW r \in Requests, WriteApprove(r) \/ WriteReject(r)
        PROVE  Untouched \/ \E i, st, u : Decides(i, st, u)
    <2>1. req[r].target \in JournalIds
      BY <1>2 DEF RequestsWF, RequestWF, JournalIds, WriteApprove, WriteReject,
                  WriteDecision, Writing
    <2>2. CASE ~Pending(req[r].target)
      BY <1>2, <2>2 DEF WriteApprove, WriteReject, WriteDecision, Untouched
    <2>3. CASE Pending(req[r].target)
      <3>1. PICK st \in {"POSTED", "REJECTED"} :
              /\ journals' = Decided(req[r].target, st, req[r].user)
              /\ st = "POSTED" => Writing(r, "approve")
              /\ lastNumber' = lastNumber
        BY <1>2, <2>3 DEF WriteApprove, WriteReject, WriteDecision
      <3>2. req[r].user \in Users \cup {NoUser} /\ st \in JournalStatus
        BY DEF TypeOK, Request, JournalStatus
      <3>3. st = "POSTED" => req[r].user \in Users \ {journals[req[r].target].creator}
        BY <3>1 DEF RequestsWF, RequestWF, Writing
      <3>4. /\ Len(journals') = Len(journals)
            /\ \A k \in JournalIds : k # req[r].target => journals'[k] = journals[k]
            /\ journals'[req[r].target] = Decision(journals[req[r].target], st, req[r].user)
        BY <2>1, <3>1, <3>2, DecidedRow
      <3>5. Decides(req[r].target, st, req[r].user)
        BY <2>1, <2>3, <3>1, <3>2, <3>3, <3>4 DEF Decides
      <3> QED BY <3>5
    <2> QED BY <2>2, <2>3
  <1>3. ASSUME NEW r \in Requests, WriteReverse(r) PROVE AddsServerRows
    <2> DEFINE row == ReversalRow(req[r].target, req[r].period)
    <2>1. /\ req[r].target \in JournalIds /\ req[r].period \in Periods
          /\ journals[req[r].target].status = "POSTED"
      BY <1>3 DEF RequestsWF, RequestWF, JournalIds, WriteReverse, Writing, TypeOK, Request
    <2>2. row \in Journal /\ ServerRow(row)
      BY <2>1, ReversalRowType, ServerRowReversal
    <2>3. journals' = Append(journals, row) /\ lastNumber' = lastNumber
      BY <1>3 DEF WriteReverse
    <2> HIDE DEF row
    <2>4. /\ Len(Append(journals, row)) = Len(journals) + 1
          /\ \A i \in JournalIds : Append(journals, row)[i] = journals[i]
          /\ Append(journals, row)[Len(journals) + 1] = row
      BY <2>2, AppendRow
    <2>5. \A k \in 1 .. Len(journals') : k > Len(journals) => ServerRow(journals'[k])
      BY <1>0, <2>2, <2>3, <2>4
    <2> QED BY <1>0, <2>3, <2>4, <2>5 DEF AddsServerRows, KeepsRows, JournalIds
  <1>4. ASSUME NEW r \in Requests, WriteOpening(r) PROVE AddsServerRows
    <2> DEFINE rows == OpeningRows(req[r])
    <2>1. /\ req[r] \in Request /\ req[r].op = "opening" /\ req[r].uuid = RandomUuid
          /\ req[r].target \in JournalIds \cup {0}
          /\ req[r].target # 0 => journals[req[r].target].status = "POSTED"
      BY <1>4, <1>0 DEF RequestsWF, RequestWF, JournalIds, WriteOpening, TypeOK
    <2>2. rows \in Seq(Journal) /\ Len(rows) \in Nat
      BY <2>1, OpeningRowsType, LenProperties
    <2>3. \A k \in 1 .. Len(rows) : ServerRow(rows[k])
      <3>1. CASE req[r].target = 0
        BY <2>1, <3>1, ServerRowOpening DEF OpeningRows
      <3>2. CASE req[r].target # 0
        BY <2>1, <3>2, ServerRowOpening, ServerRowReversal DEF OpeningRows
      <3> QED BY <3>1, <3>2
    <2>4. journals' = journals \o rows /\ lastNumber' = lastNumber
      BY <1>4 DEF WriteOpening
    <2> HIDE DEF rows
    <2>5. /\ Len(journals') = Len(journals) + Len(rows)
          /\ \A k \in 1 .. Len(journals) + Len(rows) : journals'[k] =
                 IF k <= Len(journals) THEN journals[k] ELSE rows[k - Len(journals)]
      BY <1>0, <2>2, <2>4, ConcatProperties
    <2>6. \A k \in 1 .. Len(journals') : k > Len(journals) => ServerRow(journals'[k])
      BY <1>0, <2>2, <2>3, <2>5
    <2>7. \A i \in JournalIds : journals'[i] = journals[i]
      BY <1>0, <2>2, <2>5 DEF JournalIds
    <2>8. Len(journals') \in Nat /\ Len(journals) <= Len(journals')
      BY <1>0, <2>2, <2>5
    <2> QED BY <2>4, <2>6, <2>7, <2>8 DEF AddsServerRows, KeepsRows
  <1> QED
    BY <1>1, <1>2, <1>3, <1>4
       DEF Next, Step, vars, dbVars, Untouched, Drop, PrepareManual, PrepareDocument,
           PrepareApprove, PrepareReject, PrepareReverse, PrepareOpening,
           PrepareOpeningReversal, ValidateForPosting, LockOpening, PrepareClose,
           PrepareReopen, WriteClose, WriteReopen, CreatePeriod

-----------------------------------------------------------------------------
(* Each part of the invariant over the four cases.                         *)

LEMMA DecidesFields ==
  ASSUME TypeOK, NEW i, NEW st, NEW u, Decides(i, st, u), NEW k \in JournalIds
  PROVE  /\ journals'[k].number = journals[k].number
         /\ journals'[k].uuid = journals[k].uuid
         /\ journals'[k].amount = journals[k].amount
         /\ journals'[k].creator = journals[k].creator
         /\ journals'[k].reversalOf = journals[k].reversalOf
         /\ journals[k].status # "PENDING_APPROVAL" => journals'[k] = journals[k]
  <1>1. st \in JournalStatus
    BY DEF Decides, JournalStatus
  <1>2. CASE k = i
    <2>1. journals'[i] = Decision(journals[i], st, u) /\ journals[i] \in Journal
      BY JournalType DEF Decides
    <2> QED BY <1>1, <1>2, <2>1, DecisionType DEF Decides, Pending
  <1>3. CASE k # i
    BY <1>3 DEF Decides
  <1> QED BY <1>2, <1>3

(* The table does not shrink, and a prefix of it is the old table's. *)
LEMMA IdsStep ==
  ASSUME TypeOK,
         KeepsRows \/ \E i, st, u : Decides(i, st, u)
  PROVE  Len(journals) \in Nat /\ Len(journals') \in Nat
  BY LenProperties DEF TypeOK, KeepsRows, Decides

LEMMA GaplessStep ==
  ASSUME TypeOK, RequestsWF, GaplessNumbers, [Next]_vars
  PROVE  GaplessNumbers'
  <1>0. Len(journals) \in Nat /\ lastNumber \in Nat
    BY LenProperties DEF TypeOK
  <1>1. CASE Untouched
    BY <1>1 DEF Untouched, GaplessNumbers, JournalIds
  <1>2. ASSUME NEW r \in Requests, AddsRow(req[r]) PROVE GaplessNumbers'
    <2> DEFINE last == Len(journals) + 1
    <2>1. /\ JournalIds' = JournalIds \cup {last} /\ last \notin JournalIds
          /\ \A i \in JournalIds : journals'[i] = journals[i] /\ journals[i].number \in Nat
      BY <1>0, <1>2, JournalType DEF AddsRow, KeepsRows, JournalIds
    <2>2. CASE req[r].op = "manual"
      <3>1. lastNumber' = lastNumber + 1 /\ journals'[last].number = lastNumber + 1
        BY <1>2, <2>2 DEF AddsRow, RowOf
      <3> HIDE DEF last
      <3> QED BY <1>0, <2>1, <3>1 DEF GaplessNumbers
    <2>3. CASE req[r].op # "manual"
      <3>1. lastNumber' = lastNumber /\ journals'[last].number = 0
        BY <1>2, <2>3 DEF AddsRow, RowOf
      <3> HIDE DEF last
      <3> QED BY <1>0, <2>1, <3>1 DEF GaplessNumbers
    <2> QED BY <2>2, <2>3
  <1>3. ASSUME NEW i, NEW st, NEW u, Decides(i, st, u) PROVE GaplessNumbers'
    <2>1. JournalIds' = JournalIds /\ lastNumber' = lastNumber
      BY <1>3 DEF Decides, JournalIds
    <2>2. \A k \in JournalIds : journals'[k].number = journals[k].number
      BY <1>3, DecidesFields
    <2> QED BY <2>1, <2>2 DEF GaplessNumbers
  <1>4. CASE AddsServerRows
    <2>1. /\ JournalIds \subseteq JournalIds' /\ lastNumber' = lastNumber
          /\ \A i \in JournalIds : journals'[i] = journals[i]
          /\ \A i \in JournalIds' \ JournalIds : journals'[i].number = 0
      BY <1>0, <1>4 DEF AddsServerRows, KeepsRows, JournalIds, ServerRow
    <2> QED BY <1>0, <2>1 DEF GaplessNumbers
  <1> QED BY <1>1, <1>2, <1>3, <1>4, TableStep

LEMMA UuidStep ==
  ASSUME TypeOK, RequestsWF, OneJournalPerUuid, [Next]_vars
  PROVE  OneJournalPerUuid'
  <1>0. Len(journals) \in Nat
    BY LenProperties DEF TypeOK
  <1>1. CASE Untouched
    BY <1>1 DEF Untouched, OneJournalPerUuid, JournalIds
  <1>2. ASSUME NEW r \in Requests, AddsRow(req[r]) PROVE OneJournalPerUuid'
    <2> DEFINE last == Len(journals) + 1
    <2>1. /\ JournalIds' = JournalIds \cup {last}
          /\ \A i \in JournalIds : journals'[i] = journals[i]
      BY <1>0, <1>2 DEF AddsRow, KeepsRows, JournalIds
    <2>2. journals'[last].uuid = req[r].uuid
      BY <1>2 DEF AddsRow, RowOf
    <2>3. \A i \in JournalIds : journals[i].uuid # req[r].uuid
      BY <1>2 DEF AddsRow, UuidTaken
    <2> HIDE DEF last
    <2> QED BY <2>1, <2>2, <2>3 DEF OneJournalPerUuid
  <1>3. ASSUME NEW i, NEW st, NEW u, Decides(i, st, u) PROVE OneJournalPerUuid'
    <2>1. JournalIds' = JournalIds
      BY <1>3 DEF Decides, JournalIds
    <2>2. \A k \in JournalIds : journals'[k].uuid = journals[k].uuid
      BY <1>3, DecidesFields
    <2> QED BY <2>1, <2>2 DEF OneJournalPerUuid
  <1>4. CASE AddsServerRows
    <2>1. /\ JournalIds \subseteq JournalIds'
          /\ \A i \in JournalIds : journals'[i] = journals[i]
          /\ \A i \in JournalIds' \ JournalIds : journals'[i].uuid = RandomUuid
      BY <1>0, <1>4 DEF AddsServerRows, KeepsRows, JournalIds, ServerRow
    <2> QED BY <2>1 DEF OneJournalPerUuid
  <1> QED BY <1>1, <1>2, <1>3, <1>4, TableStep

LEMMA SegregationStep ==
  ASSUME TypeOK, RequestsWF, SegregationOfDuties, [Next]_vars
  PROVE  SegregationOfDuties'
  <1>0. Len(journals) \in Nat
    BY LenProperties DEF TypeOK
  <1>1. CASE Untouched
    BY <1>1 DEF Untouched, SegregationOfDuties, JournalIds
  <1>2. ASSUME NEW r \in Requests, AddsRow(req[r]) PROVE SegregationOfDuties'
    <2> DEFINE last == Len(journals) + 1
    <2>1. /\ JournalIds' = JournalIds \cup {last}
          /\ \A i \in JournalIds : journals'[i] = journals[i]
      BY <1>0, <1>2 DEF AddsRow, KeepsRows, JournalIds
    <2>2. /\ journals'[last].status = "POSTED" =>
                ~(req[r].op = "manual" /\ req[r].amount >= ApprovalThreshold)
          /\ journals'[last].number # 0 => req[r].op = "manual"
          /\ journals'[last].amount = req[r].amount
      BY <1>2 DEF AddsRow, RowOf, NeedsApproval
    <2> HIDE DEF last
    <2> QED BY <2>1, <2>2 DEF SegregationOfDuties
  <1>3. ASSUME NEW i, NEW st, NEW u, Decides(i, st, u) PROVE SegregationOfDuties'
    <2>1. JournalIds' = JournalIds
      BY <1>3 DEF Decides, JournalIds
    <2>2. ASSUME NEW k \in JournalIds, journals'[k].status = "POSTED",
                 journals'[k].number # 0, journals'[k].amount >= ApprovalThreshold
          PROVE  journals'[k].approver \in Users \ {journals'[k].creator}
      <3>1. CASE k = i
        <4>1. /\ journals'[i] = Decision(journals[i], st, u) /\ journals[i] \in Journal
              /\ st \in JournalStatus /\ u \in Users \cup {NoUser}
          BY <1>3, JournalType DEF Decides, JournalStatus
        <4>2. /\ journals'[i].status = st /\ journals'[i].approver = u
              /\ journals'[i].creator = journals[i].creator
          BY <4>1, DecisionType
        <4> QED BY <1>3, <2>2, <3>1, <4>2 DEF Decides
      <3>2. CASE k # i
        BY <1>3, <2>2, <3>2 DEF Decides, SegregationOfDuties
      <3> QED BY <3>1, <3>2
    <2> QED BY <2>1, <2>2 DEF SegregationOfDuties
  <1>4. CASE AddsServerRows
    <2>1. /\ JournalIds \subseteq JournalIds'
          /\ \A i \in JournalIds : journals'[i] = journals[i]
          /\ \A i \in JournalIds' \ JournalIds : journals'[i].number = 0
      BY <1>0, <1>4 DEF AddsServerRows, KeepsRows, JournalIds, ServerRow
    <2> QED BY <2>1 DEF SegregationOfDuties
  <1> QED BY <1>1, <1>2, <1>3, <1>4, TableStep

LEMMA ReversalsStep ==
  ASSUME TypeOK, RequestsWF, ReversalsCorrectPosted, [Next]_vars
  PROVE  ReversalsCorrectPosted'
  <1>0. Len(journals) \in Nat
    BY LenProperties DEF TypeOK
  <1>1. CASE Untouched
    BY <1>1 DEF Untouched, ReversalsCorrectPosted, JournalIds
  <1>2. ASSUME NEW r \in Requests, AddsRow(req[r]) PROVE ReversalsCorrectPosted'
    <2> DEFINE last == Len(journals) + 1
    <2>1. /\ JournalIds' = JournalIds \cup {last}
          /\ \A i \in JournalIds : journals'[i] = journals[i]
      BY <1>0, <1>2 DEF AddsRow, KeepsRows, JournalIds
    <2>2. journals'[last].reversalOf = 0
      BY <1>2 DEF AddsRow, RowOf
    <2>3. \A i \in JournalIds : journals[i].reversalOf # 0 => journals[i].reversalOf \in JournalIds
      BY <1>0, JournalType DEF ReversalsCorrectPosted, JournalIds
    <2> HIDE DEF last
    <2> QED BY <2>1, <2>2, <2>3 DEF ReversalsCorrectPosted
  <1>3. ASSUME NEW i, NEW st, NEW u, Decides(i, st, u) PROVE ReversalsCorrectPosted'
    <2>1. JournalIds' = JournalIds
      BY <1>3 DEF Decides, JournalIds
    <2>2. \A k \in JournalIds :
            /\ journals'[k].reversalOf = journals[k].reversalOf
            /\ journals[k].status = "POSTED" => journals'[k] = journals[k]
      BY <1>3, DecidesFields
    <2>3. \A k \in JournalIds : journals[k].reversalOf # 0 => journals[k].reversalOf \in JournalIds
      BY <1>0, JournalType DEF ReversalsCorrectPosted, JournalIds
    <2> QED BY <2>1, <2>2, <2>3 DEF ReversalsCorrectPosted
  <1>4. CASE AddsServerRows
    <2>1. /\ JournalIds \subseteq JournalIds'
          /\ \A i \in JournalIds : journals'[i] = journals[i]
          /\ \A i \in JournalIds' \ JournalIds : ServerRow(journals'[i])
          /\ \A i \in JournalIds, k \in JournalIds' \ JournalIds : i < k
      BY <1>0, <1>4 DEF AddsServerRows, KeepsRows, JournalIds
    <2>2. \A k \in JournalIds : journals[k].reversalOf # 0 => journals[k].reversalOf \in JournalIds
      BY <1>0, JournalType DEF ReversalsCorrectPosted, JournalIds
    <2> QED BY <2>1, <2>2 DEF ReversalsCorrectPosted, ServerRow
  <1> QED BY <1>1, <1>2, <1>3, <1>4, TableStep

-----------------------------------------------------------------------------
(* Periods requests rely on.                                               *)

LEMMA ReliedOnKept ==
  ASSUME TypeOK, RequestsWF, [Next]_vars, NEW s \in Requests, req'[s] = req[s]
  PROVE  ReliedOn(req[s])' = ReliedOn(req[s])
  <1>1. Kept(journals, journals')
    BY RowsKept
  <1>2. RequestWF(req[s], journals)
    BY DEF RequestsWF
  <1>3. (req[s].op = "opening" /\ req[s].target # 0 /\ req[s].pc # "reversal")
           => journals'[req[s].target] = journals[req[s].target]
    BY <1>1, <1>2 DEF RequestWF, Kept
  <1> QED BY <1>3 DEF ReliedOn

LEMMA ReliedOnStep ==
  ASSUME TypeOK, RequestsWF, ReliedOnOpen, [Next]_vars
  PROVE  ReliedOnOpen'
  <1> USE JournalsAssumption
  <1> DEFINE Opens == \A p \in Periods : periodStatus[p] = "OPEN" => periodStatus'[p] = "OPEN"
             Others(r) == \A s \in Requests \ {r} : req'[s] = req[s] /\ (s \in late => s \in late')
             Fine(r) == r \notin late' => \A p \in ReliedOn(req[r])' : periodStatus'[p] = "OPEN"
  <1>1. \A s \in Requests : ReliedOn(req[s]) \subseteq Periods
    <2> SUFFICES ASSUME NEW s \in Requests PROVE ReliedOn(req[s]) \subseteq Periods
      OBVIOUS
    <2>1. req[s].period \in Periods /\ RequestWF(req[s], journals)
      BY DEF TypeOK, Request, RequestsWF
    <2>2. (req[s].op = "opening" /\ req[s].target # 0)
             => journals[req[s].target].period \in Periods
      BY <2>1, JournalType, LenProperties DEF RequestWF, JournalIds, TypeOK
    <2> QED BY <2>1, <2>2 DEF ReliedOn
  <1>2. ASSUME NEW r \in Requests, Opens, Others(r), Fine(r) PROVE ReliedOnOpen'
    <2> SUFFICES ASSUME NEW s \in Requests, s \notin late', NEW p, p \in ReliedOn(req[s])'
                 PROVE  periodStatus'[p] = "OPEN"
      BY DEF ReliedOnOpen
    <2>1. CASE s = r
      BY <1>2, <2>1
    <2>2. CASE s # r
      <3>1. req'[s] = req[s] /\ s \notin late
        BY <1>2, <2>2
      <3>2. p \in ReliedOn(req[s])
        BY <3>1, ReliedOnKept
      <3> QED BY <1>1, <1>2, <3>1, <3>2 DEF ReliedOnOpen
    <2> QED BY <2>1, <2>2
  <1>3. ASSUME NEW p \in Periods,
               periodStatus' = EnsurePeriod(p) \/ periodStatus' = periodStatus
        PROVE  Opens
    BY <1>3, EnsurePeriodType DEF TypeOK
  <1>4. ASSUME NEW r \in Requests, Finish(r), Opens PROVE ReliedOnOpen'
    <2>1. Others(r) /\ req'[r] = Idle
      BY <1>4, IdleType, RequestTable DEF Finish
    <2>2. Fine(r)
      BY <2>1 DEF ReliedOn, Idle
    <2> QED BY <1>2, <1>4, <2>1, <2>2
  <1>5. ASSUME NEW r \in Requests, NEW q, Begin(r, q), UNCHANGED late, Opens,
               \/ q.op \notin PostingOps
               \/ q.pc = "validate" /\ q.op # "opening"
               \/ q.pc \in {"idle", "reversal"}
               \/ q.pc = "validate" /\ q.target = 0
        PROVE  ReliedOnOpen'
    <2>1. Others(r) /\ req'[r] = q
      BY <1>5 DEF Begin, TypeOK
    <2>2. Fine(r)
      BY <1>5, <2>1 DEF ReliedOn, PostingOps
    <2> QED BY <1>2, <1>5, <2>1, <2>2
  <1>6. ASSUME NEW r \in Requests, PrepareManual(r) PROVE ReliedOnOpen'
    <2>1. PICK u \in Users, c \in ClientUuids, a \in Amounts, p \in Periods, s \in HandSources :
            /\ Begin(r, [Idle EXCEPT !.op = "manual", !.pc = "validate", !.user = u,
                             !.uuid = c, !.amount = a, !.source = s, !.period = p])
            /\ periodStatus' = EnsurePeriod(p)
            /\ UNCHANGED late
      BY <1>6 DEF PrepareManual
    <2> DEFINE q == [Idle EXCEPT !.op = "manual", !.pc = "validate", !.user = u,
                                 !.uuid = c, !.amount = a, !.source = s, !.period = p]
    <2>2. q.op = "manual" /\ q.pc = "validate"
      BY DEF Idle
    <2> HIDE DEF q
    <2> QED BY <1>3, <1>5, <2>1, <2>2 DEF q
  <1>7. ASSUME NEW r \in Requests, PrepareDocument(r) PROVE ReliedOnOpen'
    <2>1. PICK c \in ClientUuids, p \in Periods :
            /\ Begin(r, [Idle EXCEPT !.op = "document", !.pc = "validate", !.uuid = c,
                                     !.source = "DOCUMENT", !.period = p])
            /\ periodStatus' = EnsurePeriod(p)
            /\ UNCHANGED late
      BY <1>7 DEF PrepareDocument
    <2> DEFINE q == [Idle EXCEPT !.op = "document", !.pc = "validate", !.uuid = c,
                                 !.source = "DOCUMENT", !.period = p]
    <2>2. q.op = "document" /\ q.pc = "validate"
      BY DEF Idle
    <2> HIDE DEF q
    <2> QED BY <1>3, <1>5, <2>1, <2>2 DEF q
  <1>8. ASSUME NEW r \in Requests, PrepareApprove(r) PROVE ReliedOnOpen'
    <2>1. PICK u \in Users, i \in JournalIds :
            /\ Begin(r, [Idle EXCEPT !.op = "approve", !.pc = "validate", !.user = u,
                                     !.period = journals[i].period, !.target = i])
            /\ periodStatus' = EnsurePeriod(journals[i].period)
            /\ UNCHANGED late
      BY <1>8 DEF PrepareApprove
    <2> DEFINE q == [Idle EXCEPT !.op = "approve", !.pc = "validate", !.user = u,
                                 !.period = journals[i].period, !.target = i]
    <2>2. q.op = "approve" /\ q.pc = "validate"
      BY DEF Idle
    <2>3. Opens
      BY <1>3, <2>1, JournalType
    <2> HIDE DEF q
    <2> QED BY <1>5, <2>1, <2>2, <2>3 DEF q
  <1>9. ASSUME NEW r \in Requests, PrepareReject(r) PROVE ReliedOnOpen'
    <2>1. PICK i \in JournalIds :
            /\ Begin(r, [Idle EXCEPT !.op = "reject", !.pc = "write", !.target = i])
            /\ UNCHANGED <<periodStatus, late>>
      BY <1>9 DEF PrepareReject
    <2> DEFINE q == [Idle EXCEPT !.op = "reject", !.pc = "write", !.target = i]
    <2>2. q.op \notin PostingOps
      BY DEF Idle, PostingOps
    <2> HIDE DEF q
    <2> QED BY <1>5, <2>1, <2>2 DEF q
  <1>10. ASSUME NEW r \in Requests, PrepareReverse(r) PROVE ReliedOnOpen'
    <2>1. PICK i \in JournalIds :
            /\ Begin(r, [Idle EXCEPT !.op = "reverse", !.pc = "validate", !.target = i])
            /\ periodStatus' = EnsurePeriod(CurrentPeriod)
            /\ UNCHANGED late
      BY <1>10 DEF PrepareReverse
    <2> DEFINE q == [Idle EXCEPT !.op = "reverse", !.pc = "validate", !.target = i]
    <2>2. q.op = "reverse" /\ q.pc = "validate"
      BY DEF Idle
    <2> HIDE DEF q
    <2> QED BY <1>3, <1>5, <2>1, <2>2 DEF q
  <1>11. ASSUME NEW r \in Requests, PrepareOpening(r) PROVE ReliedOnOpen'
    <2>1. PICK p \in Periods, i \in JournalIds \cup {0} :
            /\ Begin(r, [Idle EXCEPT !.op = "opening", !.source = "OPENING",
                                     !.pc = IF i = 0 THEN "validate" ELSE "reversal",
                                     !.period = p, !.target = i])
            /\ periodStatus' = IF i = 0 THEN EnsurePeriod(p) ELSE periodStatus
            /\ UNCHANGED late
      BY <1>11 DEF PrepareOpening
    <2> DEFINE q == [Idle EXCEPT !.op = "opening", !.source = "OPENING",
                                 !.pc = IF i = 0 THEN "validate" ELSE "reversal",
                                 !.period = p, !.target = i]
    <2>2. q.target = i /\ q.pc = IF i = 0 THEN "validate" ELSE "reversal"
      BY DEF Idle
    <2>3. Opens
      BY <1>3, <2>1
    <2> HIDE DEF q
    <2> QED BY <1>5, <2>1, <2>2, <2>3 DEF q
  <1>12. ASSUME NEW r \in Requests, PrepareOpeningReversal(r) PROVE ReliedOnOpen'
    <2>1. /\ req[r] \in Request /\ req[r].period \in Periods
          /\ req[r].op = "opening" /\ req[r].target # 0
      BY <1>12 DEF TypeOK, Request, RequestsWF, RequestWF, PrepareOpeningReversal
    <2>2. Opens
      BY <1>3, <1>12, <2>1 DEF PrepareOpeningReversal
    <2>3. Others(r) /\ req'[r] = [req[r] EXCEPT !.pc = "validate"]
      BY <1>12 DEF PrepareOpeningReversal, TypeOK
    <2>4. req'[r].op = "opening" /\ req'[r].target = req[r].target /\ req'[r].pc = "validate"
      BY <2>1, <2>3 DEF Request
    <2>5. ReliedOn(req[r])' = {journals[req[r].target].period}
      BY <1>12, <2>1, <2>4 DEF ReliedOn, PrepareOpeningReversal
    <2>6. journals[req[r].target].period \in Periods
      BY <2>1, JournalType, LenProperties DEF RequestsWF, RequestWF, JournalIds, TypeOK
    <2>7. Fine(r)
      BY <1>12, <2>2, <2>5, <2>6 DEF PrepareOpeningReversal
    <2> QED BY <1>2, <2>2, <2>3, <2>7
  <1>13. ASSUME NEW r \in Requests, ValidateForPosting(r) PROVE ReliedOnOpen'
    <2>1. req[r] \in Request
      BY DEF TypeOK
    <2>2. Others(r) /\ req'[r] = [req[r] EXCEPT !.pc = "write"]
      BY <1>13 DEF ValidateForPosting, TypeOK
    <2>3. /\ req'[r].op = req[r].op /\ req'[r].target = req[r].target
          /\ req'[r].period = req[r].period /\ req'[r].pc = "write"
      BY <2>1, <2>2 DEF Request
    <2>4. ReliedOn(req[r])' \subseteq {req[r].period} \cup ReliedOn(req[r])
      BY <1>13, <2>3 DEF ReliedOn, ValidateForPosting
    <2>5. Opens /\ Fine(r)
      BY <1>13, <2>4 DEF ValidateForPosting, ReliedOnOpen
    <2> QED BY <1>2, <2>2, <2>5
  <1>14. ASSUME NEW r \in Requests, LockOpening(r) PROVE ReliedOnOpen'
    <2>1. req[r] \in Request
      BY DEF TypeOK
    <2>2. Others(r) /\ req'[r] = [req[r] EXCEPT !.pc = "locked"]
      BY <1>14 DEF LockOpening, TypeOK
    <2>3. /\ req'[r].op = req[r].op /\ req'[r].target = req[r].target
          /\ req'[r].period = req[r].period /\ req'[r].pc = "locked"
      BY <2>1, <2>2 DEF Request
    <2>4. ReliedOn(req[r])' = ReliedOn(req[r])
      BY <1>14, <2>3 DEF ReliedOn, LockOpening, Writing
    <2>5. Opens /\ Fine(r)
      BY <1>14, <2>4 DEF LockOpening, ReliedOnOpen
    <2> QED BY <1>2, <2>2, <2>5
  <1>15. ASSUME NEW r \in Requests,
                PrepareClose(r) \/ PrepareReopen(r)
         PROVE  ReliedOnOpen'
    <2>1. PICK p \in Periods, op \in {"close", "reopen"} :
            /\ Begin(r, [Idle EXCEPT !.op = op, !.pc = "write", !.period = p])
            /\ UNCHANGED <<periodStatus, late>>
      BY <1>15 DEF PrepareClose, PrepareReopen
    <2> DEFINE q == [Idle EXCEPT !.op = op, !.pc = "write", !.period = p]
    <2>2. q.op \notin PostingOps
      BY DEF Idle, PostingOps
    <2> HIDE DEF q
    <2> QED BY <1>5, <2>1, <2>2 DEF q
  <1>16. ASSUME NEW r \in Requests, WriteClose(r) PROVE ReliedOnOpen'
    <2>1. /\ req'[r] = Idle
          /\ \A s \in Requests \ {r} : req'[s] = req[s]
      BY <1>16, IdleType, RequestTable DEF WriteClose
    <2>2. ReliedOn(Idle)' = {}
      BY DEF ReliedOn, Idle
    <2> SUFFICES ASSUME NEW s \in Requests, s \notin late', NEW p, p \in ReliedOn(req[s])'
                 PROVE  periodStatus'[p] = "OPEN"
      BY DEF ReliedOnOpen
    <2>3. s # r
      BY <2>1, <2>2
    <2>4. p \in ReliedOn(req[s])
      BY <2>1, <2>3, ReliedOnKept
    <2>5. s \notin late /\ p # req[r].period
      BY <1>16, <2>4 DEF WriteClose
    <2>6. periodStatus[p] = "OPEN" /\ p \in Periods
      BY <1>1, <2>4, <2>5 DEF ReliedOnOpen
    <2> QED BY <1>16, <2>5, <2>6 DEF WriteClose, TypeOK
  <1>17. ASSUME NEW p \in Periods, CreatePeriod(p) PROVE ReliedOnOpen'
    <2>1. Opens /\ UNCHANGED <<journals, req, late>>
      BY <1>17 DEF CreatePeriod, TypeOK
    <2>2. \A s \in Requests : ReliedOn(req[s])' = ReliedOn(req[s])
      BY <2>1 DEF ReliedOn
    <2> QED BY <1>1, <2>1, <2>2 DEF ReliedOnOpen
  <1>18. CASE UNCHANGED vars
    BY <1>18 DEF vars, ReliedOnOpen, ReliedOn
  <1>19. ASSUME NEW r \in Requests,
                \/ Drop(r) \/ WriteCreate(r) \/ WriteApprove(r) \/ WriteReject(r)
                \/ WriteReverse(r) \/ WriteOpening(r) \/ WriteReopen(r)
         PROVE  ReliedOnOpen'
    <2>1. Finish(r)
      BY <1>19 DEF Drop, WriteCreate, WriteApprove, WriteReject, WriteDecision, WriteReverse,
                   WriteOpening, WriteReopen
    <2>2. UNCHANGED periodStatus \/ periodStatus' = [periodStatus EXCEPT ![req[r].period] = "OPEN"]
      BY <1>19 DEF Drop, WriteCreate, WriteApprove, WriteReject, WriteDecision, WriteReverse,
                   WriteOpening, WriteReopen
    <2>3. Opens
      BY <2>2 DEF TypeOK
    <2> QED BY <1>4, <2>1, <2>3
  <1> QED
    BY <1>6, <1>7, <1>8, <1>9, <1>10, <1>11, <1>12, <1>13, <1>14, <1>15, <1>16, <1>17,
       <1>18, <1>19 DEF Next, Step

-----------------------------------------------------------------------------
(* The theorems.                                                           *)

LEMMA IInvInit ==
  ASSUME Init
  PROVE  IInv
  <1>1. Len(journals) = 0 /\ journals \in Seq(Journal) /\ JournalIds = {}
    BY EmptySeq DEF Init, JournalIds
  <1>2. TypeOK
    BY <1>1, IdleType DEF Init, TypeOK
  <1>3. RequestsWF
    BY DEF Init, RequestsWF, RequestWF, Idle
  <1>4. GaplessNumbers /\ OneJournalPerUuid /\ SegregationOfDuties /\ ReversalsCorrectPosted
    BY <1>1 DEF Init, GaplessNumbers, OneJournalPerUuid, SegregationOfDuties,
                ReversalsCorrectPosted
  <1>5. ReliedOnOpen
    BY DEF Init, ReliedOnOpen, ReliedOn, Idle
  <1> QED BY <1>2, <1>3, <1>4, <1>5 DEF IInv

LEMMA IInvStep ==
  ASSUME IInv, [Next]_vars
  PROVE  IInv'
  BY TypeOKStep, RequestsWFStep, GaplessStep, UuidStep, SegregationStep, ReversalsStep,
     ReliedOnStep DEF IInv

(* IInv holds in every reachable state. *)
THEOREM Inductive == Spec => []IInv
  <1>1. Init => IInv
    BY IInvInit
  <1>2. IInv /\ [Next]_vars => IInv'
    BY IInvStep
  <1> QED BY <1>1, <1>2, PTL DEF Spec

(* The tables and requests keep their shape. *)
THEOREM TypeCorrect == Spec => []TypeOK
  <1>1. IInv => TypeOK
    BY DEF IInv
  <1> QED BY <1>1, Inductive, PTL

(* insertJournal numbers hand-entered journals without gaps or repetition. *)
THEOREM NumbersGapless == Spec => []GaplessNumbers
  <1>1. IInv => GaplessNumbers
    BY DEF IInv
  <1> QED BY <1>1, Inductive, PTL

(* A client identity is posted at most once. *)
THEOREM UuidsUnique == Spec => []OneJournalPerUuid
  <1>1. IInv => OneJournalPerUuid
    BY DEF IInv
  <1> QED BY <1>1, Inductive, PTL

(* Nobody posts a large hand-entered journal alone. *)
THEOREM DutiesSegregated == Spec => []SegregationOfDuties
  <1>1. IInv => SegregationOfDuties
    BY DEF IInv
  <1> QED BY <1>1, Inductive, PTL

(* Reversals are posted and reverse posted journals. *)
THEOREM ReversalsSound == Spec => []ReversalsCorrectPosted
  <1>1. IInv => ReversalsCorrectPosted
    BY DEF IInv
  <1> QED BY <1>1, Inductive, PTL

(* approveJournal and rejectJournal never overwrite a decision. *)
THEOREM DecisionsFinal == Spec => DecisionsAreFinal
  <1>1. IInv /\ [Next]_vars =>
          [\A i \in JournalIds :
              journals[i].status # "PENDING_APPROVAL" => journals'[i] = journals[i]]_vars
    BY RowsKept DEF IInv, Kept, JournalIds
  <1> QED BY <1>1, Inductive, PTL DEF Spec, DecisionsAreFinal

-----------------------------------------------------------------------------
(* Closed periods.                                                         *)

(* The request that commits had relied on every period it posts into. *)
LEMMA PostsWhereReliedOn ==
  ASSUME IInv, [Next]_vars, NEW i \in 1 .. Len(journals'), PostedNow(i)
  PROVE  \E r \in Requests : /\ req[r].pc \in {"write", "locked"} /\ req'[r] = Idle
                            /\ journals'[i].period \in ReliedOn(req[r])
                            /\ UNCHANGED periodStatus
  <1> DEFINE Goal(r) == /\ req[r].pc \in {"write", "locked"} /\ req'[r] = Idle
                        /\ journals'[i].period \in ReliedOn(req[r])
                        /\ UNCHANGED periodStatus
  <1>0. /\ TypeOK /\ RequestsWF
        /\ journals \in Seq(Journal) /\ Len(journals) \in Nat
    BY LenProperties DEF IInv, TypeOK
  <1>1. journals' # journals
    BY DEF PostedNow, JournalIds
  <1>2. ASSUME NEW r \in Requests, Finish(r) PROVE req'[r] = Idle
    BY <1>0, <1>2, IdleType, RequestTable DEF Finish
  <1>3. ASSUME NEW r \in Requests, WriteCreate(r) PROVE Goal(r)
    <2> DEFINE row == RowOf(req[r])
    <2>1. journals' = Append(journals, row)
      BY <1>1, <1>3 DEF WriteCreate, InsertJournal, dbVars
    <2>2. row \in Journal /\ row.period = req[r].period
      BY <1>0, RowOfType DEF TypeOK, RowOf
    <2> HIDE DEF row
    <2>3. i = Len(journals) + 1 /\ journals'[i] = row
      BY <1>0, <2>1, <2>2 DEF PostedNow, JournalIds
    <2> QED BY <1>2, <1>3, <2>2, <2>3 DEF WriteCreate, Writing, ReliedOn, PostingOps
  <1>4. ASSUME NEW r \in Requests, WriteReverse(r) PROVE Goal(r)
    <2> DEFINE row == ReversalRow(req[r].target, req[r].period)
    <2>1. journals' = Append(journals, row)
      BY <1>4 DEF WriteReverse
    <2>2. req[r].target \in JournalIds /\ req[r].period \in Periods
      BY <1>0, <1>4 DEF RequestsWF, RequestWF, JournalIds, WriteReverse, Writing, TypeOK, Request
    <2>3. row \in Journal /\ row.period = req[r].period
      BY <1>0, <2>2, ReversalRowType DEF ReversalRow
    <2> HIDE DEF row
    <2>4. i = Len(journals) + 1 /\ journals'[i] = row
      BY <1>0, <2>1, <2>3 DEF PostedNow, JournalIds
    <2> QED BY <1>2, <1>4, <2>3, <2>4 DEF WriteReverse, Writing, ReliedOn, PostingOps
  <1>5. ASSUME NEW r \in Requests, WriteApprove(r) \/ WriteReject(r) PROVE Goal(r)
    <2>1. /\ req[r].target \in JournalIds
          /\ Pending(req[r].target)
          /\ req[r].user \in Users \cup {NoUser}
      BY <1>0, <1>1, <1>5
         DEF RequestsWF, RequestWF, JournalIds, WriteApprove, WriteReject, WriteDecision,
             Writing, TypeOK, Request
    <2>2. PICK st \in {"POSTED", "REJECTED"} :
            /\ journals' = Decided(req[r].target, st, req[r].user)
            /\ st = "POSTED" => Writing(r, "approve")
      BY <1>5, <2>1 DEF WriteApprove, WriteReject, WriteDecision
    <2>3. st \in JournalStatus /\ journals[req[r].target] \in Journal
      BY <1>0, <2>1, JournalType DEF JournalStatus
    <2>4. /\ Len(journals') = Len(journals)
          /\ \A k \in JournalIds : k # req[r].target => journals'[k] = journals[k]
          /\ journals'[req[r].target] = Decision(journals[req[r].target], st, req[r].user)
      BY <1>0, <2>1, <2>2, <2>3, DecidedRow
    <2>5. i = req[r].target
      BY <1>0, <2>4 DEF PostedNow, JournalIds
    <2>6. journals'[i].status = st /\ journals'[i].period = journals[i].period
      BY <2>1, <2>3, <2>4, <2>5, DecisionType
    <2>7. Writing(r, "approve")
      BY <2>2, <2>6 DEF PostedNow
    <2>8. journals'[i].period = req[r].period
      BY <1>0, <2>5, <2>6, <2>7 DEF RequestsWF, RequestWF, Writing
    <2> QED
      BY <1>2, <1>5, <2>7, <2>8
         DEF WriteApprove, WriteReject, WriteDecision, Writing, ReliedOn, PostingOps
  <1>6. ASSUME NEW r \in Requests, WriteOpening(r) PROVE Goal(r)
    <2> DEFINE rows == OpeningRows(req[r])
    <2>1. /\ req[r] \in Request /\ req[r].op = "opening" /\ req[r].pc = "locked"
          /\ req[r].target \in JournalIds \cup {0}
      BY <1>0, <1>6 DEF RequestsWF, RequestWF, JournalIds, WriteOpening, TypeOK
    <2>2. rows \in Seq(Journal) /\ Len(rows) \in Nat
      BY <1>0, <2>1, OpeningRowsType, LenProperties
    <2>3. \A k \in 1 .. Len(rows) : rows[k].period \in ReliedOn(req[r])
      <3>1. CASE req[r].target = 0
        BY <2>1, <3>1 DEF OpeningRows, RowOf, ReliedOn, PostingOps
      <3>2. CASE req[r].target # 0
        BY <2>1, <3>2 DEF OpeningRows, RowOf, ReversalRow, ReliedOn, PostingOps
      <3> QED BY <3>1, <3>2
    <2>4. journals' = journals \o rows /\ UNCHANGED periodStatus /\ Finish(r)
      BY <1>6 DEF WriteOpening
    <2> HIDE DEF rows
    <2>5. /\ Len(journals') = Len(journals) + Len(rows)
          /\ \A k \in 1 .. Len(journals) + Len(rows) : journals'[k] =
                 IF k <= Len(journals) THEN journals[k] ELSE rows[k - Len(journals)]
      BY <1>0, <2>2, <2>4, ConcatProperties
    <2>6. i > Len(journals)
      BY <1>0, <2>2, <2>5 DEF PostedNow, JournalIds
    <2>7. journals'[i].period \in ReliedOn(req[r])
      BY <1>0, <2>2, <2>3, <2>5, <2>6
    <2> QED BY <1>2, <2>1, <2>4, <2>7
  <1> QED
    BY <1>1, <1>3, <1>4, <1>5, <1>6
       DEF Next, Step, vars, dbVars, Drop, PrepareManual, PrepareDocument, PrepareApprove,
           PrepareReject, PrepareReverse, PrepareOpening, PrepareOpeningReversal,
           ValidateForPosting, LockOpening, PrepareClose, PrepareReopen, WriteClose,
           WriteReopen, CreatePeriod

(* A posting enters a closed period only if the close overtook its request. *)
THEOREM ClosedPeriodsLeakOnlyOvertaken == Spec => OnlyOvertakenPostings
  <1> DEFINE Overtaken ==
        \A i \in 1 .. Len(journals') :
           PostedNow(i) /\ periodStatus[journals'[i].period] # "OPEN"
               => \E r \in late : req[r].pc \in {"write", "locked"} /\ req'[r] = Idle
  <1>1. ASSUME IInv, [Next]_vars PROVE Overtaken
    <2> SUFFICES ASSUME NEW i \in 1 .. Len(journals'), PostedNow(i),
                        periodStatus[journals'[i].period] # "OPEN"
                 PROVE  \E r \in late : req[r].pc \in {"write", "locked"} /\ req'[r] = Idle
      OBVIOUS
    <2>1. PICK r \in Requests : /\ req[r].pc \in {"write", "locked"} /\ req'[r] = Idle
                                /\ journals'[i].period \in ReliedOn(req[r])
      BY <1>1, PostsWhereReliedOn
    <2>2. r \in late
      BY <1>1, <2>1 DEF IInv, ReliedOnOpen
    <2> QED BY <2>1, <2>2
  <1>2. IInv /\ [Next]_vars => [Overtaken]_vars
    BY <1>1
  <1> QED BY <1>2, Inductive, PTL DEF Spec, OnlyOvertakenPostings

-----------------------------------------------------------------------------
(* The opening balances.                                                   *)

(* What the request that will replace journal t (0: enters the first one)  *)
(* found under the advisory lock.                                          *)
Unreplaced(t) ==
    IF t = 0 THEN \A i \in ActiveOpenings : journals[i].uuid # RandomUuid
    ELSE ~Replaced(t)

OpeningsKnow ==
    /\ \A r \in Requests : req[r].op \in {"manual", "document"} => req[r].uuid # RandomUuid
    /\ \A r, s \in Requests : req[r].pc = "locked" /\ req[s].pc = "locked" => r = s
    /\ \A r \in Requests : req[r].pc = "locked" => Unreplaced(req[r].target)

(* A step that adds no opening journal of the server's.                    *)
NoNewOpening ==
    /\ JournalIds \subseteq JournalIds'
    /\ \A i \in JournalIds : /\ journals'[i].source = journals[i].source
                             /\ journals'[i].uuid = journals[i].uuid
                             /\ journals'[i].reversalOf = journals[i].reversalOf
    /\ \A i \in JournalIds' \ JournalIds :
            journals'[i].source = "OPENING" => journals'[i].uuid # RandomUuid

LEMMA UnreplacedKept ==
  ASSUME TypeOK, TypeOK', NoNewOpening, NEW t, Unreplaced(t)
  PROVE  Unreplaced(t)'
  <1>0. Len(journals) \in Nat /\ Len(journals') \in Nat
    BY LenProperties DEF TypeOK
  <1>1. CASE t = 0
    <2>1. ASSUME NEW i \in ActiveOpenings', journals'[i].uuid = RandomUuid PROVE FALSE
      <3>1. /\ i \in JournalIds' /\ journals'[i].source = "OPENING" /\ journals'[i].reversalOf = 0
            /\ \A k \in JournalIds' : journals'[k].reversalOf # i
        BY DEF ActiveOpenings, Reversed
      <3>2. i \in JournalIds
        BY <2>1, <3>1 DEF NoNewOpening
      <3>3. i \in ActiveOpenings
        BY <3>1, <3>2 DEF NoNewOpening, ActiveOpenings, Reversed
      <3> QED BY <1>1, <2>1, <3>2, <3>3 DEF Unreplaced, NoNewOpening
    <2> QED BY <1>1, <2>1 DEF Unreplaced
  <1>2. CASE t # 0
    <2>1. ASSUME NEW k \in 1 .. Len(journals') - 1, journals'[k].reversalOf = t,
                 journals'[k + 1].source = "OPENING", journals'[k + 1].uuid = RandomUuid
          PROVE  FALSE
      <3>1. k + 1 \in JournalIds'
        BY <1>0 DEF JournalIds
      <3>2. k + 1 \in JournalIds
        BY <2>1, <3>1 DEF NoNewOpening
      <3>3. k \in JournalIds /\ k \in 1 .. Len(journals) - 1
        BY <1>0, <3>2 DEF JournalIds
      <3>4. /\ journals[k].reversalOf = t /\ journals[k + 1].source = "OPENING"
            /\ journals[k + 1].uuid = RandomUuid
        BY <2>1, <3>2, <3>3 DEF NoNewOpening
      <3> QED BY <1>2, <3>3, <3>4 DEF Unreplaced, Replaced
    <2> QED BY <1>2, <2>1 DEF Unreplaced, Replaced
  <1> QED BY <1>1, <1>2

(* Only setOpeningBalances adds an opening journal of the server's.        *)
LEMMA OpeningsAddedByOpening ==
  ASSUME IInv, OpeningsKnow, [Next]_vars, \A r \in Requests : ~WriteOpening(r)
  PROVE  NoNewOpening
  <1>0. TypeOK /\ RequestsWF /\ journals \in Seq(Journal) /\ Len(journals) \in Nat
    BY LenProperties DEF IInv, TypeOK
  <1>1. CASE journals' = journals
    BY <1>1 DEF NoNewOpening, JournalIds
  <1>2. ASSUME NEW row \in Journal, journals' = Append(journals, row),
               row.source = "OPENING" => row.uuid # RandomUuid
        PROVE  NoNewOpening
    <2>1. /\ JournalIds' = JournalIds \cup {Len(journals) + 1}
          /\ \A i \in JournalIds : journals'[i] = journals[i]
          /\ journals'[Len(journals) + 1] = row
      BY <1>0, <1>2, AppendRow DEF JournalIds
    <2> QED BY <1>2, <2>1 DEF NoNewOpening
  <1>3. ASSUME NEW r \in Requests, WriteCreate(r) PROVE NoNewOpening
    <2>1. RowOf(req[r]) \in Journal
      BY <1>0, RowOfType DEF TypeOK
    <2>2. RowOf(req[r]).uuid # RandomUuid
      BY <1>3 DEF OpeningsKnow, WriteCreate, Writing, RowOf
    <2> QED BY <1>1, <1>2, <1>3, <2>1, <2>2 DEF WriteCreate, InsertJournal, dbVars
  <1>4. ASSUME NEW r \in Requests, WriteReverse(r) PROVE NoNewOpening
    <2>1. /\ req[r].target \in JournalIds /\ req[r].period \in Periods
      BY <1>0, <1>4 DEF RequestsWF, RequestWF, JournalIds, WriteReverse, Writing, TypeOK, Request
    <2>2. ReversalRow(req[r].target, req[r].period) \in Journal
      BY <1>0, <2>1, ReversalRowType
    <2>3. ReversalRow(req[r].target, req[r].period).source # "OPENING"
      BY DEF ReversalRow
    <2> QED BY <1>2, <1>4, <2>2, <2>3 DEF WriteReverse
  <1>5. ASSUME NEW r \in Requests, WriteApprove(r) \/ WriteReject(r) PROVE NoNewOpening
    <2>1. req[r].target \in JournalIds /\ req[r].user \in Users \cup {NoUser}
      BY <1>0, <1>5 DEF RequestsWF, RequestWF, JournalIds, WriteApprove, WriteReject,
                  WriteDecision, Writing, TypeOK, Request
    <2>2. ASSUME NEW st \in JournalStatus, journals' = Decided(req[r].target, st, req[r].user)
          PROVE  NoNewOpening
      <3>1. /\ Len(journals') = Len(journals)
            /\ \A k \in JournalIds : k # req[r].target => journals'[k] = journals[k]
            /\ journals'[req[r].target] = Decision(journals[req[r].target], st, req[r].user)
        BY <1>0, <2>1, <2>2, DecidedRow
      <3>2. /\ Decision(journals[req[r].target], st, req[r].user).source = journals[req[r].target].source
            /\ Decision(journals[req[r].target], st, req[r].user).uuid = journals[req[r].target].uuid
            /\ Decision(journals[req[r].target], st, req[r].user).reversalOf
                   = journals[req[r].target].reversalOf
        BY <1>0, <2>1, JournalType DEF Decision, Journal
      <3> QED BY <3>1, <3>2 DEF NoNewOpening, JournalIds
    <2> QED BY <1>1, <1>5, <2>2 DEF WriteApprove, WriteReject, WriteDecision, JournalStatus
  <1>6. ASSUME NEW r \in Requests, Step(r) PROVE NoNewOpening
    <2>0. ~WriteOpening(r)
      OBVIOUS
    <2>1. \/ journals' = journals
          \/ WriteCreate(r) \/ WriteReverse(r) \/ WriteApprove(r) \/ WriteReject(r)
      BY <1>6, <2>0 DEF Step, dbVars, Drop, PrepareManual, PrepareDocument, PrepareApprove, PrepareReject,
         PrepareReverse, PrepareOpening, PrepareOpeningReversal, ValidateForPosting, LockOpening,
         PrepareClose, PrepareReopen, WriteClose, WriteReopen
    <2> QED BY <1>1, <1>3, <1>4, <1>5, <2>1
  <1> QED BY <1>1, <1>6 DEF Next, CreatePeriod, vars

(* What a step makes of a request: only LockOpening brings it to the lock. *)
Unlocked(q) == q.pc # "locked" /\ (q.op \in {"manual", "document"} => q.uuid # RandomUuid)

LEMMA IntoTheLock ==
  ASSUME TypeOK, OpeningsKnow, [Next]_vars, NEW s \in Requests
  PROVE  \/ req'[s] = req[s]
         \/ Unlocked(req'[s])
         \/ LockOpening(s) /\ req'[s] = [req[s] EXCEPT !.pc = "locked"]
  <1> USE JournalsAssumption
  <1>0. req \in [Requests -> Request] /\ Unlocked(Idle)
    BY DEF TypeOK, Unlocked, Idle
  <1>1. ASSUME NEW r \in Requests, NEW q, Unlocked(q), req' = [req EXCEPT ![r] = q]
        PROVE  req'[s] = req[s] \/ Unlocked(req'[s])
    BY <1>0, <1>1
  <1>2. ASSUME NEW r \in Requests, PrepareManual(r) PROVE \E q : Unlocked(q) /\ req' = [req EXCEPT ![r] = q]
    <2>1. PICK u \in Users, c \in ClientUuids, a \in Amounts, p \in Periods, h \in HandSources :
            /\ Begin(r, [Idle EXCEPT !.op = "manual", !.pc = "validate", !.user = u,
                                !.uuid = c, !.amount = a, !.source = h, !.period = p])
            /\ periodStatus' = EnsurePeriod(p)
            /\ UNCHANGED <<journals, lastNumber, late>>
      BY <1>2 DEF PrepareManual
    <2>2. Unlocked([Idle EXCEPT !.op = "manual", !.pc = "validate", !.user = u,
                             !.uuid = c, !.amount = a, !.source = h, !.period = p])
      BY DEF Unlocked, Idle
    <2> QED BY <2>1, <2>2 DEF Begin
  <1>3. ASSUME NEW r \in Requests, PrepareDocument(r) PROVE \E q : Unlocked(q) /\ req' = [req EXCEPT ![r] = q]
    <2>1. PICK c \in ClientUuids, p \in Periods :
            /\ Begin(r, [Idle EXCEPT !.op = "document", !.pc = "validate", !.uuid = c,
                                !.source = "DOCUMENT", !.period = p])
            /\ periodStatus' = EnsurePeriod(p)
            /\ UNCHANGED <<journals, lastNumber, late>>
      BY <1>3 DEF PrepareDocument
    <2>2. Unlocked([Idle EXCEPT !.op = "document", !.pc = "validate", !.uuid = c,
                             !.source = "DOCUMENT", !.period = p])
      BY DEF Unlocked, Idle
    <2> QED BY <2>1, <2>2 DEF Begin
  <1>4. ASSUME NEW r \in Requests, PrepareApprove(r) PROVE \E q : Unlocked(q) /\ req' = [req EXCEPT ![r] = q]
    <2>1. PICK u \in Users, i \in JournalIds :
            /\ Begin(r, [Idle EXCEPT !.op = "approve", !.pc = "validate", !.user = u,
                                !.period = journals[i].period, !.target = i])
            /\ periodStatus' = EnsurePeriod(journals[i].period)
            /\ UNCHANGED <<journals, lastNumber, late>>
      BY <1>4 DEF PrepareApprove
    <2>2. Unlocked([Idle EXCEPT !.op = "approve", !.pc = "validate", !.user = u,
                             !.period = journals[i].period, !.target = i])
      BY DEF Unlocked, Idle
    <2> QED BY <2>1, <2>2 DEF Begin
  <1>5. ASSUME NEW r \in Requests, PrepareReject(r) PROVE \E q : Unlocked(q) /\ req' = [req EXCEPT ![r] = q]
    <2>1. PICK i \in JournalIds :
            /\ Begin(r, [Idle EXCEPT !.op = "reject", !.pc = "write", !.target = i])
            /\ UNCHANGED <<journals, lastNumber, periodStatus, late>>
      BY <1>5 DEF PrepareReject
    <2>2. Unlocked([Idle EXCEPT !.op = "reject", !.pc = "write", !.target = i])
      BY DEF Unlocked, Idle
    <2> QED BY <2>1, <2>2 DEF Begin
  <1>6. ASSUME NEW r \in Requests, PrepareReverse(r) PROVE \E q : Unlocked(q) /\ req' = [req EXCEPT ![r] = q]
    <2>1. PICK i \in JournalIds :
            /\ Begin(r, [Idle EXCEPT !.op = "reverse", !.pc = "validate", !.target = i])
            /\ periodStatus' = EnsurePeriod(CurrentPeriod)
            /\ UNCHANGED <<journals, lastNumber, late>>
      BY <1>6 DEF PrepareReverse
    <2>2. Unlocked([Idle EXCEPT !.op = "reverse", !.pc = "validate", !.target = i])
      BY DEF Unlocked, Idle
    <2> QED BY <2>1, <2>2 DEF Begin
  <1>7. ASSUME NEW r \in Requests, PrepareOpening(r) PROVE \E q : Unlocked(q) /\ req' = [req EXCEPT ![r] = q]
    <2>1. PICK p \in Periods, i \in JournalIds \cup {0} :
            /\ Begin(r, [Idle EXCEPT !.op = "opening", !.source = "OPENING",
                                !.pc = IF i = 0 THEN "validate" ELSE "reversal",
                                !.period = p, !.target = i])
            /\ periodStatus' = IF i = 0 THEN EnsurePeriod(p) ELSE periodStatus
            /\ UNCHANGED <<journals, lastNumber, late>>
      BY <1>7 DEF PrepareOpening
    <2>2. Unlocked([Idle EXCEPT !.op = "opening", !.source = "OPENING",
                             !.pc = IF i = 0 THEN "validate" ELSE "reversal",
                             !.period = p, !.target = i])
      BY DEF Unlocked, Idle
    <2> QED BY <2>1, <2>2 DEF Begin
  <1>8. ASSUME NEW r \in Requests, PrepareClose(r) PROVE \E q : Unlocked(q) /\ req' = [req EXCEPT ![r] = q]
    <2>1. PICK p \in Periods :
            /\ Begin(r, [Idle EXCEPT !.op = "close", !.pc = "write", !.period = p])
            /\ UNCHANGED <<journals, lastNumber, periodStatus, late>>
      BY <1>8 DEF PrepareClose
    <2>2. Unlocked([Idle EXCEPT !.op = "close", !.pc = "write", !.period = p])
      BY DEF Unlocked, Idle
    <2> QED BY <2>1, <2>2 DEF Begin
  <1>9. ASSUME NEW r \in Requests, PrepareReopen(r) PROVE \E q : Unlocked(q) /\ req' = [req EXCEPT ![r] = q]
    <2>1. PICK p \in Periods :
            /\ Begin(r, [Idle EXCEPT !.op = "reopen", !.pc = "write", !.period = p])
            /\ UNCHANGED <<journals, lastNumber, periodStatus, late>>
      BY <1>9 DEF PrepareReopen
    <2>2. Unlocked([Idle EXCEPT !.op = "reopen", !.pc = "write", !.period = p])
      BY DEF Unlocked, Idle
    <2> QED BY <2>1, <2>2 DEF Begin
  <1>10. ASSUME NEW r \in Requests, PrepareOpeningReversal(r) \/ ValidateForPosting(r)
        PROVE  \E q : Unlocked(q) /\ req' = [req EXCEPT ![r] = q]
    <2>1. PICK pc \in {"validate", "write"} : req' = [req EXCEPT ![r] = [req[r] EXCEPT !.pc = pc]]
      BY <1>0, <1>10 DEF PrepareOpeningReversal, ValidateForPosting
    <2>2. Unlocked([req[r] EXCEPT !.pc = pc])
      BY <1>0, <2>1 DEF Unlocked, OpeningsKnow, Request
    <2> QED BY <2>1, <2>2
  <1>11. ASSUME NEW r \in Requests, LockOpening(r)
        PROVE  req'[s] = req[s] \/ (LockOpening(s) /\ req'[s] = [req[s] EXCEPT !.pc = "locked"])
    BY <1>0, <1>11 DEF LockOpening
  <1>12. ASSUME NEW r \in Requests,
               WriteCreate(r) \/ WriteApprove(r) \/ WriteReject(r) \/ WriteReverse(r)
                 \/ WriteOpening(r) \/ WriteClose(r) \/ WriteReopen(r) \/ Drop(r)
        PROVE  \E q : Unlocked(q) /\ req' = [req EXCEPT ![r] = q]
    BY <1>0, <1>12 DEF WriteCreate, WriteApprove, WriteReject, WriteDecision, WriteReverse,
       WriteOpening, WriteClose, WriteReopen, Drop, Finish
  <1>13. ASSUME NEW p \in Periods, CreatePeriod(p) PROVE req' = req
    BY <1>13 DEF CreatePeriod
  <1> QED
    BY <1>1, <1>2, <1>3, <1>4, <1>5, <1>6, <1>7, <1>8, <1>9, <1>10, <1>11, <1>12, <1>13
       DEF Next, Step, vars

LEMMA OpeningsKnowStep ==
  ASSUME IInv, OpeningsKnow, [Next]_vars, IInv'
  PROVE  OpeningsKnow'
  <1>0. TypeOK /\ TypeOK' /\ req \in [Requests -> Request]
    BY DEF IInv, TypeOK
  <1>1. ASSUME NEW s \in Requests, req'[s].op \in {"manual", "document"}
        PROVE  req'[s].uuid # RandomUuid
    <2>1. ASSUME req'[s] = [req[s] EXCEPT !.pc = "locked"] PROVE req'[s].uuid # RandomUuid
      BY <1>0, <1>1, <2>1 DEF Request, OpeningsKnow
    <2> QED BY <1>0, <1>1, <2>1, IntoTheLock DEF Unlocked, OpeningsKnow
  (* Whoever holds the lock after the step held it before, or took it while
     nobody did. *)
  <1>2. ASSUME NEW s \in Requests, req'[s].pc = "locked"
        PROVE  \/ req'[s] = req[s]
               \/ LockOpening(s) /\ req'[s] = [req[s] EXCEPT !.pc = "locked"]
    BY <1>0, <1>2, IntoTheLock DEF Unlocked
  <1>3. ASSUME NEW r \in Requests, NEW s \in Requests, LockOpening(r), s # r
        PROVE  req'[s].pc # "locked"
    BY <1>0, <1>3 DEF LockOpening
  <1>4. ASSUME NEW r \in Requests, NEW s \in Requests, req'[r].pc = "locked", req'[s].pc = "locked"
        PROVE  r = s
    BY <1>2, <1>3, <1>4 DEF OpeningsKnow
  <1>5. ASSUME NEW s \in Requests, req'[s].pc = "locked" PROVE Unreplaced(req[s].target)'
    <2>1. CASE LockOpening(s) /\ req'[s] = [req[s] EXCEPT !.pc = "locked"]
      <3>1. /\ journals' = journals /\ ActiveOpening(req[s].target)
            /\ req'[s].target = req[s].target
        BY <1>0, <2>1 DEF LockOpening, Request
      <3>2. ASSUME NEW x, ActiveOpening(x) PROVE Unreplaced(x)'
        <4>1. Unreplaced(x)
          <5>1. CASE x = 0
            BY <3>2, <5>1 DEF ActiveOpening, Unreplaced
          <5>2. CASE x # 0
            <6>1. \A k \in JournalIds : journals[k].reversalOf # x
              BY <3>2, <5>2 DEF ActiveOpening, ActiveOpenings, Reversed
            <6>2. 1 .. Len(journals) - 1 \subseteq JournalIds
              BY <1>0, LenProperties DEF TypeOK, JournalIds
            <6> QED BY <5>2, <6>1, <6>2 DEF Unreplaced, Replaced
          <5> QED BY <5>1, <5>2
        <4> QED BY <3>1, <4>1 DEF Unreplaced, Replaced, ActiveOpenings, Reversed, JournalIds
      <3>3. ASSUME NEW x, x = req[s].target PROVE Unreplaced(x)'
        BY <3>1, <3>2, <3>3
      <3> QED BY <3>1, <3>3 DEF Unreplaced, Replaced
    <2>2. CASE req'[s] = req[s]
      <3>1. \A r \in Requests : ~WriteOpening(r)
        <4>1. ASSUME NEW r \in Requests, WriteOpening(r) PROVE FALSE
          <5>1. req[r].pc = "locked" /\ req'[r].pc = "idle"
            BY <1>0, <4>1 DEF WriteOpening, Finish, Idle
          <5> QED BY <1>5, <2>2, <5>1 DEF OpeningsKnow
        <4> QED BY <4>1
      <3>2. NoNewOpening
        BY <3>1, OpeningsAddedByOpening
      <3>3. ASSUME NEW x, x = req[s].target PROVE Unreplaced(x)'
        BY <1>0, <1>5, <2>2, <3>2, <3>3, UnreplacedKept DEF OpeningsKnow
      <3> QED BY <2>2, <3>3 DEF Unreplaced, Replaced
    <2> QED BY <1>2, <1>5, <2>1, <2>2
  <1> QED BY <1>1, <1>4, <1>5 DEF OpeningsKnow

(* Of those who replace the same opening balances only one succeeds,       *)
(* although reversals and hand-entered journals do not take the lock.      *)
THEOREM OpeningsNotLost == Spec => OpeningReplacedOnce
  <1>1. Init => OpeningsKnow
    BY DEF Init, OpeningsKnow, Idle
  <1>2. IInv /\ IInv' /\ OpeningsKnow /\ [Next]_vars => OpeningsKnow'
    BY OpeningsKnowStep
  <1> DEFINE Replaces ==
        \A r \in Requests :
           /\ req[r].pc = "locked"
           /\ req'[r] = Idle
           /\ Len(journals') > Len(journals)
           => IF req[r].target = 0
              THEN \A i \in ActiveOpenings : journals[i].uuid # RandomUuid
              ELSE ~Replaced(req[r].target)
  <1>3. OpeningsKnow /\ [Next]_vars => [Replaces]_vars
    BY DEF OpeningsKnow, Unreplaced
  <1> QED
    BY <1>1, <1>2, <1>3, Inductive, PTL DEF Spec, OpeningReplacedOnce

-----------------------------------------------------------------------------
(* The ledger.                                                             *)

PostedIds == {k \in JournalIds : journals[k].status = "POSTED"}

(* What a step does to the book: nothing, or it adds entries to it. *)
LEMMA BookStep ==
  ASSUME IInv, [Next]_vars
  PROVE  /\ PostedIds \subseteq PostedIds'
         /\ \A i \in PostedIds : journals'[i] = journals[i]
         /\ \A i \in PostedIds' \ PostedIds :
                journals'[i].reversalOf # 0 => journals'[i].reversalOf \in PostedIds
  <1>0. TypeOK /\ RequestsWF /\ ReversalsCorrectPosted /\ Len(journals) \in Nat
    BY LenProperties DEF IInv, TypeOK
  <1>1. CASE Untouched
    BY <1>1 DEF Untouched, PostedIds, JournalIds
  <1>2. ASSUME NEW r \in Requests, AddsRow(req[r])
        PROVE  /\ PostedIds \subseteq PostedIds'
               /\ \A i \in PostedIds : journals'[i] = journals[i]
               /\ \A i \in PostedIds' \ PostedIds :
                      journals'[i].reversalOf # 0 => journals'[i].reversalOf \in PostedIds
    <2> DEFINE last == Len(journals) + 1
    <2>1. /\ JournalIds' = JournalIds \cup {last}
          /\ \A i \in JournalIds : journals'[i] = journals[i]
      BY <1>0, <1>2 DEF AddsRow, KeepsRows, JournalIds
    <2>2. journals'[last].reversalOf = 0
      BY <1>2 DEF AddsRow, RowOf
    <2> HIDE DEF last
    <2> QED BY <2>1, <2>2 DEF PostedIds
  <1>3. ASSUME NEW n, NEW st, NEW u, Decides(n, st, u)
        PROVE  /\ PostedIds \subseteq PostedIds'
               /\ \A i \in PostedIds : journals'[i] = journals[i]
               /\ \A i \in PostedIds' \ PostedIds :
                      journals'[i].reversalOf # 0 => journals'[i].reversalOf \in PostedIds
    <2>1. JournalIds' = JournalIds
      BY <1>3 DEF Decides, JournalIds
    <2>2. \A k \in JournalIds :
            /\ journals'[k].reversalOf = journals[k].reversalOf
            /\ journals[k].status = "POSTED" => journals'[k] = journals[k]
      BY <1>0, <1>3, DecidesFields
    <2>3. \A k \in JournalIds : journals[k].reversalOf # 0 => k \in PostedIds
      BY <1>0 DEF ReversalsCorrectPosted, PostedIds
    <2> QED BY <2>1, <2>2, <2>3 DEF PostedIds
  <1>4. CASE AddsServerRows
    <2>1. /\ JournalIds \subseteq JournalIds'
          /\ \A i \in JournalIds : journals'[i] = journals[i]
          /\ \A i \in JournalIds' \ JournalIds : ServerRow(journals'[i])
      BY <1>0, <1>4 DEF AddsServerRows, KeepsRows, JournalIds
    <2> QED BY <2>1 DEF PostedIds, ServerRow
  <1> QED BY <1>0, <1>1, <1>2, <1>3, <1>4, TableStep

(* The posted journals are an append-only ledger. *)
THEOREM LedgerImplemented == Spec => ImplementsLedger
  <1> DEFINE book == [i \in PostedIds |-> journals[i]]
  <1>1. Init => Book!LedgerInit
    BY DEF Init, Book!LedgerInit, JournalIds
  <1>2. ASSUME IInv, [Next]_vars PROVE [Book!Post]_book
    <2>1. /\ PostedIds \subseteq PostedIds'
          /\ \A i \in PostedIds : journals'[i] = journals[i]
          /\ \A i \in PostedIds' \ PostedIds :
                 journals'[i].reversalOf # 0 => journals'[i].reversalOf \in PostedIds
      BY <1>2, BookStep
    <2>2. CASE PostedIds' = PostedIds
      <3>1. book' = book
        BY <2>1, <2>2
      <3> QED BY <3>1
    <2>3. CASE PostedIds' # PostedIds
      <3>1. DOMAIN book = PostedIds /\ DOMAIN book' = PostedIds'
        OBVIOUS
      <3>2. \A i \in PostedIds : book'[i] = book[i]
        BY <2>1
      <3>3. \A i \in PostedIds' : book'[i] = journals'[i]
        OBVIOUS
      <3>4. Book!Post
        BY <2>1, <2>3, <3>1, <3>2, <3>3 DEF Book!Post, Book!NewIds, PostedIds
      <3> QED BY <3>4
    <2> QED BY <2>2, <2>3
  <1>3. IInv /\ [Next]_vars => [Book!Post]_book
    BY <1>2
  <1> QED
    BY <1>1, <1>3, Inductive, PTL DEF Spec, ImplementsLedger, Book!LedgerSpec, PostedIds
=============================================================================
