------------------------------- MODULE Chart -------------------------------
(***************************************************************************)
(* One business's chart of accounts: the accounts with their parents and   *)
(* codes, the system keys that say which account the server uses for cash, *)
(* M-Pesa and the rest, and the requests that create, re-parent, re-key    *)
(* and deactivate accounts while onboarding may still be seeding the       *)
(* starter accounts one transaction at a time.                             *)
(*                                                                         *)
(* PATCH /accounts/{id} checks what it asks for against a snapshot of the  *)
(* chart and writes in a later transaction, under two locks: the row, then *)
(* (to move a key) the advisory lock system_account:<tenant>.  Names, tags *)
(* and currencies are left out, and is_postable with them: no request      *)
(* makes a header account.                                                 *)
(***************************************************************************)
EXTENDS Naturals, Sequences

CONSTANTS
    Ids,        \* ids accounts may get
    Codes,      \* account codes
    Creations,  \* the accounts requests ask for: type and code
    Patches,    \* the changes requests ask for: parent, key and code
    Requests,   \* requests the servers work on
    Starter,    \* the accounts of the business's template, in order
    FreeCodes,  \* the codes a server-made account tries, in order
    VatRegistered,
    Keep,       \* a field a PATCH leaves out
    None

VARIABLES
    accounts,   \* the row of each account
    chartLock,  \* who holds system_account:<tenant>
    request,    \* what each request is doing
    seeded,     \* how far down the template onboarding has got
    treeRaced   \* history: a re-parenting overtook another one's check

vars == <<accounts, chartLock, request, seeded, treeRaced>>

-----------------------------------------------------------------------------
(* The catalogue.                                                          *)

AccountTypes == {"ASSET", "LIABILITY", "EQUITY", "INCOME", "EXPENSE"}

SystemKeys == {"MPESA", "OPENING_BALANCE", "RECEIVABLE", "PAYABLE",
               "VAT_INPUT", "VAT_OUTPUT", "CASH", "BANK"}

(* The keys the server makes an account for, and keeps where they are. *)
AssignableKeys == SystemKeys \ {"MPESA", "OPENING_BALANCE"}

SystemType(key) ==
    CASE key \in {"PAYABLE", "VAT_OUTPUT"} -> "LIABILITY"
      [] key = "OPENING_BALANCE" -> "EQUITY"
      [] OTHER -> "ASSET"

(* The places in the template of the accounts the business gets. *)
TemplateAccounts == {i \in 1 .. Len(Starter) : VatRegistered \/ ~Starter[i].vatOnly}

Account == [type : AccountTypes, parent : Ids \cup {None}, code : Codes,
            key : SystemKeys \cup {None}, active : BOOLEAN]

(* What POST and PATCH take; a field Keep is left out. *)
NewAccount == [type : AccountTypes, code : Codes]
Patch == [parent : Ids \cup {None, Keep}, key : AssignableKeys \cup {Keep},
          code : Codes \cup {Keep}]

StarterAccount == [type : AccountTypes, code : Codes, vatOnly : BOOLEAN,
                   key : SystemKeys \cup {None}]

(* A request: its step, the account it works on, the fields it writes, the *)
(* accounts it takes the key off, and history: what others changed of what *)
(* it read since it checked.                                               *)
Request ==
    [pc : {"idle", "checked", "row", "chart", "ready", "lookup", "insert",
           "looping", "done", "code_taken", "key_taken", "deadlock"},
     account : Ids \cup {None},
     parent : Ids \cup {None, Keep},
     key : SystemKeys \cup {Keep},
     code : Codes \cup {Keep},
     freed : SUBSET Ids,
     missed : SUBSET (Ids \cup SystemKeys \cup {"tree"})]

ASSUME ChartAssumption ==
    /\ None \notin Ids \cup Codes \cup SystemKeys \cup Requests
    /\ Keep \notin Ids \cup Codes \cup SystemKeys \cup {None}
    /\ None \notin Account
    /\ Ids \cap (SystemKeys \cup {"tree"}) = {}
    /\ Creations \subseteq NewAccount
    /\ Patches \subseteq Patch
    /\ Starter \in Seq(StarterAccount)
    /\ \A i \in 1 .. Len(Starter) :
            Starter[i].key # None => Starter[i].type = SystemType(Starter[i].key)
    /\ FreeCodes \in [SystemKeys -> Seq(Codes)]
    /\ VatRegistered \in BOOLEAN

-----------------------------------------------------------------------------
(* Reading the chart.                                                      *)

Known == {a \in Ids : accounts[a] # None}
Free == Ids \ Known
NewId == CHOOSE a \in Ids : a \in Free

CodeTaken(c) == \E a \in Known : accounts[a].code = c
Holders(k) == {a \in Known : accounts[a].key = k}

Parent(a) == accounts[a].parent

(* Walking up from a: the accounts met. *)
Ancestors(a) ==
    {b \in Known : \A S \in SUBSET Known :
        (a \in S /\ \A c \in S : Parent(c) \in Known => Parent(c) \in S) => b \in S}

(* The walk stops at the account it looks for or at a top-level account. *)
WalkEnds(from, at) ==
    \E b \in Ancestors(from) : b = at \/ Parent(b) = None

-----------------------------------------------------------------------------
(* Requests.                                                               *)

Idle == [pc |-> "idle", account |-> None, parent |-> Keep, key |-> Keep,
         code |-> Keep, freed |-> {}, missed |-> {}]

At(r, pc) == request[r].pc = pc
Goto(r, pc) == request' = [request EXCEPT ![r].pc = pc]

InFlight(q) == q.pc \in {"checked", "row", "chart", "ready", "insert"}

(* The rows a request holds: SELECT ... FOR UPDATE takes its own, freeing  *)
(* the key those of the accounts that had it.                              *)
Locked(r) ==
    IF request[r].pc \in {"row", "chart", "ready"}
    THEN {request[r].account} \cup request[r].freed ELSE {}

LockedByOther(a, r) == \E q \in Requests \ {r} : a \in Locked(q)

(* r ends; the others find out too late what it committed. *)
Committed(r, changed) ==
    request' = [q \in Requests |->
        IF q = r THEN [request[q] EXCEPT !.pc = "done"]
        ELSE IF InFlight(request[q])
             THEN [request[q] EXCEPT !.missed = @ \cup changed]
             ELSE request[q]]

Release(r) == chartLock' = IF chartLock = r THEN None ELSE chartLock

Insert(type, parent, code, key) ==
    accounts' = [accounts EXCEPT ![NewId] =
        [type |-> type, parent |-> parent, code |-> code, key |-> key,
         active |-> TRUE]]

-----------------------------------------------------------------------------
(* Onboarding seeds the template, each account in a transaction of its     *)
(* own.  It may die at any point, and fails when a code or a key is there. *)

Seed ==
    /\ Free # {}
    /\ \E i \in TemplateAccounts :
        LET starter == Starter[i]
        IN  /\ i > seeded /\ \A j \in TemplateAccounts : j > seeded => i <= j
            /\ ~CodeTaken(starter.code)
            /\ starter.key # None => Holders(starter.key) = {}
            /\ Insert(starter.type, None, starter.code, starter.key)
            /\ Committed(None, {starter.key} \ {None})
            /\ seeded' = i
    /\ UNCHANGED <<chartLock, treeRaced>>

-----------------------------------------------------------------------------
(* POST /accounts.  The parent is read in a transaction of its own, but    *)
(* accounts are never deleted and never change their type.                 *)

CreateAccount(r, new, parent) ==
    /\ At(r, "idle")
    /\ Free # {}
    /\ parent # None => parent \in Known /\ accounts[parent].type = new.type
    /\ ~CodeTaken(new.code)
    /\ Insert(new.type, parent, new.code, None)
    /\ Goto(r, "done")
    /\ UNCHANGED <<chartLock, seeded, treeRaced>>

-----------------------------------------------------------------------------
(* PATCH /accounts/{id}.                                                   *)

(* Mutant: only the direct parent is compared. *)
ParentAllowedShallow(a, p) ==
    p \in Known /\ accounts[p].type = accounts[a].type /\ a # p

(* A new parent: of the account's type, and not the account or below it. *)
ParentAllowed(a, p) ==
    /\ p \in Known
    /\ accounts[p].type = accounts[a].type
    /\ a \notin Ancestors(p)

(* Mutant: an account may give up a key it has for another one. *)
KeyAllowedOver(a, k) ==
    k \in AssignableKeys /\ accounts[a].type = SystemType(k) /\ accounts[a].active

KeyAllowed(a, k) ==
    /\ k \in AssignableKeys
    /\ accounts[a].type = SystemType(k)
    /\ accounts[a].active
    /\ accounts[a].key \in {None, k}

CheckUpdate(r, a, patch) ==
    /\ At(r, "idle")
    /\ a \in Known
    /\ patch.parent \in Ids => /\ WalkEnds(patch.parent, a)
                               /\ ParentAllowed(a, patch.parent)
    /\ patch.key # Keep => KeyAllowed(a, patch.key)
    /\ request' = [request EXCEPT ![r] =
        [Idle EXCEPT !.pc = "checked", !.account = a, !.parent = patch.parent,
                     !.key = patch.key, !.code = patch.code]]
    /\ UNCHANGED <<accounts, chartLock, seeded, treeRaced>>

(* The walk up from the new parent never ends: it goes round a cycle the   *)
(* account is not on, and with it the server that runs the loop.           *)
Loop(r, a, parent) ==
    /\ At(r, "idle")
    /\ a \in Known /\ parent \in Known
    /\ accounts[parent].type = accounts[a].type
    /\ ~WalkEnds(parent, a)
    /\ Goto(r, "looping")
    /\ UNCHANGED <<accounts, chartLock, seeded, treeRaced>>

LockRow(r) ==
    /\ At(r, "checked")
    /\ ~LockedByOther(request[r].account, r)
    /\ Goto(r, IF request[r].key = Keep THEN "ready" ELSE "row")
    /\ UNCHANGED <<accounts, chartLock, seeded, treeRaced>>

(* Mutant: the advisory lock is not waited for. *)
LockChartNever(r) ==
    At(r, "row") /\ Goto(r, "chart") /\ UNCHANGED <<accounts, chartLock, seeded, treeRaced>>

LockChart(r) ==
    /\ At(r, "row")
    /\ chartLock = None
    /\ chartLock' = r
    /\ Goto(r, "chart")
    /\ UNCHANGED <<accounts, seeded, treeRaced>>

(* UPDATE ... SET system_key = NULL waits for the row that has the key. *)
FreeKey(r) ==
    LET others == Holders(request[r].key) \ {request[r].account}
    IN  /\ At(r, "chart")
        /\ \A a \in others : ~LockedByOther(a, r)
        /\ request' = [request EXCEPT ![r].pc = "ready", ![r].freed = others]
        /\ UNCHANGED <<accounts, chartLock, seeded, treeRaced>>

(* What the statement makes of account a. *)
Updated(a, q) ==
    IF a = q.account
    THEN [accounts[a] EXCEPT
            !.code = IF q.code = Keep THEN @ ELSE q.code,
            !.key = IF q.key = Keep THEN @ ELSE q.key,
            !.parent = IF q.parent = Keep THEN @ ELSE q.parent]
    ELSE IF a \in q.freed THEN [accounts[a] EXCEPT !.key = None] ELSE accounts[a]

Changed(q) ==
    (IF q.parent \in Ids THEN {"tree"} ELSE {})
        \cup (IF q.key = Keep THEN {} ELSE {q.account} \cup q.freed)

(* The unique indexes on the code and on the key. *)
Outcome(q) ==
    IF q.code # Keep /\ \E a \in Known \ {q.account} : accounts[a].code = q.code
    THEN "code_taken"
    ELSE IF q.key # Keep /\ ~(Holders(q.key) \subseteq {q.account} \cup q.freed)
         THEN "key_taken" ELSE "ok"

CommitUpdate(r) ==
    LET q == request[r]
        ok == Outcome(q) = "ok"
    IN  /\ At(r, "ready")
        /\ accounts' = IF ok THEN [a \in Ids |-> Updated(a, q)] ELSE accounts
        /\ treeRaced' = (treeRaced \/ (ok /\ q.parent \in Ids /\ "tree" \in q.missed))
        /\ IF ok THEN Committed(r, Changed(q)) ELSE Goto(r, Outcome(q))
        /\ Release(r)
        /\ UNCHANGED seeded

(* r waits for the advisory lock and q, which has it, for the row of r: the *)
(* database aborts one of them.                                             *)
Deadlocked(r, q) ==
    /\ At(r, "row") /\ At(q, "chart") /\ chartLock = q
    /\ request[r].account \in Holders(request[q].key)

AbortDeadlock(r) ==
    /\ \E q \in Requests : Deadlocked(r, q) \/ Deadlocked(q, r)
    /\ Goto(r, "deadlock")
    /\ Release(r)
    /\ UNCHANGED <<accounts, seeded, treeRaced>>

-----------------------------------------------------------------------------
(* Deactivating and reactivating: one statement, no look at the key.       *)

SetActive(r, a, active) ==
    /\ At(r, "idle")
    /\ a \in Known
    /\ ~LockedByOther(a, r)
    /\ accounts' = [accounts EXCEPT ![a].active = active]
    /\ Committed(r, {a})
    /\ UNCHANGED <<chartLock, seeded, treeRaced>>

Deactivate(r, a) == SetActive(r, a, FALSE)
Reactivate(r, a) == SetActive(r, a, TRUE)

-----------------------------------------------------------------------------
(* The account the server makes itself, on first use.                      *)

FindSystemAccount(r, key) ==
    /\ At(r, "idle")
    /\ key \in SystemKeys \ AssignableKeys
    /\ Holders(key) = {}
    /\ request' = [request EXCEPT ![r] = [Idle EXCEPT !.pc = "lookup", !.key = key]]
    /\ UNCHANGED <<accounts, chartLock, seeded, treeRaced>>

(* The first of the codes it tries that no account has, if there is one. *)
FreeCode(key) ==
    {FreeCodes[key][i] : i \in {j \in DOMAIN FreeCodes[key] :
        /\ ~CodeTaken(FreeCodes[key][j])
        /\ \A h \in 1 .. (j - 1) : CodeTaken(FreeCodes[key][h])}}

(* Under the lock: look again, then pick the first free code. *)
LockForCreate(r) ==
    LET key == request[r].key
    IN  /\ At(r, "lookup")
        /\ chartLock = None
        /\ IF Holders(key) # {} \/ FreeCode(key) = {}
           THEN Goto(r, "done") /\ UNCHANGED chartLock
           ELSE /\ \E code \in FreeCode(key) :
                     request' = [request EXCEPT ![r].pc = "insert", ![r].code = code]
                /\ chartLock' = r
        /\ UNCHANGED <<accounts, seeded, treeRaced>>

(* POST /accounts takes no lock: it may have taken the code meanwhile. *)
InsertSystemAccount(r) ==
    LET q == request[r]
    IN  /\ At(r, "insert")
        /\ Free # {}
        /\ IF CodeTaken(q.code) \/ Holders(q.key) # {}
           THEN /\ Goto(r, IF CodeTaken(q.code) THEN "code_taken" ELSE "key_taken")
                /\ UNCHANGED accounts
           ELSE /\ Insert(SystemType(q.key), None, q.code, q.key)
                /\ Goto(r, "done")
        /\ Release(r)
        /\ UNCHANGED <<seeded, treeRaced>>

-----------------------------------------------------------------------------

Init ==
    /\ accounts = [a \in Ids |-> None]
    /\ chartLock = None
    /\ request = [r \in Requests |-> Idle]
    /\ seeded = 0
    /\ treeRaced = FALSE

Begin(r) ==
    \/ \E new \in Creations, p \in Known \cup {None} : CreateAccount(r, new, p)
    \/ \E a \in Known, patch \in Patches : CheckUpdate(r, a, patch)
    \/ \E a \in Known, patch \in Patches : Loop(r, a, patch.parent)
    \/ \E a \in Known : Deactivate(r, a) \/ Reactivate(r, a)
    \/ \E k \in SystemKeys : FindSystemAccount(r, k)

Proceed(r) ==
    \/ LockRow(r) \/ LockChart(r) \/ FreeKey(r) \/ CommitUpdate(r)
    \/ AbortDeadlock(r) \/ LockForCreate(r) \/ InsertSystemAccount(r)

(* The walk of a looping request keeps the server from everything else. *)
Running == \A r \in Requests : ~At(r, "looping")

Next == Running /\ (Seed \/ \E r \in Requests : Begin(r) \/ Proceed(r))

Spec == Init /\ [][Next]_vars

-----------------------------------------------------------------------------
(* Properties.                                                             *)

(* Every account, lock and request has its type. *)
TypeOK ==
    /\ accounts \in [Ids -> Account \cup {None}]
    /\ chartLock \in Requests \cup {None}
    /\ request \in [Requests -> Request]
    /\ seeded \in 0 .. Len(Starter)
    /\ treeRaced \in BOOLEAN

Acyclic ==
    \A S \in SUBSET Known : S # {} => \E a \in S : Parent(a) \notin S

(* An account is of its parent's type, and no account is below itself      *)
(* unless two requests re-parented at once: the check of a new parent runs *)
(* before the transaction that writes it.                                  *)
CyclesOnlyInARace ==
    /\ \A a \in Known : Parent(a) # None =>
            Parent(a) \in Known /\ accounts[Parent(a)].type = accounts[a].type
    /\ Acyclic \/ treeRaced

(* A purpose has one account, of the type it needs, and no request fails   *)
(* on the unique index of the keys: the advisory lock sees to that, except *)
(* against onboarding, which seeds the same keys without it.               *)
KeysNeverCollide ==
    /\ \A a, b \in Known : accounts[a].key = accounts[b].key /\ accounts[a].key # None => a = b
    /\ \A a \in Known : accounts[a].key # None => accounts[a].type = SystemType(accounts[a].key)
    /\ \A r \in Requests : At(r, "key_taken") => request[r].key \in request[r].missed

(* A purpose that has an account keeps one: a PATCH moves the key, and it  *)
(* is lost only when the account was given another key after the check.    *)
KeysStayHeld ==
    [][\A k \in SystemKeys : Holders(k) # {} =>
        \/ Holders(k)' # {}
        \/ \E r \in Requests : At(r, "ready") /\ request[r].account \in request[r].missed]_vars

(* What the comment on PATCH /accounts/{id} promises of a parent: it is    *)
(* never the account itself or one of its descendants.                     *)
NeverUnderItself == Acyclic
=============================================================================
