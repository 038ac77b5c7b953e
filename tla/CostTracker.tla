----------------------------- MODULE CostTracker -----------------------------
(***************************************************************************)
(* CostTracker: what a task has cost, in memory per session and in total,   *)
(* and in the task's row.  Totals are written without being awaited every   *)
(* time they pass a cent; a launch from a later phase reads them back.      *)
(*                                                                         *)
(* Money is counted in units, UnitsPerCent of them a cent.  Tokens are      *)
(* added, written and read back with the money and are left out.            *)
(***************************************************************************)
EXTENDS Naturals, FiniteSets, FiniteSetsExt

CONSTANTS
    CostSessions,   \* sessions of the task
    Charges,        \* what one step_finish may cost, in units
    UnitsPerCent,   \* units in a cent
    MaxSpent        \* bound: units spent

ASSUME CostConstants ==
    /\ IsFiniteSet(CostSessions) /\ Charges \subseteq Nat \ {0}
    /\ UnitsPerCent \in Nat \ {0} /\ MaxSpent \in Nat

VARIABLES
    ledger,     \* taskCosts: NoLedger, or the total and the sessions' costs
    costRow,    \* total_cost of the row
    writes,     \* UPDATEs under way: the amount, and whether the worker awaits it
    costJob,    \* the worker's job: "none", "restoring", "running" or "ending"
    spent,      \* units spent so far (ground truth)
    restored,   \* units the ledger was restored with
    doubtful    \* a write failed, writes overlapped, or a launch did not restore

costVars == <<ledger, costRow, writes, costJob, spent, restored, doubtful>>

NoLedger == [total |-> 0, sessions |-> <<>>]
NewLedger(total) == [total |-> total, sessions |-> [s \in CostSessions |-> 0]]
Cents(units) == units \div UnitsPerCent

Ledgers == [total : 0..MaxSpent, sessions : [CostSessions -> 0..MaxSpent]]

CostTypeOK ==
    /\ ledger \in Ledgers \cup {NoLedger}
    /\ costRow \in 0..MaxSpent
    /\ writes \subseteq [amount : 0..MaxSpent, awaited : BOOLEAN]
    /\ costJob \in {"none", "restoring", "running", "ending"}
    /\ spent \in 0..MaxSpent /\ restored \in 0..MaxSpent
    /\ doubtful \in BOOLEAN

CostInit ==
    /\ ledger = NoLedger /\ costRow = 0 /\ writes = {}
    /\ costJob = "none"
    /\ spent = 0 /\ restored = 0 /\ doubtful = FALSE

-----------------------------------------------------------------------------
(* A job without startFromPhase goes on with whatever is in memory. *)
LaunchFresh ==
    /\ costJob = "none"
    /\ costJob' = "running"
    /\ doubtful' = (doubtful \/ (ledger = NoLedger /\ costRow > 0))
    /\ UNCHANGED <<ledger, costRow, writes, spent, restored>>

(* taskCosts.has(taskId) *)
HasLedger == ledger # NoLedger

(* A job from a later phase: restoreCostsFromDb up to its await. *)
LaunchResumed ==
    /\ costJob = "none"
    /\ costJob' = IF HasLedger THEN "running" ELSE "restoring"
    /\ UNCHANGED <<ledger, costRow, writes, spent, restored, doubtful>>

(* loadCostFromDb answers, or fails and answers null.  A row of zeros is not
   restored; sessions are not in the row. *)
RestoreCosts(loaded) ==
    /\ costJob = "restoring"
    /\ costJob' = "running"
    /\ IF loaded /\ costRow > 0
       THEN ledger' = NewLedger(costRow) /\ restored' = costRow
       ELSE UNCHANGED <<ledger, restored>>
    /\ doubtful' = (doubtful \/ (~loaded /\ costRow > 0))
    /\ UNCHANGED <<costRow, writes, spent>>

(* persistCostToDb up to its await. *)
PersistCostToDb(amount, awaited) ==
    /\ writes' = writes \cup {[amount |-> amount, awaited |-> awaited]}
    /\ doubtful' = (doubtful \/ writes # {})

(* The cents of the total before and after a charge differ. *)
PassesCent(before, after) == Cents(before) # Cents(after)

(* The ledger with a charge added to the session and to the total. *)
Charge(s, c) ==
    LET old == IF HasLedger THEN ledger ELSE NewLedger(0)
    IN [total |-> old.total + c, sessions |-> [old.sessions EXCEPT ![s] = @ + c]]

(* recordCost, from a step_finish event of a registered session. *)
RecordCost(s, c) ==
    /\ costJob = "running"
    /\ spent + c <= MaxSpent
    /\ spent' = spent + c
    /\ ledger' = Charge(s, c)
    /\ IF PassesCent(ledger.total, ledger'.total)
       THEN PersistCostToDb(ledger'.total, FALSE)
       ELSE UNCHANGED <<writes, doubtful>>
    /\ UNCHANGED <<costRow, costJob, restored>>

(* Mutant of RowAfter: the UPDATE adds to what the row holds. *)
Bug_Increments(w) == costRow + w.amount

(* The UPDATE replaces the total. *)
RowAfter(w) == w.amount

(* An UPDATE of the row is done, in whatever order the pool runs them; or it
   fails, which is logged.  The worker goes on when it is its own. *)
EndWrite(w, ok) ==
    /\ writes' = writes \ {w}
    /\ costRow' = IF ok THEN RowAfter(w) ELSE costRow
    /\ doubtful' = (doubtful \/ ~ok)
    /\ costJob' = IF w.awaited THEN "none" ELSE costJob
    /\ UNCHANGED <<ledger, spent, restored>>

(* The job is over: the worker persists the total and awaits it. *)
EndJob ==
    /\ costJob = "running"
    /\ IF ~HasLedger
       THEN costJob' = "none" /\ UNCHANGED <<writes, doubtful>>
       ELSE costJob' = "ending" /\ PersistCostToDb(ledger.total, TRUE)
    /\ UNCHANGED <<ledger, costRow, spent, restored>>

(* The server dies: an UPDATE under way reaches the row or does not. *)
CostCrash ==
    /\ ledger' = NoLedger /\ restored' = 0 /\ costJob' = "none"
    /\ writes' = {}
    /\ costRow' \in {costRow} \cup {RowAfter(w) : w \in writes}
    /\ doubtful' = (doubtful \/ writes # {})
    /\ UNCHANGED spent

CostNext ==
    \/ LaunchFresh \/ LaunchResumed \/ EndJob \/ CostCrash
    \/ \E loaded \in BOOLEAN : RestoreCosts(loaded)
    \/ \E s \in CostSessions : \E c \in Charges : RecordCost(s, c)
    \/ \E w \in writes : \E ok \in BOOLEAN : EndWrite(w, ok)

CostSpec == CostInit /\ [][CostNext]_costVars

-----------------------------------------------------------------------------
(* getTaskCostDetailsAsync: what the user is shown. *)
CostShown == IF HasLedger THEN ledger.total ELSE costRow

(* The total is what was restored plus what the sessions cost, across
   launches, restarts and restores: no charge is booked on one side only. *)
TotalsAddUp == ledger.total = restored + SumFunction(ledger.sessions)

(* The user is never shown, and the row never holds, more than was spent:
   resuming a task does not count its money twice. *)
NeverOvercharged == CostShown <= spent /\ costRow <= spent

(* The row is less than a cent behind the total as long as every launch
   restored it and no write failed or met another one. *)
RowIsCurrent ==
    ~doubtful /\ writes = {} /\ ledger # NoLedger => Cents(costRow) = Cents(ledger.total)

(* Why: what is on its way to the row, and what a session cost, was spent ... *)
WritesAreSpent ==
    /\ \A w \in writes : w.amount <= spent
    /\ ledger # NoLedger => \A s \in CostSessions : ledger.sessions[s] <= ledger.total

(* ... there is nothing to write without a ledger, and a restore begins without ... *)
LedgerFirst == /\ ledger = NoLedger => writes = {}
               /\ costJob = "restoring" => ledger = NoLedger

(* ... and unless in doubt, one write is under way, for the cents of the total,
   and a job without a ledger found an empty row. *)
WriteIsCurrent ==
    ~doubtful =>
        /\ \A w, v \in writes : w = v
        /\ \A w \in writes : Cents(w.amount) = Cents(ledger.total)
        /\ costJob = "running" /\ ledger = NoLedger => costRow = 0

MoneyIsKept ==
    /\ CostTypeOK /\ NeverOvercharged /\ RowIsCurrent
    /\ WritesAreSpent /\ LedgerFirst /\ WriteIsCurrent

(* The ledger, the row and what was spent agree. *)
CostInv == MoneyIsKept /\ TotalsAddUp
=============================================================================
