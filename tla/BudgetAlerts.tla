---------------------------- MODULE BudgetAlerts ----------------------------
(***************************************************************************)
(* Budgets and the alerts they raise: internal/budgets, internal/alerts.   *)
(*                                                                         *)
(* What has been spent is not stored: every answer that carries a budget   *)
(* sums it from the transactions and, as a side effect, raises an alert    *)
(* when the budget is nearly or wholly used up.  Nothing here runs in a    *)
(* database transaction, so an overlapping request, a new expense or       *)
(* midnight can come between any two statements.                           *)
(*                                                                         *)
(* The module shows the budgets and alerts of one user: every statement of *)
(* both packages has user_id = ? in its WHERE clause.                      *)
(***************************************************************************)
EXTENDS Integers, Sequences, FiniteSets, Functions

CONSTANTS
    Slots,        \* request goroutines
    Categories,   \* the expense categories of the user
    Uncategorised,\* the expenses whose category_id is NULL
    Limits,       \* amounts a budget may have, in cents
    SpentValues,  \* bound: what a category's expenses may add up to, in cents
    MaxBudgets,   \* bound: budgets ever created
    MaxAlerts,    \* bound: alerts ever raised
    None          \* no row, no category

BudgetIds == 1 .. MaxBudgets
AlertIds == 1 .. MaxAlerts
AlertTypes == {"budget_warning", "budget_exceeded"}

(* The table budgets.  cat = None: all expenses count; live is deleted_at  *)
(* IS NULL.  The first and the last day of a budget are stored, and no     *)
(* code looks at them again.                                               *)
Budget == [cat : Categories \union {None}, limit : Limits,
           active : BOOLEAN, live : BOOLEAN]

(* The table alerts.  Deleted alerts are gone.                             *)
Alert == [budget : BudgetIds, type : AlertTypes, read : BOOLEAN]

ASSUME BudgetAlertsAssumption ==
    /\ IsFiniteSet(Slots)
    /\ Limits \subseteq Nat \ {0}
    /\ SpentValues \subseteq Nat
    /\ 0 \in SpentValues
    /\ Uncategorised \notin Categories
    /\ None \notin Categories \union Budget \union Alert
    /\ MaxBudgets \in Nat /\ MaxAlerts \in Nat

VARIABLES
    budget,      \* the table budgets
    nextBudget,  \* its sequence
    alert,       \* the table alerts
    nextAlert,   \* its sequence
    category,    \* the categories that exist
    spent,       \* what the expenses of a category add up to in the period
    pc,          \* what each slot does next
    todo,        \* the budgets it still has to answer, as it has read them
    due,         \* the type of the alert it is about to raise
    wasDue,      \* history: the alerts that have ever been called for
    stale        \* history: the slots with a budget that changed since they read it

vars == <<budget, nextBudget, alert, nextAlert, category, spent, pc, todo,
          due, wasDue, stale>>
tables == <<budget, nextBudget, alert, nextAlert>>
world == <<category, spent>>

(* A budget as a request has read it.                                      *)
Copy == [id : BudgetIds, row : Budget]

TypeOK ==
    /\ budget \in [BudgetIds -> Budget \union {None}]
    /\ nextBudget \in 1 .. MaxBudgets + 1
    /\ alert \in [AlertIds -> Alert \union {None}]
    /\ nextAlert \in 1 .. MaxAlerts + 1
    /\ category \subseteq Categories
    /\ spent \in [Categories \union {Uncategorised} -> SpentValues]
    /\ pc \in [Slots -> {"idle", "reread", "spent", "check", "insert"}]
    /\ todo \in [Slots -> Seq(Copy)]
    /\ due \in [Slots -> AlertTypes \union {None}]
    /\ \A s \in Slots :
         /\ pc[s] \in {"reread", "spent", "check", "insert"} => todo[s] # <<>>
         /\ pc[s] \in {"check", "insert"} => due[s] # None

-----------------------------------------------------------------------------
Live(b) == budget[b] # None /\ budget[b].live
Read(b) == [id |-> b, row |-> budget[b]]

(* GetSpentAmount: what is spent on a category, or on everything.          *)
AddedUp(f) == FoldFunction(+, 0, f)
SpentOn(cat) == IF cat = None THEN AddedUp(spent) ELSE spent[cat]

(* PercentUsed, in hundredths of a percent and rounded half up.            *)
PercentUsed(limit, total) == (20000 * total + limit) \div (2 * limit)

(* Which alert a budget calls for, if any.                                 *)
AlertFor(limit, total) ==
    IF total >= limit THEN "budget_exceeded"
    ELSE IF PercentUsed(limit, total) >= 8000 THEN "budget_warning"
    ELSE None

Unread(b, t) ==
    {i \in AlertIds :
        alert[i] # None /\ alert[i].budget = b /\ alert[i].type = t
        /\ ~alert[i].read}

ExistsUnreadForBudget_Read(b, t) ==
    \E i \in AlertIds :
        alert[i] # None /\ alert[i].budget = b /\ alert[i].type = t
        /\ alert[i].read

ExistsUnreadForBudget(b, t) == Unread(b, t) # {}

Init ==
    /\ budget = [b \in BudgetIds |-> None]
    /\ nextBudget = 1
    /\ alert = [i \in AlertIds |-> None]
    /\ nextAlert = 1
    /\ category = Categories
    /\ spent = [c \in Categories \union {Uncategorised} |-> 0]
    /\ pc = [s \in Slots |-> "idle"]
    /\ todo = [s \in Slots |-> <<>>]
    /\ due = [s \in Slots |-> None]
    /\ wasDue = {}
    /\ stale = {}

-----------------------------------------------------------------------------
(* Requests about budgets.  Each starts with its first statement.  Here    *)
(* and above, X_HowItIsWrong is a wrong variant of X: a slip one could     *)
(* make in the code, which the properties are checked to notice.           *)

(* The budgets q are to be answered one after the other.                   *)
Answer(s, q) ==
    /\ pc' = [pc EXCEPT ![s] = IF q = <<>> THEN "idle" ELSE "spent"]
    /\ todo' = [todo EXCEPT ![s] = q]
    /\ due' = [due EXCEPT ![s] = None]

CreateBudget(s) ==
    /\ pc[s] = "idle"
    /\ nextBudget <= MaxBudgets
    /\ nextBudget' = nextBudget + 1
    /\ \E c \in category \union {None}, m \in Limits :
         LET new == [cat |-> c, limit |-> m, active |-> TRUE, live |-> TRUE]
         IN  /\ budget' = [budget EXCEPT ![nextBudget] = new]
             /\ Answer(s, <<[id |-> nextBudget, row |-> new]>>)
    /\ UNCHANGED <<alert, nextAlert, world>>

GetBudget(s) ==
    /\ pc[s] = "idle"
    /\ \E b \in BudgetIds : Live(b) /\ Answer(s, <<Read(b)>>)
    /\ UNCHANGED <<tables, world>>

(* All of them, newest first, which is the order of the ids.              *)
ListBudgets(s) ==
    LET live == {b \in BudgetIds : Live(b)}
        places == 1 .. Cardinality(live)
    IN
    /\ pc[s] = "idle"
    /\ \E q \in [places -> live] :
         /\ \A j, k \in places : j < k => q[j] > q[k]
         /\ Answer(s, [k \in places |-> Read(q[k])])
    /\ UNCHANGED <<tables, world>>

(* A row after an update; None stands for a field that was not sent.       *)
Updated(r, m, on) ==
    [r EXCEPT !.limit  = IF m # None THEN m ELSE @,
              !.active = IF on # None THEN on ELSE @]

(* One UPDATE of the fields that were sent, be it only the name, period or *)
(* end_date; then the row is read again.                                   *)
UpdateBudget(s) ==
    /\ pc[s] = "idle"
    /\ \E b \in BudgetIds, m \in Limits \union {None},
          on \in BOOLEAN \union {None} :
         /\ Live(b)
         /\ budget' = [budget EXCEPT ![b] = Updated(@, m, on)]
         /\ todo' = [todo EXCEPT ![s] = <<Read(b)'>>]
    /\ pc' = [pc EXCEPT ![s] = "reread"]
    /\ UNCHANGED <<nextBudget, alert, nextAlert, world, due>>

Reread_OwnCopy(s) ==
    /\ pc[s] = "reread"
    /\ Answer(s, todo[s])
    /\ UNCHANGED <<tables, world>>

Reread(s) ==
    LET b == todo[s][1].id IN
    /\ pc[s] = "reread"
    /\ Answer(s, IF Live(b) THEN <<Read(b)>> ELSE <<>>)
    /\ UNCHANGED <<tables, world>>

Judge_NoDefault(s) ==
    LET row  == todo[s][1].row
        type == AlertFor(row.limit, SpentOn(row.cat))
    IN
    /\ pc[s] = "spent"
    /\ row.active
    /\ pc' = [pc EXCEPT ![s] = "check"]
    /\ due' = [due EXCEPT ![s] = type]
    /\ UNCHANGED <<tables, world, todo>>

(* buildResponse: sum what is spent, and decide whether to raise an alert. *)
Judge(s) ==
    LET row  == todo[s][1].row
        type == AlertFor(row.limit, SpentOn(row.cat))
    IN
    /\ pc[s] = "spent"
    /\ IF row.active /\ type # None
       THEN /\ pc' = [pc EXCEPT ![s] = "check"]
            /\ due' = [due EXCEPT ![s] = type]
            /\ UNCHANGED todo
       ELSE Answer(s, Tail(todo[s]))
    /\ UNCHANGED <<tables, world>>

(* CreateBudgetAlert: look for an unread alert of the type, ...            *)
CheckUnread(s) ==
    /\ pc[s] = "check"
    /\ IF ExistsUnreadForBudget(todo[s][1].id, due[s])
       THEN Answer(s, Tail(todo[s]))
       ELSE /\ pc' = [pc EXCEPT ![s] = "insert"]
            /\ UNCHANGED <<todo, due>>
    /\ UNCHANGED <<tables, world>>

(* ... and insert one if there was none.                                   *)
InsertAlert(s) ==
    /\ pc[s] = "insert"
    /\ nextAlert <= MaxAlerts
    /\ nextAlert' = nextAlert + 1
    /\ alert' = [alert EXCEPT ![nextAlert] =
          [budget |-> todo[s][1].id, type |-> due[s], read |-> FALSE]]
    /\ Answer(s, Tail(todo[s]))
    /\ UNCHANGED <<budget, nextBudget, world>>

(* An alert that cannot be created is logged and forgotten.                *)
AlertFails(s) ==
    /\ pc[s] \in {"check", "insert"}
    /\ Answer(s, Tail(todo[s]))
    /\ UNCHANGED <<tables, world>>

(* Any other failed statement ends the request.                            *)
RequestFails(s) ==
    /\ pc[s] \in {"reread", "spent"}
    /\ Answer(s, <<>>)
    /\ UNCHANGED <<tables, world>>

-----------------------------------------------------------------------------
(* Requests of a single statement; a goroutine must be free for them.      *)

SomeoneServes == \E s \in Slots : pc[s] = "idle"

DeleteBudget(b) ==
    /\ SomeoneServes
    /\ Live(b)
    /\ budget' = [budget EXCEPT ![b].live = FALSE]
    /\ UNCHANGED <<nextBudget, alert, nextAlert, world, pc, todo, due>>

MarkRead(i) ==
    /\ SomeoneServes
    /\ alert[i] # None
    /\ alert' = [alert EXCEPT ![i].read = TRUE]
    /\ UNCHANGED <<budget, nextBudget, nextAlert, world, pc, todo, due>>

MarkAllRead ==
    /\ SomeoneServes
    /\ alert' = [i \in AlertIds |->
                   IF alert[i] = None THEN None
                   ELSE [alert[i] EXCEPT !.read = TRUE]]
    /\ UNCHANGED <<budget, nextBudget, nextAlert, world, pc, todo, due>>

DeleteAlert(i) ==
    /\ SomeoneServes
    /\ alert[i] # None
    /\ alert' = [alert EXCEPT ![i] = None]
    /\ UNCHANGED <<budget, nextBudget, nextAlert, world, pc, todo, due>>

-----------------------------------------------------------------------------
(* The world around: transactions come, change and go, a new period starts *)
(* with nothing spent, and a category is deleted under its budgets and     *)
(* expenses (ON DELETE SET NULL on both foreign keys).                     *)

SpendingChanges ==
    /\ \E c \in category \union {Uncategorised}, v \in SpentValues :
         spent' = [spent EXCEPT ![c] = v]
    /\ UNCHANGED <<tables, category, pc, todo, due>>

CategoryDeleted(c) ==
    /\ SomeoneServes
    /\ c \in category
    /\ category' = category \ {c}
    /\ budget' = [b \in BudgetIds |->
                    IF budget[b] # None /\ budget[b].cat = c
                    THEN [budget[b] EXCEPT !.cat = None] ELSE budget[b]]
    /\ \E v \in SpentValues :
         spent' = [spent EXCEPT ![c] = 0, ![Uncategorised] = v]
    /\ UNCHANGED <<nextBudget, alert, nextAlert, pc, todo, due>>

-----------------------------------------------------------------------------
(* The alerts called for: the budget is spent wholly, or to 80 % (of which  *)
(* the code means the percentage it shows, with two decimals).             *)
CalledFor ==
    {k \in BudgetIds \X AlertTypes :
        /\ Live(k[1])
        /\ LET limit == budget[k[1]].limit
               total == SpentOn(budget[k[1]].cat)
           IN  IF k[2] = "budget_exceeded" THEN total >= limit
               ELSE PercentUsed(limit, total) >= 8000}

Step ==
    \/ \E s \in Slots :
         \/ CreateBudget(s) \/ GetBudget(s) \/ ListBudgets(s)
         \/ UpdateBudget(s) \/ Reread(s) \/ Judge(s) \/ CheckUnread(s)
         \/ InsertAlert(s) \/ AlertFails(s) \/ RequestFails(s)
    \/ \E b \in BudgetIds : DeleteBudget(b)
    \/ \E i \in AlertIds : MarkRead(i) \/ DeleteAlert(i)
    \/ MarkAllRead
    \/ SpendingChanges
    \/ \E c \in Categories : CategoryDeleted(c)

(* The slots with a budget in hand, and of these the ones whose budget      *)
(* changes under them.                                                     *)
AtWork == {s \in Slots : pc[s] \in {"spent", "check", "insert"}}

Outdated ==
    {s \in AtWork : \E k \in DOMAIN todo[s] :
        budget'[todo[s][k].id] # budget[todo[s][k].id]}

Next ==
    /\ Step
    /\ wasDue' = wasDue \union CalledFor'
    /\ stale' = (stale \union Outdated) \intersect AtWork'

Spec == Init /\ [][Next]_vars

-----------------------------------------------------------------------------
(* "Alerts are deduplicated - if an identical unread alert already exists, *)
(* no duplicate is inserted" (README.md:19).                               *)
OneUnreadEach ==
    \A b \in BudgetIds, t \in AlertTypes : Cardinality(Unread(b, t)) <= 1

(* When requests overlap, CreateBudgetAlert may find no unread alert in    *)
(* each of them before any has inserted its own: there can be as many      *)
(* duplicates as requests, and never more, however often budgets are       *)
(* viewed.                                                                 *)
DuplicatesBounded ==
    \A b \in BudgetIds, t \in AlertTypes :
        Cardinality(Unread(b, t)) <= Cardinality(Slots)

(* "budget_warning is raised when spending reaches 80 % of a budget limit" *)
(* and "budget_exceeded when spending equals or exceeds" it                *)
(* (alerts/model.go:12,15): an alert that says what was true at no moment, *)
(* or that is of a deleted budget, comes from a request whose budget was   *)
(* changed or deleted by another while it was at work on it, and from      *)
(* nothing else.                                                           *)
UndueOnlyFromStaleCopy ==
    [][\A i \in AlertIds :
         alert[i] = None /\ alert'[i] # None =>
           \/ /\ <<alert'[i].budget, alert'[i].type>> \in wasDue
              /\ Live(alert'[i].budget)
           \/ \E s \in stale : /\ pc[s] = "insert" /\ pc'[s] # "insert"
                               /\ todo[s][1].id = alert'[i].budget]_vars

=============================================================================
