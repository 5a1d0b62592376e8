------------------------------- MODULE Reports -------------------------------
(***************************************************************************)
(* The monthly summary of internal/reports while transactions of the month *)
(* are written: GetMonthlySummary adds up the income, then the expenses,   *)
(* then the expenses by category, in three statements that each see what   *)
(* is committed when they start.                                           *)
(***************************************************************************)
EXTENDS Integers, FiniteSetsExt

CONSTANTS
    Rows,      \* transactions of the user in the month, at some time
    Amounts,   \* their amounts, in cents
    Cats,      \* categories
    NoCat,     \* category_id IS NULL
    None,      \* no such row, or deleted
    MaxMoved   \* bound: what is written during a report, in cents

Groups == Cats \union {NoCat}

Row == [type : {"income", "expense"}, amount : Amounts, cat : Groups]

VARIABLES
    table,    \* table transactions
    summary,  \* the request: what comes next and what the statements found
    moved     \* ghost: amounts written since the first statement

vars == <<table, summary, moved>>

TypeOK ==
    /\ \A r \in Rows : table[r] = None \/ table[r] \in Row
    /\ summary \in [pc : {"idle", "expense", "category", "done"},
                    income : Nat, expense : Nat, by : [Groups -> Nat]]
    /\ moved \in 0 .. MaxMoved

Nothing == [pc |-> "idle", income |-> 0, expense |-> 0,
            by |-> [g \in Groups |-> 0]]

Init ==
    /\ table = [r \in Rows |-> None]
    /\ summary = Nothing
    /\ moved = 0

-----------------------------------------------------------------------------
Live == {r \in Rows : table[r] # None}

(* COALESCE makes 0 of the sum of no rows.                                 *)
SumOf_NoCoalesce(S) ==
    IF S = {} THEN None ELSE MapThenSumSet(LAMBDA r : table[r].amount, S)

SumOf(S) == MapThenSumSet(LAMBDA r : table[r].amount, S)

Of(type) == {r \in Live : table[r].type = type}

SumIncome ==
    /\ summary.pc = "idle"
    /\ summary' = [summary EXCEPT !.pc = "expense",
                                  !.income = SumOf(Of("income"))]
    /\ UNCHANGED <<table, moved>>

SumExpense ==
    /\ summary.pc = "expense"
    /\ summary' = [summary EXCEPT !.pc = "category",
                                  !.expense = SumOf(Of("expense"))]
    /\ UNCHANGED <<table, moved>>

(* LEFT JOIN categories ... GROUP BY category: the rows without a category *)
(* make a group, "Uncategorized".                                          *)
InGroup_InnerJoin(g) == {r \in Of("expense") : table[r].cat = g /\ g # NoCat}

InGroup(g) == {r \in Of("expense") : table[r].cat = g}

SumByCategory ==
    /\ summary.pc = "category"
    /\ summary' = [summary EXCEPT !.pc = "done",
                                  !.by = [g \in Groups |-> SumOf(InGroup(g))]]
    /\ UNCHANGED <<table, moved>>

(* The answer is out, or a statement failed.                               *)
Ends ==
    /\ summary.pc # "idle"
    /\ summary' = Nothing
    /\ moved' = 0
    /\ UNCHANGED table

(* roundTwo of cr.Amount / totalExpense * 100, in hundredths.              *)
Percentage_Truncated(g) ==
    IF summary.expense > 0 THEN (10000 * summary.by[g]) \div summary.expense
    ELSE 0

Percentage(g) ==
    IF summary.expense > 0
    THEN (20000 * summary.by[g] + summary.expense) \div (2 * summary.expense)
    ELSE 0

NetSavings == summary.income - summary.expense

-----------------------------------------------------------------------------
(* A row or, for a transfer, two rows of one amount are committed, or one  *)
(* row is edited or deleted.                                               *)
AmountIn(at, r) == IF at[r] = None THEN 0 ELSE at[r].amount

Committed(to, written) ==
    LET by == MapThenSumSet(LAMBDA r : AmountIn(table, r) + AmountIn(to, r), written)
    IN  /\ table' = to
        /\ moved' = IF summary.pc = "idle" THEN 0 ELSE moved + by
        /\ moved' <= MaxMoved
        /\ UNCHANGED summary

Write(r) ==
    \E row \in Row \union {None} :
        /\ row # table[r]
        /\ Committed([table EXCEPT ![r] = row], {r})

Transfer(r, q) ==
    /\ r # q
    /\ table[r] = None /\ table[q] = None
    /\ \E a \in Amounts :
         LET leg(type) == [type |-> type, amount |-> a, cat |-> NoCat]
         IN  Committed([table EXCEPT ![r] = leg("expense"), ![q] = leg("income")],
                       {r, q})

Next ==
    \/ SumIncome
    \/ SumExpense
    \/ SumByCategory
    \/ Ends
    \/ \E r \in Rows : Write(r)
    \/ \E r, q \in Rows : Transfer(r, q)

Spec == Init /\ [][Next]_vars

-----------------------------------------------------------------------------
Apart(a, b) == IF a < b THEN b - a ELSE a - b

Answered == summary.pc = "done"

BrokenDown == MapThenSumSet(LAMBDA g : summary.by[g], Groups)

(* Without writes the breakdown adds up to the total; with writes it is    *)
(* off by no more than what they wrote, and so are the net savings         *)
(* (reports/repository.go:43-140).                                         *)
TornOnlyByWrites ==
    Answered =>
        /\ Apart(BrokenDown, summary.expense) <= moved
        /\ Apart(NetSavings, SumOf(Of("income")) - SumOf(Of("expense"))) <= moved

(* The shares of a breakdown that adds up come to 100 percent, to within   *)
(* half a hundredth for each category (reports/model.go:45,                *)
(* reports/repository.go:117-127, 264-275).                                *)
SharesAddUp ==
    Answered /\ summary.expense > 0 /\ BrokenDown = summary.expense =>
        2 * Apart(MapThenSumSet(Percentage, Groups), 10000) <= Cardinality(Groups)

=============================================================================
