-------------------------------- MODULE Trends --------------------------------
(***************************************************************************)
(* The trend and the CSV export of internal/reports, asked for one after   *)
(* the other in either order while transactions are written: the trend is  *)
(* one SELECT that groups the rows from the first month of a window by     *)
(* month, the export one SELECT of the rows of a month.  Which month the   *)
(* window starts with is a matter of Calendar.                             *)
(***************************************************************************)
EXTENDS Integers, FiniteSetsExt, Functions

CONSTANTS
    Entries,     \* transactions of the user, at some time
    Amounts,     \* their amounts, in cents
    LastMonth,   \* bound: the months with transactions, some of them future
    ThisMonth,   \* the current month
    None,        \* no such row, or deleted; no answer yet
    MaxWritten   \* bound: what is written from one answer on, in cents

Months == 1 .. LastMonth

(* The rows of a transfer have these types, too.                           *)
Row == [month : Months, type : {"income", "expense"}, amount : Amounts]

VARIABLES
    rows,    \* table transactions
    trend,   \* the points and the month the window starts with
    export,  \* the rows of the file and the month it is for
    written  \* ghost: amounts written since the first of the two answers

vars == <<rows, trend, export, written>>

TypeOK ==
    /\ \A e \in Entries : rows[e] = None \/ rows[e] \in Row
    /\ trend # None => /\ trend.first \in 1 .. ThisMonth
                       /\ DOMAIN trend.points \subseteq trend.first .. LastMonth
    /\ export # None => /\ export.month \in 1 .. ThisMonth
                        /\ Range(export.rows) \subseteq Row
    /\ written \in 0 .. MaxWritten

Init ==
    /\ rows = [e \in Entries |-> None]
    /\ trend = None /\ export = None
    /\ written = 0

-----------------------------------------------------------------------------
SumOver(table, type) ==
    MapThenSumSet(LAMBDA e : IF table[e].type = type THEN table[e].amount ELSE 0,
                  DOMAIN table)

(* deleted_at IS NULL                                                      *)
Live == {e \in Entries : rows[e] # None}

OfMonth(month) == Restrict(rows, {e \in Live : rows[e].month = month})

(* date >= windowStart, with no upper end.                                 *)
InWindow_Exclusive(month, first) == month > first

InWindow(month, first) == month >= first

(* GROUP BY year, month: a month without rows gives no point.              *)
GetTrend(first) ==
    LET found == {m \in {rows[e].month : e \in Live} : InWindow(m, first)}
    IN  /\ trend = None
        /\ trend' = [first |-> first,
                     points |-> [m \in found |->
                                   [income |-> SumOver(OfMonth(m), "income"),
                                    expense |-> SumOver(OfMonth(m), "expense")]]]
        /\ UNCHANGED <<rows, export, written>>

(* validateYearMonth.                                                      *)
ErrFutureMonth(month) == month > ThisMonth

GetExportRows(month) ==
    /\ export = None
    /\ ~ErrFutureMonth(month)
    /\ export' = [month |-> month, rows |-> OfMonth(month)]
    /\ UNCHANGED <<rows, trend, written>>

(* The client throws away what it has.                                     *)
Ends ==
    /\ trend # None \/ export # None
    /\ trend' = None /\ export' = None
    /\ written' = 0
    /\ UNCHANGED rows

-----------------------------------------------------------------------------
(* A commit of internal/transactions: a row comes, is edited or goes, or   *)
(* the two rows of a transfer come.                                        *)
AmountIn(at, e) == IF at[e] = None THEN 0 ELSE at[e].amount

Committed(to, changed) ==
    LET by == MapThenSumSet(LAMBDA e : AmountIn(rows, e) + AmountIn(to, e), changed)
    IN  /\ rows' = to
        /\ written' = IF trend = None /\ export = None THEN 0 ELSE written + by
        /\ written' <= MaxWritten
        /\ UNCHANGED <<trend, export>>

Write(e) ==
    \E row \in Row \union {None} :
        /\ row # rows[e]
        /\ Committed([rows EXCEPT ![e] = row], {e})

Transfer(e, f) ==
    /\ e # f
    /\ rows[e] = None /\ rows[f] = None
    /\ \E m \in Months, a \in Amounts :
         LET leg(type) == [month |-> m, type |-> type, amount |-> a]
         IN  Committed([rows EXCEPT ![e] = leg("expense"), ![f] = leg("income")],
                       {e, f})

Next ==
    \/ \E m \in 1 .. ThisMonth : GetTrend(m)
    \/ \E m \in Months : GetExportRows(m)
    \/ Ends
    \/ \E e \in Entries : Write(e)
    \/ \E e, f \in Entries : Transfer(e, f)

Spec == Init /\ [][Next]_vars

-----------------------------------------------------------------------------
Apart(a, b) == IF a < b THEN b - a ELSE a - b

(* What the trend says of a month; a reader takes no point for zero.       *)
Point(month) ==
    IF month \in DOMAIN trend.points THEN trend.points[month]
    ELSE [income |-> 0, expense |-> 0]

(* For a month that is in the window and has a file, the point of the      *)
(* trend and the rows of the file add up to the same income and the same   *)
(* expenses, except for what was written between the two                   *)
(* (reports/repository.go:143-195, 197-260).                               *)
TrendAgreesWithExport ==
    trend # None /\ export # None /\ export.month >= trend.first =>
        LET point == Point(export.month)
        IN  Apart(point.income, SumOver(export.rows, "income"))
              + Apart(point.expense, SumOver(export.rows, "expense")) <= written

=============================================================================
