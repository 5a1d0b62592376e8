------------------------------ MODULE Calendar ------------------------------
(***************************************************************************)
(* The date arithmetic of ArthaLedger as the days go by: the window over   *)
(* which a budget adds up expenses (budgets, currentPeriodWindow) and the  *)
(* first day of a trend report (reports, GetTrend).  All of it is done in  *)
(* UTC and compared with DATE columns, so a day is the unit of time.       *)
(***************************************************************************)
EXTENDS Integers

CONSTANTS
    FirstYear,    \* the first day is 1 January of this year,
    FirstWeekday, \* which is this weekday (Sunday = 0)
    LastYear      \* bound: the last day is 31 December of this year

VARIABLES
    today,    \* time.Now().UTC(), the date only
    weekday   \* and its weekday

ASSUME CalendarAssumption ==
    /\ FirstYear \in Int
    /\ FirstWeekday \in 0 .. 6

calendar == <<today, weekday>>

Periods == {"daily", "weekly", "monthly", "yearly"}

-----------------------------------------------------------------------------
(* Package time of Go: dates and their normalisation.                      *)

On(y, m, d) == [y |-> y, m |-> m, d |-> d]

IsLeap(y) == y % 4 = 0 /\ (y % 100 # 0 \/ y % 400 = 0)

DaysIn(y, m) ==
    CASE m = 2               -> IF IsLeap(y) THEN 29 ELSE 28
      [] m \in {4, 6, 9, 11} -> 30
      [] OTHER               -> 31

(* The first day of the m-th month counted from January of year y.         *)
FirstOf(y, m) == On(y + ((m - 1) \div 12), ((m - 1) % 12) + 1, 1)

(* time.Date: months out of range carry into the years, then days out of   *)
(* range spill over into the neighbouring month.                           *)
Date(y, m, d) ==
    LET a == FirstOf(y, m)
        b == FirstOf(y, m + 1)
        z == FirstOf(y, m - 1)
    IN  IF d < 1 THEN On(z.y, z.m, d + DaysIn(z.y, z.m))
        ELSE IF d > DaysIn(a.y, a.m) THEN On(b.y, b.m, d - DaysIn(a.y, a.m))
        ELSE On(a.y, a.m, d)

AddDate(t, years, months, days) ==
    Date(t.y + years, t.m + months, t.d + days)

Before(s, t) ==
    \/ s.y < t.y
    \/ s.y = t.y /\ s.m < t.m
    \/ s.y = t.y /\ s.m = t.m /\ s.d < t.d

-----------------------------------------------------------------------------
(* budgets: the window of a period, both ends included.  As elsewhere,     *)
(* X_HowItIsWrong is a wrong variant of X that the properties notice.      *)

(* Monday of the week of today.                                            *)
Monday_SundayFirst == AddDate(today, 0, 0, -(weekday - 1))

Monday ==
    LET day == IF weekday = 0 THEN 7 ELSE weekday
    IN  AddDate(today, 0, 0, -(day - 1))

LastOfMonth_NextMonthToo(from) == AddDate(from, 0, 1, 0)

LastOfMonth(from) == AddDate(from, 0, 1, -1)

Window(period) ==
    CASE period = "daily"   -> [from |-> today, to |-> today]
      [] period = "weekly"  -> [from |-> Monday, to |-> AddDate(Monday, 0, 0, 6)]
      [] period = "monthly" ->
           LET from == On(today.y, today.m, 1)
           IN  [from |-> from, to |-> LastOfMonth(from)]
      [] period = "yearly"  ->
           [from |-> On(today.y, 1, 1), to |-> On(today.y, 12, 31)]

(* reports: the first day of a trend over so many months.                  *)
TrendStart_WholeMonths(months) ==
    LET s == AddDate(today, 0, -months, 0) IN On(s.y, s.m, 1)

TrendStart(months) ==
    LET s == AddDate(today, 0, -(months - 1), 0) IN On(s.y, s.m, 1)

-----------------------------------------------------------------------------
CalendarInit ==
    /\ today = On(FirstYear, 1, 1)
    /\ weekday = FirstWeekday

NextDay ==
    /\ today # On(LastYear, 12, 31)
    /\ today' = AddDate(today, 0, 0, 1)
    /\ weekday' = (weekday + 1) % 7

CalendarSpec == CalendarInit /\ [][NextDay]_calendar

-----------------------------------------------------------------------------
(* "Window for the currently active period" (budgets/service.go:289): an   *)
(* expense of today counts against every budget it should.                 *)
WindowHoldsToday ==
    \A p \in Periods :
        ~Before(today, Window(p).from) /\ ~Before(Window(p).to, today)

(* From one day to the next a window stays, or the next one begins on the  *)
(* day after it ends: no expense escapes a recurring budget, and none      *)
(* counts twice.                                                           *)
Tiles ==
    \A p \in Periods :
        \/ Window(p)' = Window(p)
        \/ Window(p)'.from = AddDate(Window(p).to, 0, 0, 1)

WindowsTile == [][NextDay => Tiles]_calendar

(* How many calendar months a trend over so many months covers.            *)
Covered(months) ==
    LET s == TrendStart(months)
    IN  12 * (today.y - s.y) + today.m - s.m + 1

(* "One TrendPoint per calendar month for the last N months.  The window   *)
(* starts at the first day of (today - months + 1)"                        *)
(* (reports/repository.go:143-144).                                        *)
TrendCoversMonths == \A n \in 1 .. 24 : Covered(n) = n

(* Where AddDate meets a month that is too short for the day of today, it  *)
(* goes on into the next one: the trend is then one month short.  It is    *)
(* short by no more, and never on the first 28 days of a month.            *)
TrendShortByAtMostOne ==
    \A n \in 1 .. 24 : Covered(n) = n \/ (Covered(n) = n - 1 /\ today.d > 28)

=============================================================================
