SPECIFICATION CalendarSpec

CONSTANTS
    FirstYear = 2027
    FirstWeekday = 5
    LastYear = 2027

INVARIANT TrendCoversMonths

\* The years end.
CHECK_DEADLOCK FALSE
