SPECIFICATION MCSpec

CONSTANTS
    None = None
    RuleIds = {1, 2, 3}
    Priorities <- SomePriorities
    MaxRules = 3
    FirstYear = 2027
    FirstWeekday = 5
    LastYear = 2029
    Rows = {r1, r2, r3}
    MaxPlace = 4
    MaxLimit = 2
    MaxWrites = 2
    Amounts = {1, 5}
    Cats = {c1, c2}
    NoCat = NoCat
    MaxMoved = 6
    Entries = {e1, e2}
    LastMonth = 3
    ThisMonth = 2
    MaxWritten = 6
    Alerts = {a1, a2, a3}
    Bookings = {b1, b2}
    SentAmounts = {4, 5, 6, 10, 15}
    Openings = {0, 24}
    MaxSent = 3

INVARIANT TypesOK
INVARIANT BestRuleWins
INVARIANT WindowHoldsToday
INVARIANT TrendShortByAtMostOne
INVARIANT PagesOffOnePerWrite
INVARIANT TornOnlyByWrites
INVARIANT SharesAddUp
INVARIANT TrendAgreesWithExport
INVARIANT CountsMatchRows
INVARIANT DriftOnlyFromHalfCents
PROPERTY WindowsTile
SYMMETRY Symmetry

\* The loop ends, so do the years, and the client has seen the last page.
CHECK_DEADLOCK FALSE
