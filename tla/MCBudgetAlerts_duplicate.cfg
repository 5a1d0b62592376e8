SPECIFICATION Spec

CONSTANTS
    None = None
    Uncategorised = Uncategorised
    Slots = {s1, s2}
    Categories = {c1}
    Limits = {5}
    SpentValues = {0, 5}
    MaxBudgets = 1
    MaxAlerts = 2

INVARIANT OneUnreadEach

\* The clients may stop sending requests.
CHECK_DEADLOCK FALSE
