SPECIFICATION Spec

CONSTANTS
    None = None
    Uncategorised = Uncategorised
    Slots = {s1, s2}
    Categories = {c1}
    Limits = {5, 6}
    SpentValues = {0, 5}
    MaxBudgets = 1
    MaxAlerts = 3

SYMMETRY SlotSymmetry

INVARIANT TypeOK
INVARIANT DuplicatesBounded
PROPERTY UndueOnlyFromStaleCopy

\* The clients may stop sending requests.
CHECK_DEADLOCK FALSE
