SPECIFICATION Spec

CONSTANTS
    Users = {u1, u2}
    Slots = {s1, s2}
    Names = {n1, n2}
    Looks = {plain, red}
    NoLook = plain
    Keywords = {k1}
    MaxCats = 2
    MaxTxs = 1
    System = System
    None = None

INVARIANT TypeOK
INVARIANT OnlyStaleCopiesUndo
INVARIANT AutoCategoryRefusedOnlyByOverlap
PROPERTY ChangedByOwner
SYMMETRY Symmetry

\* The bounds are reached.
CHECK_DEADLOCK FALSE
