SPECIFICATION Spec

CONSTANTS
    Users = {u1}
    Slots = {s1, s2}
    AccessTTL = 2
    RefreshTTL = 3
    MaxTime = 4
    MaxTokens = 3
    MaxLogins = 1

INVARIANT TypeOK
INVARIANT RevokedRefused
INVARIANT BlacklistShortLived
INVARIANT SessionOver
INVARIANT DeactivatedFadesOut
INVARIANT ProductionKeepsSessions
SYMMETRY Symmetry

\* The clock stops.
CHECK_DEADLOCK FALSE
