SPECIFICATION Spec

CONSTANTS
    None = None
    u1 = u1
    u2 = u2
    a1 = a1
    a2 = a2
    a3 = a3
    Users = {u1, u2}
    Accounts = {a1, a2, a3}
    Owner <- TwoOwners
    Openings = {5}
    Amounts = {1, 2}
    Slots = {s1}
    Kinds = {"create", "transfer", "update", "delete", "close"}
    PoolSize = 2
    MaxTx = 4
    MaxRequests = 3

INVARIANT BalanceInSync
INVARIANT NoOrphans
INVARIANT PostedByOwner
PROPERTY ActsOnWhatItFinds

\* The clients may stop sending requests.
CHECK_DEADLOCK FALSE
