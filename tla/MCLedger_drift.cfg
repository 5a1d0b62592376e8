SPECIFICATION Spec

CONSTANTS
    None = None
    u1 = u1
    u2 = u2
    a1 = a1
    a2 = a2
    a3 = a3
    Users = {u1}
    Accounts = {a1, a2}
    Owner <- OneOwner
    Openings = {5}
    Amounts = {1, 2}
    Slots = {s1, s2}
    Kinds = {"create", "transfer", "update", "delete", "close"}
    PoolSize = 3
    MaxTx = 3
    MaxRequests = 3

INVARIANT BalanceInSync

\* The clients may stop sending requests.
CHECK_DEADLOCK FALSE
