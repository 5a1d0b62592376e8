SPECIFICATION FairSpec

CONSTANTS
    None = None
    u1 = u1
    u2 = u2
    a1 = a1
    a2 = a2
    a3 = a3
    Users = {u1}
    Accounts = {a1, a2}
    Owner <- OneOwner
    Openings = {5}
    Amounts = {1}
    Slots = {s1, s2}
    Kinds = {"create", "transfer", "update", "delete"}
    PoolSize = 2
    MaxTx = 6
    MaxRequests = 3

PROPERTY RequestsFinish
PROPERTY ActsOnWhatItFinds

\* The clients may stop sending requests.
CHECK_DEADLOCK FALSE
