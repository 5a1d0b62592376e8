-------------------------------- MODULE Paging --------------------------------
(***************************************************************************)
(* A client leafs through the list of transactions while others write: the *)
(* list handler and List of internal/transactions, a COUNT and a SELECT    *)
(* ... ORDER BY date DESC, created_at DESC LIMIT ... OFFSET ... for every  *)
(* page.  It asks for page 1, then for the next one as long as total_pages *)
(* of the last answer says that there is one.                              *)
(***************************************************************************)
EXTENDS Integers, FiniteSets

CONSTANTS
    Rows,      \* transactions that match the filter at some time
    MaxPlace,  \* bound: places in the order, the newest date first
    MaxLimit,  \* the largest page, 100 in the code
    MaxWrites  \* bound: writes while the client leafs through

VARIABLES
    place,   \* where each row stands; rows with one date and one creation
             \* time share a place
    walk,    \* the client: what comes next, the page and the limit it asks
             \* for, and the count of the request under way
    \* Ghosts
    stayed,  \* the rows that were there all the time and in their place
    seen,    \* the rows on the pages so far
    twice,   \* those on more than one of them
    writes,  \* how many writes there were
    tied     \* whether two rows shared a place at any time

ghosts == <<stayed, seen, twice, writes, tied>>
vars == <<place, walk, ghosts>>

Absent == 0

Places == 1 .. MaxPlace

Live == {r \in Rows : place[r] # Absent}

Limits == 1 .. MaxLimit + 1

TypeOK ==
    /\ place \in [Rows -> Places \union {Absent}]
    /\ walk \in [pc : {"idle", "count", "find", "done"}, page : Nat \ {0},
                 limit : Limits, total : Nat]
    /\ stayed \subseteq Live
    /\ twice \subseteq seen /\ seen \subseteq Rows
    /\ writes \in 0 .. MaxWrites
    /\ tied \in BOOLEAN

Tied(at) ==
    \E r, q \in Rows : r # q /\ at[r] # Absent /\ at[r] = at[q]

Init ==
    /\ place \in [Rows -> Places \union {Absent}]
    /\ walk = [pc |-> "idle", page |-> 1, limit |-> 1, total |-> 0]
    /\ stayed = {} /\ seen = {} /\ twice = {}
    /\ writes = 0
    /\ tied = FALSE

-----------------------------------------------------------------------------
(* The client and his requests.                                            *)

Start(limit) ==
    /\ walk.pc = "idle"
    /\ walk' = [walk EXCEPT !.pc = "count", !.limit = limit]
    /\ stayed' = Live
    /\ tied' = Tied(place)
    /\ UNCHANGED <<place, seen, twice, writes>>

Count ==
    /\ walk.pc = "count"
    /\ walk' = [walk EXCEPT !.pc = "find", !.total = Cardinality(Live)]
    /\ UNCHANGED <<place, ghosts>>

(* BuildPagination, which divides by the limit of the client.              *)
TotalPages_RoundedDown ==
    IF walk.total < walk.limit THEN 1 ELSE walk.total \div walk.limit

TotalPages ==
    IF walk.total = 0 THEN 1
    ELSE (walk.total + walk.limit - 1) \div walk.limit

(* List cuts the limit to the largest page.                                *)
Clamped == IF walk.limit > MaxLimit THEN MaxLimit ELSE walk.limit

(* ORDER BY puts X before Y.                                               *)
Ordered(X, Y) == \A x \in X, y \in Y : place[x] <= place[y]

(* What a page may hold: rows that share a place come in any order.        *)
Page ==
    LET offset == (walk.page - 1) * Clamped
        n == Cardinality(Live)
        size == IF n < offset THEN 0
                ELSE IF n - offset < Clamped THEN n - offset ELSE Clamped
    IN {P \in SUBSET Live :
          /\ Cardinality(P) = size
          /\ size > 0 => \E before \in SUBSET (Live \ P) :
                           /\ Cardinality(before) = offset
                           /\ Ordered(before, Live \ before)
                           /\ Ordered(P, Live \ (before \union P))}

Find ==
    /\ walk.pc = "find"
    /\ \E P \in Page :
         /\ seen' = seen \union P
         /\ twice' = twice \union (seen \intersect P)
    /\ walk' = IF walk.page < TotalPages
               THEN [walk EXCEPT !.pc = "count", !.page = @ + 1]
               ELSE [walk EXCEPT !.pc = "done"]
    /\ UNCHANGED <<place, stayed, writes, tied>>

(* A request fails, and the client asks for the page again.                *)
Retry ==
    /\ walk.pc = "find"
    /\ walk' = [walk EXCEPT !.pc = "count"]
    /\ UNCHANGED <<place, ghosts>>

-----------------------------------------------------------------------------
(* Meanwhile: a transaction is created, with any date, or deleted, or an   *)
(* edit of its date moves it.                                              *)
Write(r, p) ==
    /\ walk.pc \in {"count", "find"}
    /\ writes < MaxWrites
    /\ place[r] # p
    /\ place' = [place EXCEPT ![r] = p]
    /\ writes' = writes + 1
    /\ stayed' = stayed \ {r}
    /\ tied' = (tied \/ Tied([place EXCEPT ![r] = p]))
    /\ UNCHANGED <<walk, seen, twice>>

Next ==
    \/ \E limit \in Limits : Start(limit)
    \/ Count
    \/ Find
    \/ Retry
    \/ \E r \in Rows, p \in Places \union {Absent} : Write(r, p)

Spec == Init /\ [][Next]_vars

-----------------------------------------------------------------------------
(* The rows that the pages make no room for if the limit of the client is  *)
(* above the largest page: total_pages is computed for his limit.          *)
BeyondPages ==
    LET room == walk.page * MaxLimit
    IN IF walk.limit > MaxLimit /\ walk.total > room THEN walk.total - room
       ELSE 0

(* Of the rows that stayed while he leafed through, a client misses at     *)
(* most one for every write, and with a limit above the largest page those *)
(* that total_pages leaves no page for; he sees at most one of them twice  *)
(* for every write.  Without writes he sees them all and once              *)
(* (transactions/repository.go:133-161, 216-230).                          *)
PagesOffOnePerWrite ==
    ~tied =>
        /\ walk.pc = "done" =>
             Cardinality(stayed \ seen) <= writes + BeyondPages
        /\ Cardinality(stayed \intersect twice) <= writes

=============================================================================
