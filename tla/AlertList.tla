------------------------------ MODULE AlertList ------------------------------
(***************************************************************************)
(* The list of a user's alerts while they come, are read and are deleted:  *)
(* ListByUserID of internal/alerts counts the alerts, then the unread      *)
(* ones, then fetches the rows, in three statements without a transaction. *)
(* How an alert comes to be is a matter of BudgetAlerts.                   *)
(***************************************************************************)
EXTENDS Integers, FiniteSets

CONSTANT
    Alerts     \* the ids of table alerts, which gives none out twice

VARIABLES
    alerts,    \* the state of each alert
    list,      \* the request: what comes next and what the statements found
    \* Ghosts, since the first statement
    created,   \* the alerts inserted
    deleted,   \* the alerts deleted
    marked     \* the alerts whose is_read became true

ghosts == <<created, deleted, marked>>
vars == <<alerts, list, ghosts>>

Stored == {a \in Alerts : alerts[a] \in {"unread", "read"}}

Unread == {a \in Alerts : alerts[a] = "unread"}

TypeOK ==
    /\ alerts \in [Alerts -> {"unused", "unread", "read", "deleted"}]
    /\ list \in [pc : {"idle", "unread", "rows", "done"}, total : Nat,
                 unread : Nat, rows : SUBSET Alerts, fresh : SUBSET Alerts]
    /\ list.fresh \subseteq list.rows
    /\ created \union deleted \union marked \subseteq Alerts

Nothing == [pc |-> "idle", total |-> 0, unread |-> 0, rows |-> {}, fresh |-> {}]

Init ==
    /\ alerts = [a \in Alerts |-> "unused"]
    /\ list = Nothing
    /\ created = {} /\ deleted = {} /\ marked = {}

-----------------------------------------------------------------------------
(* The three statements, and the alerts of the answer that are unread.     *)
CountTotal ==
    /\ list.pc = "idle"
    /\ list' = [list EXCEPT !.pc = "unread", !.total = Cardinality(Stored)]
    /\ UNCHANGED <<alerts, ghosts>>

CountUnread_All ==
    /\ list.pc = "unread"
    /\ list' = [list EXCEPT !.pc = "rows", !.unread = Cardinality(Stored)]
    /\ UNCHANGED <<alerts, ghosts>>

CountUnread ==
    /\ list.pc = "unread"
    /\ list' = [list EXCEPT !.pc = "rows", !.unread = Cardinality(Unread)]
    /\ UNCHANGED <<alerts, ghosts>>

FindRows ==
    /\ list.pc = "rows"
    /\ list' = [list EXCEPT !.pc = "done", !.rows = Stored, !.fresh = Unread]
    /\ UNCHANGED <<alerts, ghosts>>

(* The answer is out, or a statement failed.                               *)
Ends ==
    /\ list.pc # "idle"
    /\ list' = Nothing
    /\ created' = {} /\ deleted' = {} /\ marked' = {}
    /\ UNCHANGED alerts

-----------------------------------------------------------------------------
(* The other requests, each one statement.                                 *)
During(S) == IF list.pc = "idle" THEN {} ELSE S

Create(a) ==
    /\ alerts[a] = "unused"
    /\ alerts' = [alerts EXCEPT ![a] = "unread"]
    /\ created' = During(created \union {a})
    /\ UNCHANGED <<list, deleted, marked>>

(* MarkRead of an alert that is read succeeds and changes nothing.         *)
MarkRead(a) ==
    /\ a \in Stored
    /\ alerts' = [alerts EXCEPT ![a] = "read"]
    /\ marked' = During(marked \union ({a} \intersect Unread))
    /\ UNCHANGED <<list, created, deleted>>

MarkAllRead ==
    /\ alerts' = [a \in Alerts |-> IF a \in Unread THEN "read" ELSE alerts[a]]
    /\ marked' = During(marked \union Unread)
    /\ UNCHANGED <<list, created, deleted>>

Delete(a) ==
    /\ a \in Stored
    /\ alerts' = [alerts EXCEPT ![a] = "deleted"]
    /\ deleted' = During(deleted \union {a})
    /\ UNCHANGED <<list, created, marked>>

Next ==
    \/ CountTotal
    \/ CountUnread
    \/ FindRows
    \/ Ends
    \/ MarkAllRead
    \/ \E a \in Alerts : Create(a) \/ MarkRead(a) \/ Delete(a)

Spec == Init /\ [][Next]_vars

-----------------------------------------------------------------------------
Few(S, n) == n <= Cardinality(S)

(* An answer counts more alerts than it shows only for alerts deleted in   *)
(* the meantime, and fewer only for alerts created in the meantime; more   *)
(* unread ones only for alerts read or deleted, and fewer only for new     *)
(* ones; and more unread ones than alerts only for new ones                *)
(* (alerts/repository.go:54-86).                                           *)
CountsMatchRows ==
    list.pc = "done" =>
        /\ Few(deleted, list.total - Cardinality(list.rows))
        /\ Few(created, Cardinality(list.rows) - list.total)
        /\ Few(marked \union deleted, list.unread - Cardinality(list.fresh))
        /\ Few(created, Cardinality(list.fresh) - list.unread)
        /\ Few(created, list.unread - list.total)

=============================================================================
