------------------------------- MODULE Ledger -------------------------------
(***************************************************************************)
(* The money-moving core of ArthaLedger: the accounts and the transactions *)
(* of internal/accounts and internal/transactions, kept in PostgreSQL and  *)
(* changed by concurrent HTTP requests.                                    *)
(*                                                                         *)
(* A slot is one goroutine serving one request.  Each request runs its     *)
(* reads in autocommit mode and its writes in one database transaction,    *)
(* at PostgreSQL's default isolation level READ COMMITTED: a statement     *)
(* reads the committed rows, an UPDATE takes a row lock that is held until *)
(* COMMIT or ROLLBACK and evaluates its WHERE clause again once it has the *)
(* lock, and nobody sees a write before it is committed.  One database     *)
(* connection is held from BEGIN to the end of the transaction; a read     *)
(* outside needs a free connection of the pool for a moment.               *)
(*                                                                         *)
(* A request that fails its validation, or whose first read finds nothing, *)
(* answers an error and changes no state: it is a stuttering step and has  *)
(* no action of its own.                                                   *)
(***************************************************************************)
EXTENDS LedgerData, FiniteSets

CONSTANTS
    Slots,        \* request goroutines
    Kinds,        \* the kinds of request the clients send
    PoolSize,     \* SetMaxOpenConns
    MaxRequests   \* bound: requests ever served

AllKinds == {"create", "transfer", "update", "delete", "close"}

(* What one request does to one row and to the balance of its account: the *)
(* row contributes old to the balance before the request, as far as the    *)
(* request has read it, and is meant to contribute new after it.           *)
Leg == [id : TxIds \union {NoTx}, acc : Accounts, type : Types,
        old : Amounts \union {0}, new : Amounts \union {0}]

(* The local variables of a request goroutine.  amt is the amount in the   *)
(* body (0: not sent); ref is existing.TransferReferenceID.                *)
Job == [kind : AllKinds, user : Users, amt : Amounts \union {0},
        ref : TxIds \union {NoTx}, first : Leg, second : Leg \union {None}]

ASSUME LedgerAssumption ==
    /\ Kinds \subseteq AllKinds
    /\ PoolSize \in Nat \ {0}
    /\ MaxRequests \in Nat
    /\ None \notin Leg \union Job

VARIABLES
    acct,    \* the table accounts
    row,     \* the table transactions, as committed
    nextId,  \* the BIGSERIAL sequence of transactions.id
    pc,      \* what each slot does next
    job,     \* its local variables
    write,   \* the rows its open database transaction has written
    delta,   \* what that transaction has added to the balances
    served   \* how many requests have arrived

vars == <<acct, row, nextId, pc, job, write, delta, served>>
slotVars == <<pc, job, write, delta>>
tables == <<acct, row>>

(* The states of a slot, in the order the code runs through them.  Those   *)
(* of InTx are inside the database transaction.                            *)
InTx == {"row", "first", "link", "mate", "second", "commit"}
PCs == {"idle", "dest", "count", "begin"} \union InTx

TypeOK ==
    /\ acct \in [Accounts -> Account]
    /\ row \in [TxIds -> Row \union {None}]
    /\ nextId \in 1 .. MaxTx + 1
    /\ pc \in [Slots -> PCs]
    /\ job \in [Slots -> Job \union {None}]
    /\ \A s \in Slots : pc[s] = "idle" <=> job[s] = None
    /\ write \in [Slots -> [TxIds -> Row \union {None}]]
    /\ delta \in [Slots -> [Accounts -> Int]]
    /\ served \in 0 .. MaxRequests

-----------------------------------------------------------------------------
(* What a leg adds to the balance of its account.                          *)
LegDelta_ForgetsOld(leg) == Impact(leg.type, leg.new)

LegDelta(leg) == Impact(leg.type, leg.new) - Impact(leg.type, leg.old)

-----------------------------------------------------------------------------
(* Locks, connections and reads.  Here and below, a definition named       *)
(* X_HowItIsWrong is a wrong variant of X: a slip one could make in the    *)
(* code of X, which the properties are checked to notice.                  *)

IsOpen(a) == acct[a].status = "open"
Live(i) == row[i] # None /\ row[i].live

RowLockedByOther_NoLock(s, i) == FALSE
RowLockedByOther(s, i) == \E o \in Slots \ {s} : write[o][i] # None
AccountLockedByOther(s, a) == \E o \in Slots \ {s} : delta[o][a] # 0

HeldConns == Cardinality({s \in Slots : pc[s] \in InTx})
ConnFree == HeldConns < PoolSize

NoWrites == [i \in TxIds |-> None]
NoDelta == [a \in Accounts |-> 0]

Init ==
    /\ acct = [a \in Accounts |-> NoAccount]
    /\ row = NoWrites
    /\ nextId = 1
    /\ pc = [s \in Slots |-> "idle"]
    /\ job = [s \in Slots |-> None]
    /\ write = [s \in Slots |-> NoWrites]
    /\ delta = [s \in Slots |-> NoDelta]
    /\ served = 0

Goto(s, place) == pc' = [pc EXCEPT ![s] = place]

(* The request ends: local variables, pending writes and locks are gone.   *)
Finish(s) ==
    /\ Goto(s, "idle")
    /\ job' = [job EXCEPT ![s] = None]
    /\ write' = [write EXCEPT ![s] = NoWrites]
    /\ delta' = [delta EXCEPT ![s] = NoDelta]

(* A request arrives at an idle slot and its first read succeeds.          *)
Arrive(s, j, place) ==
    /\ pc[s] = "idle"
    /\ j.kind \in Kinds
    /\ served < MaxRequests
    /\ ConnFree
    /\ Goto(s, place)
    /\ job' = [job EXCEPT ![s] = j]
    /\ served' = served + 1
    /\ UNCHANGED <<tables, nextId, write, delta>>

-----------------------------------------------------------------------------
(* The requests, up to the point where the service opens its transaction.  *)

Visible(u, a) == IsOpen(a) /\ Owner[a] = u

NewLeg(a, t, m) == [id |-> NoTx, acc |-> a, type |-> t, old |-> 0, new |-> m]

(* The leg of a request about row i, which it has just read and which is   *)
(* to contribute the amount m from now on.                                 *)
ReadLeg(i, m) == [id |-> i, acc |-> row[i].acc, type |-> row[i].type,
                  old |-> row[i].amt, new |-> m]

(* accounts: Create inserts the row with its opening balance.              *)
OpenAccount(a) ==
    /\ acct[a].status = "none"
    /\ ConnFree
    /\ \E b \in Openings : acct' = [acct EXCEPT ![a] = NewAccount(b)]
    /\ UNCHANGED <<row, nextId, slotVars, served>>

(* transactions: Create with type income or expense.                       *)
CreateRequest(s) ==
    \E a \in Accounts, t \in Types, m \in Amounts :
        /\ Visible(Owner[a], a)
        /\ Arrive(s, [kind |-> "create", user |-> Owner[a], amt |-> m,
                      ref |-> NoTx, first |-> NewLeg(a, t, m),
                      second |-> None], "begin")

(* transactions: Create with type transfer, up to the check of the source. *)
TransferRequest(s) ==
    \E a, b \in Accounts, m \in Amounts :
        /\ a # b
        /\ Visible(Owner[a], a)
        /\ Arrive(s, [kind |-> "transfer", user |-> Owner[a], amt |-> m,
                      ref |-> NoTx, first |-> NewLeg(a, "expense", m),
                      second |-> NewLeg(b, "income", m)], "dest")

CheckDest_AnyUser(s) ==
    /\ pc[s] = "dest"
    /\ ConnFree
    /\ IsOpen(job[s].second.acc)
    /\ Goto(s, "begin")
    /\ UNCHANGED <<tables, nextId, job, write, delta, served>>

(* createTransfer looks at the destination in a statement of its own.      *)
CheckDest(s) ==
    /\ pc[s] = "dest"
    /\ ConnFree
    /\ Visible(job[s].user, job[s].second.acc)
    /\ Goto(s, "begin")
    /\ UNCHANGED <<tables, nextId, job, write, delta, served>>

RefuseDest(s) ==
    /\ pc[s] = "dest"
    /\ ConnFree
    /\ ~Visible(job[s].user, job[s].second.acc)
    /\ Finish(s)
    /\ UNCHANGED <<tables, nextId, served>>

UpdateRequest_TransferToo(s) ==
    \E i \in TxIds, m \in Amounts \union {0} :
        /\ Live(i)
        /\ Arrive(s, [kind |-> "update", user |-> row[i].user, amt |-> m,
                      ref |-> NoTx, second |-> None,
                      first |-> ReadLeg(i, IF m > 0 THEN m ELSE row[i].amt)],
                  "begin")

(* Update reads the row, refuses a transfer leg and derives the correction *)
(* of the balance from the amount it has read.  m = 0: only other columns. *)
UpdateRequest(s) ==
    \E i \in TxIds, m \in Amounts \union {0} :
        /\ Live(i)
        /\ row[i].ref = NoTx
        /\ Arrive(s, [kind |-> "update", user |-> row[i].user, amt |-> m,
                      ref |-> NoTx, second |-> None,
                      first |-> ReadLeg(i, IF m > 0 THEN m ELSE row[i].amt)],
                  "begin")

(* Delete reads the row and remembers its amount and its linked row.       *)
DeleteRequest(s) ==
    \E i \in TxIds :
        /\ Live(i)
        /\ Arrive(s, [kind |-> "delete", user |-> row[i].user, amt |-> 0,
                      ref |-> row[i].ref, first |-> ReadLeg(i, 0),
                      second |-> None], "begin")

(* accounts: Delete finds the account, counts its transactions and only    *)
(* then deletes it, in three statements.                                   *)
CloseRequest(s) ==
    \E a \in Accounts :
        /\ Visible(Owner[a], a)
        /\ Arrive(s, [kind |-> "close", user |-> Owner[a], amt |-> 0,
                      ref |-> NoTx, first |-> NewLeg(a, "income", 0),
                      second |-> None], "count")

HasTransactions(a) == \E i \in TxIds : Live(i) /\ row[i].acc = a

CountNone_NoCheck(s) ==
    /\ pc[s] = "count"
    /\ ConnFree
    /\ Goto(s, "begin")
    /\ UNCHANGED <<tables, nextId, job, write, delta, served>>

CountNone(s) ==
    /\ pc[s] = "count"
    /\ ConnFree
    /\ ~HasTransactions(job[s].first.acc)
    /\ Goto(s, "begin")
    /\ UNCHANGED <<tables, nextId, job, write, delta, served>>

RefuseClose(s) ==
    /\ pc[s] = "count"
    /\ ConnFree
    /\ HasTransactions(job[s].first.acc)
    /\ Finish(s)
    /\ UNCHANGED <<tables, nextId, served>>

-----------------------------------------------------------------------------
(* The database transaction.                                               *)

Begin(s) ==
    /\ pc[s] = "begin"
    /\ ConnFree
    /\ Goto(s, "row")
    /\ UNCHANGED <<tables, nextId, job, write, delta, served>>

PostedRow(j, leg, ref) ==
    [user |-> j.user, acc |-> leg.acc, type |-> leg.type, amt |-> leg.new,
     ref |-> ref, live |-> TRUE]

InsertRow(s) ==
    /\ pc[s] = "row"
    /\ job[s].kind = "create"
    /\ nextId <= MaxTx
    /\ nextId' = nextId + 1
    /\ write' = [write EXCEPT
                   ![s][nextId] = PostedRow(job[s], job[s].first, NoTx)]
    /\ job' = [job EXCEPT ![s].first.id = nextId]
    /\ Goto(s, "first")
    /\ UNCHANGED <<tables, delta, served>>

InsertPair_OneWayLink(s) ==
    /\ pc[s] = "row"
    /\ job[s].kind = "transfer"
    /\ nextId < MaxTx
    /\ nextId' = nextId + 2
    /\ write' = [write EXCEPT
         ![s][nextId]     = PostedRow(job[s], job[s].first, nextId + 1),
         ![s][nextId + 1] = PostedRow(job[s], job[s].second, NoTx)]
    /\ job' = [job EXCEPT ![s].first.id = nextId,
                          ![s].second.id = nextId + 1]
    /\ Goto(s, "first")
    /\ UNCHANGED <<tables, delta, served>>

(* CreatePair: source leg, destination leg pointing back, then the source  *)
(* leg is pointed at the destination.  No other request sees the rows      *)
(* before the commit, so the three statements are one step.                *)
InsertPair(s) ==
    LET source == nextId
        dest   == nextId + 1
    IN
    /\ pc[s] = "row"
    /\ job[s].kind = "transfer"
    /\ dest <= MaxTx
    /\ nextId' = nextId + 2
    /\ write' = [write EXCEPT
                   ![s][source] = PostedRow(job[s], job[s].first, dest),
                   ![s][dest]   = PostedRow(job[s], job[s].second, source)]
    /\ job' = [job EXCEPT ![s].first.id = source, ![s].second.id = dest]
    /\ Goto(s, "first")
    /\ UNCHANGED <<tables, delta, served>>

Matches_DeletedToo(s, i) == row[i] # None /\ row[i].user = job[s].user

(* The WHERE clause of an UPDATE or soft delete, once it has the row lock. *)
Matches(s, i) == Live(i) /\ row[i].user = job[s].user

UpdateRow_AmountAlways(s) ==
    LET i == job[s].first.id IN
    /\ pc[s] = "row"
    /\ job[s].kind = "update"
    /\ ~RowLockedByOther(s, i)
    /\ Matches(s, i)
    /\ write' = [write EXCEPT ![s][i] = [row[i] EXCEPT !.amt = job[s].amt]]
    /\ Goto(s, IF LegDelta(job[s].first) # 0 THEN "first" ELSE "commit")
    /\ UNCHANGED <<tables, nextId, job, delta, served>>

UpdateRow(s) ==
    LET i == job[s].first.id IN
    /\ pc[s] = "row"
    /\ job[s].kind = "update"
    /\ ~RowLockedByOther(s, i)
    /\ Matches(s, i)
    /\ write' = [write EXCEPT ![s][i] =
                   [row[i] EXCEPT !.amt = IF job[s].amt > 0 THEN job[s].amt
                                                            ELSE @]]
    /\ Goto(s, IF LegDelta(job[s].first) # 0 THEN "first" ELSE "commit")
    /\ UNCHANGED <<tables, nextId, job, delta, served>>

DeleteRow(s) ==
    LET i == job[s].first.id IN
    /\ pc[s] = "row"
    /\ job[s].kind = "delete"
    /\ ~RowLockedByOther(s, i)
    /\ Matches(s, i)
    /\ write' = [write EXCEPT ![s][i] = [row[i] EXCEPT !.live = FALSE]]
    /\ Goto(s, "first")
    /\ UNCHANGED <<tables, nextId, job, delta, served>>

(* RowsAffected = 0: somebody has deleted the row meanwhile.  The error    *)
(* rolls the transaction back.                                             *)
RowGone(s) ==
    LET i == IF pc[s] = "row" THEN job[s].first.id ELSE job[s].second.id IN
    /\ \/ pc[s] = "row" /\ job[s].kind \in {"update", "delete"}
       \/ pc[s] = "mate"
    /\ ~RowLockedByOther(s, i)
    /\ ~Matches(s, i)
    /\ Finish(s)
    /\ UNCHANGED <<tables, nextId, served>>

(* UpdateBalance: balance + delta WHERE id and not deleted.  That no row   *)
(* matches is not an error.                                                *)
UpdateBalance(s, leg) ==
    /\ ~AccountLockedByOther(s, leg.acc)
    /\ delta' = IF IsOpen(leg.acc)
                THEN [delta EXCEPT ![s][leg.acc] = @ + LegDelta(leg)]
                ELSE delta

BalanceFirst(s) ==
    /\ pc[s] = "first"
    /\ UpdateBalance(s, job[s].first)
    /\ Goto(s, IF job[s].kind = "transfer" THEN "second"
               ELSE IF job[s].ref # NoTx THEN "link" ELSE "commit")
    /\ UNCHANGED <<tables, nextId, job, write, served>>

(* FindLinkedTransfer runs on r.db and not on the open transaction: it     *)
(* needs a second connection and sees committed rows only.                 *)
FindLinked(s) ==
    LET i == job[s].ref IN
    /\ pc[s] = "link"
    /\ ConnFree
    /\ IF Live(i)
       THEN /\ job' = [job EXCEPT ![s].second = ReadLeg(i, 0)]
            /\ Goto(s, "mate")
       ELSE /\ Goto(s, "commit")
            /\ UNCHANGED job
    /\ UNCHANGED <<tables, nextId, write, delta, served>>

DeleteMate_KeepsBalance(s) ==
    LET i == job[s].second.id IN
    /\ pc[s] = "mate"
    /\ ~RowLockedByOther(s, i)
    /\ Matches(s, i)
    /\ write' = [write EXCEPT ![s][i] = [row[i] EXCEPT !.live = FALSE]]
    /\ Goto(s, "commit")
    /\ UNCHANGED <<tables, nextId, job, delta, served>>

DeleteMate(s) ==
    LET i == job[s].second.id IN
    /\ pc[s] = "mate"
    /\ ~RowLockedByOther(s, i)
    /\ Matches(s, i)
    /\ write' = [write EXCEPT ![s][i] = [row[i] EXCEPT !.live = FALSE]]
    /\ Goto(s, "second")
    /\ UNCHANGED <<tables, nextId, job, delta, served>>

BalanceSecond(s) ==
    /\ pc[s] = "second"
    /\ UpdateBalance(s, job[s].second)
    /\ Goto(s, "commit")
    /\ UNCHANGED <<tables, nextId, job, write, served>>

(* The table with the writes of s laid over it.                            *)
WithWrites(s) ==
    [i \in TxIds |-> IF write[s][i] # None THEN write[s][i] ELSE row[i]]

Commit(s) ==
    /\ pc[s] = "commit"
    /\ row' = WithWrites(s)
    /\ acct' = [a \in Accounts |->
                  [acct[a] EXCEPT !.balance = @ + delta[s][a]]]
    /\ Finish(s)
    /\ UNCHANGED <<nextId, served>>

(* The soft delete of an account is a transaction of one statement.        *)
CloseAccount(s) ==
    LET a == job[s].first.acc IN
    /\ pc[s] = "row"
    /\ job[s].kind = "close"
    /\ ~AccountLockedByOther(s, a)
    /\ IsOpen(a)
    /\ acct' = [acct EXCEPT ![a].status = "deleted"]
    /\ Finish(s)
    /\ UNCHANGED <<row, nextId, served>>

AccountGone(s) ==
    LET a == job[s].first.acc IN
    /\ pc[s] = "row"
    /\ job[s].kind = "close"
    /\ ~AccountLockedByOther(s, a)
    /\ ~IsOpen(a)
    /\ Finish(s)
    /\ UNCHANGED <<tables, nextId, served>>

Abort_KeepsRows(s) ==
    /\ pc[s] # "idle"
    /\ row' = WithWrites(s)
    /\ Finish(s)
    /\ UNCHANGED <<acct, nextId, served>>

(* Anything that ends a request before its commit: a failed statement, a   *)
(* cancelled context, a deadlock victim, a lost connection, a crash.       *)
Abort(s) ==
    /\ pc[s] # "idle"
    /\ Finish(s)
    /\ UNCHANGED <<tables, nextId, served>>

-----------------------------------------------------------------------------
Request(s) ==
    \/ CreateRequest(s) \/ TransferRequest(s) \/ UpdateRequest(s)
    \/ DeleteRequest(s) \/ CloseRequest(s)

Proceed(s) ==
    \/ CheckDest(s) \/ RefuseDest(s) \/ CountNone(s) \/ RefuseClose(s)
    \/ Begin(s) \/ InsertRow(s) \/ InsertPair(s) \/ UpdateRow(s)
    \/ DeleteRow(s) \/ RowGone(s) \/ BalanceFirst(s) \/ FindLinked(s)
    \/ DeleteMate(s) \/ BalanceSecond(s) \/ Commit(s)
    \/ CloseAccount(s) \/ AccountGone(s)

Next ==
    \/ \E a \in Accounts : OpenAccount(a)
    \/ \E s \in Slots : Request(s) \/ Proceed(s) \/ Abort(s)

Spec == Init /\ [][Next]_vars

(* PostgreSQL's deadlock detector aborts a member of a cycle of lock       *)
(* waits; it knows nothing of the connection pool.                         *)
WaitsFor(s, o) ==
    /\ o # s
    /\ \/ /\ pc[s] = "row" /\ job[s].kind \in {"update", "delete"}
          /\ write[o][job[s].first.id] # None
       \/ /\ pc[s] = "row" /\ job[s].kind = "close"
          /\ delta[o][job[s].first.acc] # 0
       \/ pc[s] = "first" /\ delta[o][job[s].first.acc] # 0
       \/ pc[s] = "mate" /\ write[o][job[s].second.id] # None
       \/ pc[s] = "second" /\ delta[o][job[s].second.acc] # 0

LockCycle(s) ==
    \E cycle \in SUBSET Slots :
        /\ s \in cycle
        /\ \A x \in cycle : \E y \in cycle : WaitsFor(x, y)

DeadlockVictim(s) == LockCycle(s) /\ Abort(s)

Starved_Untimed(s) == FALSE

(* A request that gets no connection as long as the pool is empty.         *)
Starved(s) ==
    /\ pc[s] \in {"dest", "count", "begin", "link"}
    /\ ~ConnFree

(* The context of a request is cancelled when the ReadTimeout of the       *)
(* server is over or the client hangs up, and database/sql stops waiting.  *)
Cancelled(s) == Starved(s) /\ Abort(s)

(* A request that can go on does: its goroutine runs, and the database     *)
(* grants a free lock.  Nothing makes a request fail of its own accord     *)
(* except the deadlock detector and, where no connection comes free, the   *)
(* timeout; lock waits are not left to it.                                 *)
Fairness ==
    \A s \in Slots :
        /\ WF_vars(Proceed(s))
        /\ WF_vars(DeadlockVictim(s))
        /\ WF_vars(Cancelled(s))

FairSpec == Spec /\ Fairness

-----------------------------------------------------------------------------
(* Properties.                                                             *)

(* Every row is posted by the owner of its account, and to an account that *)
(* was opened before: Create and createTransfer check both accounts, and   *)
(* Delete relies on it ("it belongs to the same user so userID is safe",   *)
(* transactions/service.go:383).                                           *)
PostedByOwner ==
    \A i \in TxIds : row[i] # None =>
        /\ row[i].user = Owner[row[i].acc]
        /\ acct[row[i].acc].status # "none"

LegsMatch(t, i, j) ==
    /\ t[j] # None
    /\ t[j].ref = i
    /\ t[j].acc # t[i].acc
    /\ t[j].type # t[i].type
    /\ t[j].amt = t[i].amt
    /\ t[j].user = t[i].user
    /\ t[j].live = t[i].live

Linked(t) ==
    \A i \in TxIds :
        t[i] # None /\ t[i].ref # NoTx => LegsMatch(t, i, t[i].ref)

(* The two legs of a transfer point at each other, move the same amount in *)
(* opposite directions between two accounts of one user, and are deleted   *)
(* together (migration 000002, service.go Update and Delete), whatever     *)
(* other requests run and wherever a request fails.                        *)
TransferLegsAgree == Linked(row)

(* What the balance of account a is off by.                                *)
Drift(a) == acct[a].balance - acct[a].opening - Net(row, a)

(* "No balance can ever drift out of sync with its transactions"           *)
(* (README.md:13): the balance of an open account is its opening balance   *)
(* plus its live transactions.                                             *)
BalanceInSync == \A a \in Accounts : IsOpen(a) => Drift(a) = 0

(* A request that changes or deletes a row whose amount is not any more    *)
(* the one it has read outside its database transaction.                   *)
StaleEdit(s) ==
    /\ pc[s] = "commit"
    /\ job[s].kind \in {"update", "delete"}
    /\ row[job[s].first.id].amt # job[s].first.old

(* The stale read is the only way a balance drifts: a step that changes    *)
(* the drift of an open account is the commit of a stale edit of a row of  *)
(* that account.  Creations, transfers, deletions of transfers, failures   *)
(* and closing accounts never do (UpdateBalance adds in SQL so that no     *)
(* concurrent update is lost, accounts/repository.go:147).                 *)
DriftOnlyFromStaleEdits ==
    [][\A a \in Accounts :
         acct'[a].status = "open" /\ Drift(a)' # Drift(a) =>
           \E s \in Slots : /\ StaleEdit(s)
                            /\ job[s].first.acc = a
                            /\ pc'[s] = "idle"]_vars

(* A deleted transaction stays as it was deleted, and a deleted account    *)
(* keeps its balance: an edit or a posting that was under way when it was  *)
(* deleted must not bring it back.                                         *)
DeletedStays ==
    [][/\ \A i \in TxIds :
            row[i] # None /\ ~row[i].live => row'[i] = row[i]
       /\ \A a \in Accounts :
            acct[a].status = "deleted" => acct'[a] = acct[a]]_vars

(* "Accounts with existing (non-deleted) transactions cannot be deleted    *)
(* because the balance history would become orphaned"                      *)
(* (accounts/service.go:158): a live transaction is on an open account.    *)
NoOrphans == \A i \in TxIds : Live(i) => IsOpen(row[i].acc)

(* Every request is answered in the end: lock waits end, deadlocks are     *)
(* broken, and requests that hold all connections while they wait for one  *)
(* more are cancelled (transactions/repository.go:200, postgres.go:51,     *)
(* main.go:204).                                                           *)
RequestsFinish == \A s \in Slots : pc[s] # "idle" ~> pc[s] = "idle"

=============================================================================
