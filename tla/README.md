# ArthaLedger in TLA+

TLA+ modules, TLC configurations and TLAPS proofs about ArthaLedger, the
personal-finance API in this repository (Go, Gin, GORM, PostgreSQL, Redis).
Every definition is translated from the source; `PROJECT.json` names the lines
each one stands for.

## 1. The system

One process serves HTTP requests, each in a goroutine of its own. Nothing is
shared between the goroutines except the PostgreSQL connection pool
(`pkg/database/postgres.go`, at most 100 connections) and the Redis client: all
state is in the database tables and in Redis, and all concurrency is the
interleaving of the SQL statements and Redis commands of overlapping requests.
PostgreSQL runs at its default isolation level, READ COMMITTED; only
`internal/transactions` opens explicit database transactions. Nothing runs in
the background: no scheduler, queue or retry exists.

| component | state | operations | talks to |
|---|---|---|---|
| `internal/transactions` | table `transactions` (soft delete, transfer legs linked by `transfer_reference_id`) | Create (income, expense, transfer), Update, Delete, Get, List | accounts (`UpdateBalance` inside its database transaction), rules (`CategorizerRules`) |
| `internal/accounts` | table `accounts` with the running `balance` | Create, Update, Delete, Get, List, summary, `UpdateBalance` | counts rows of `transactions` before Delete |
| `internal/budgets` | table `budgets`; spending is summed live | Create, Update, Delete, Get, List; Get and List also raise alerts | reads `transactions`; alerts (`CreateBudgetAlert`) |
| `internal/alerts` | table `alerts` | `CreateBudgetAlert`, MarkRead, MarkAllRead, Delete, List | - |
| `internal/categories` | table `categories` (system rows have no owner) | Create, Update, Delete, Get, List | foreign keys of transactions, budgets (SET NULL) and rules (CASCADE) |
| `internal/rules`, `pkg/categorizer` | table `categorization_rules` | Create, Delete, List; `Categorize` is pure | - |
| `internal/auth`, `pkg/middleware` | table `users`; Redis keys `refresh:*` and `blacklist:*` with TTLs; JWTs held by clients | Register, Login, Refresh, Logout; the Auth middleware on every protected route | Redis, `users` |
| `internal/reports` | none | monthly summary, trend, CSV export | reads `transactions` |
| `cmd/server` | the process, its connections and their deadlines | start, graceful shutdown | every handler |
| `config`, `pkg/database`, `migrations` | environment, connection pool, schema | - | - |

What is hard here: reads made before a database transaction and used inside
it; checks and writes in separate statements; two rows and two balances that
must change together; row locks taken in different orders; a second pool
connection taken while one is held; check-then-insert of alerts; whole-row
saves over stale copies; TTLs in Redis against expiry times in tokens; calendar
and paging arithmetic at their boundaries; decimal rounding; what a status says
when others change the row between two statements, when a statement or the
answer is lost, and when the process is stopped. `PROJECT.json`
lists every such place under `hazards`, with the property that watches it.

## 2. Modules

| module | models | kind |
|---|---|---|
| `LedgerData` | the columns of `accounts` and `transactions` that matter, the sum of an account's live rows | data |
| `Ledger` | every money-moving request, statement by statement | detailed |
| `AtomicLedger` | what each successful request is: one atomic change of both tables | abstract |
| `LedgerRefinement` | `Ledger` implements `AtomicLedger` | refinement |
| `BudgetAlerts` | budgets, the judgement of their spending, and the alerts it raises | detailed |
| `Sessions` | registration, login, refresh, logout, the Auth middleware and Redis | detailed |
| `Categories` | categories, rules and the category of a posting, with their foreign keys | detailed |
| `Categorizer` | the loop of `categorizer.Categorize` | algorithm |
| `Calendar` | budget windows and the start of a trend, day by day | algorithm |
| `Paging` | a client who leafs through the transaction list while others write | reader |
| `Reports` | the three statements of the monthly summary while others write | reader |
| `Trends` | the trend and the CSV export, one after the other, while others write | reader |
| `AlertList` | the three statements of the alert list while alerts come, are read and go | reader |
| `Rounding` | fractions of a cent in rows and balances | algorithm |
| `Server` | the process, the timeouts of its connections, the shutdown | detailed |
| `Api` | every handler as a list of statements, and what its status tells the client | detailed |
| `Service` | `Api` over the connections of `Server` | composition |
| `LedgerProofs`, `BalanceProofs` | theorems about `Ledger` and its refinement; about sums of its rows | proofs |
| `BudgetAlertsProofs`, `SessionsProofs`, `CategoriesProofs`, `ServiceProofs` | theorems about the module they are named for | proofs |
| `AlgorithmsProofs`, `SumsProofs` | theorems about the algorithms and readers of `MCAlgorithms`; about those that add up | proofs |
| `MCLedger`, `MCBudgetAlerts`, `MCSessions`, `MCCategories`, `MCService`, `MCAlgorithms` | the instances TLC checks; `MCAlgorithms` puts `Categorizer`, `Calendar`, `Paging`, `Reports`, `Trends`, `AlertList` and `Rounding` side by side | instances |

An operator named `X_HowItIsWrong` is a plausible slip in the code of `X`.
Nothing uses these; they show, put in the place of `X`, that a property would
notice (`PROJECT.json`, `mutants`).

### Ledger

A *slot* is a goroutine serving one request. `pc[s]` names its next statement
and `job[s]` holds what the service keeps in local variables: the kind of the
request, the amount of the body, and for each row concerned a *leg* with the
amount as read before (`old`) and as meant to be after (`new`). The order of
states is that of the code:

| request | statements (values of `pc`) | code |
|---|---|---|
| create | check of the account, then `begin`, `row` (INSERT), `first` (balance), `commit` | `transactions/service.go` Create |
| transfer | check of the source, `dest` (check of the destination), `begin`, `row` (CreatePair), `first`, `second`, `commit` | createTransfer |
| update | read of the row, `begin`, `row` (UPDATE), `first` if the amount changes, `commit` | Update |
| delete | read of the row, `begin`, `row` (soft delete), `first`, and for a transfer `link` (FindLinkedTransfer), `mate` (soft delete of the other leg), `second`, then `commit` | Delete |
| close | read of the account, `count`, `begin`, `row` (soft delete) | `accounts/service.go` Delete |

`acct` and `row` are the committed tables. An open transaction's row versions
are in `write[s]`, its additions to balances in `delta[s]`; both double as the
row locks of READ COMMITTED, and nobody else reads them. An UPDATE waits for
the lock and then tests its WHERE clause on the committed row (`Matches`).
`CreatePair`'s three statements are one step because no one sees the rows
before the commit and new rows cannot be locked by others. A connection is held
from `begin` to the end; every other statement needs a free one for its
duration (`ConnFree`). `Abort(s)` ends a request anywhere before its commit: a
failed statement, a cancelled context, a deadlock victim, a crash of the
process or of the database.

`AtomicLedger` has only the two tables and one action for each successful
request. With `Races = FALSE` a request acts on the tables as they are when it
takes effect; with `Races = TRUE` the amount it reverses and the account it
posts to may be outdated, which is exactly the freedom the code's reads outside
the transaction give it.

### BudgetAlerts

`todo[s]` is what a request has read and still has to answer; `Judge` is
`buildResponse` with `GetSpentAmount`, `CheckUnread` and `InsertAlert` the two
statements of `CreateBudgetAlert`. Transactions are the environment: `spent`
changes between any two statements (`SpendingChanges`), also to nothing when a
period begins, and a category may be deleted under its budgets
(`CategoryDeleted`). Money is in cents, percentages in hundredths, with the
rounding of the code. Two history variables: `wasDue` (alerts ever called for)
and `stale` (requests whose budget another one changed since they read it).

### Sessions

`req[s]` is a request between two steps; time may pass anywhere (`Tick`), Redis
drops keys that are over, may lose all keys (`RedisLosesKeys`), and any of its
commands may fail with or without having been done (`Store`, `SetBlacklist`,
`Forget`). `production` and `connected` are chosen at the start, as
`cmd/server/main.go` does: without Redis the server starts in development only.
A TTL counts from when Redis gets the command; the code computes it a moment
earlier, which only makes a key stay longer. History variables: when a session
was ended or a user deactivated (`over`, `gone`), what the client was promised,
which revocations Redis confirmed, and which tokens were *crossed*: issued by a
request that was at work when its session ended or its user was deactivated.

### Categories

`Save` is gorm's: UPDATE of all columns by primary key, and if no row matches,
INSERT with ON CONFLICT UPDATE, a second statement (`InsertSaved`). The foreign
keys are those of migrations 000001 and 000003: rules go with their category,
transactions lose it. `meant` is what the category would be had every answered
request been applied to the row of its moment, field by field; `raced` are
categories saved from an outdated copy.

### Algorithms and readers

`Categorizer` takes one step per iteration. `Calendar` contains Go's `time.Date`
normalisation and takes one step per day. `Paging` has the order of the list as
a place per row, the COUNT and SELECT of each page, `total_pages` computed from
the client's limit as in `BuildPagination`, and writers in between. `Reports` is
`GetMonthlySummary`'s three SELECTs; a sum is exact (NUMERIC), a percentage is
rounded to two decimals (binary rounding errors at exact ties are ignored).
`Trends` has `GetTrend` and `GetExportRows` as one SELECT each, over the months
around the current one; which month a window starts with is `Calendar`'s
question. `AlertList` is `ListByUserID` between the requests that change
`alerts`; what raises an alert is `BudgetAlerts`' question. `Rounding` has
amounts in tenths of a cent: NUMERIC(15,2) rounds them half away from zero, once
as a row and once as the new balance. The delta of a posting is the decimal that
was sent; that of an edit is a difference of two float64 and may fall to either
side of half a cent, so `Corrected` allows both.

### Server, Api and Service

`Server` is the process of `cmd/server/main.go` with its connections. A request
that has begun has `ReadTimeout` to arrive and, from its header on,
`WriteTimeout` to be answered; a late answer is not written, but nothing ends
the handler. A signal closes the listener and starts the grace period of
`Shutdown`. What net/http does with the three durations is modelled from how
`main` configures it. A crash, and the exit when `ListenAndServe` fails, may come
at any time.

`Api` has one row of the tables (`there`), the row that it depends on (`other`)
and each client's request. `kind` says what the row is; a behaviour keeps it. A
service is a sequence of statements, each a record of what it does, which error
it gives if the row is not as it should be, which if it fails, and which
refusals the service may come to from what it has read. A handler adds the
status of success and of each error; every other error is a 500. So
`accounts_delete` is `<<Find, Unused, Remove>>` with 200, 404 and 409, line by
line what `accounts/handler.go` and `accounts/service.go` do.
`Statement` executes the next one: it fits, does not fit, or fails, and a write
that fails may have been done (a COMMIT whose answer is lost). Between two
statements `Elsewhere` is everybody else. The client repeats what was answered
500 or not at all. The statements of one database transaction are one here;
`Ledger` has them one by one, as the other modules have the data: `Api` asks
only what the client may conclude.

History: what was so at some time of the request (`saw`), whether the try took
effect (`did`), how often all tries did (`made`), whether somebody else has
reversed that (`undone`), whether a statement failed.

In `Service` the header of a request calls its handler, an answer needs a
connection in time, and the end of the process, forced or not, cuts off what
was under way while the database keeps what was done. A client that hangs up
during a handler is not a case of its own: the context is cancelled, so a
statement may fail, and there is no answer; the model has both.

## 3. What the runs check

| run | instance | properties | shows |
|---|---|---|---|
| `ledger_concurrent` | 1 user, 2 accounts, 2 slots, all 5 kinds, 3 requests, 3 rows, amounts 1, 2 | `TypeOK`, `TransferLegsAgree`, `DriftOnlyFromStaleEdits`, `DeletedStays`, `CommitsAreAtomic` | whatever overlaps and fails, transfers stay whole, the tables change one whole request at a time, deleted rows stay deleted, and a balance drifts only by an edit or deletion of a row whose amount changed since it was read |
| `ledger_serial` | 2 users, 3 accounts, 1 slot, 3 requests, 4 rows | `BalanceInSync`, `NoOrphans`, `PostedByOwner`, `ActsOnWhatItFinds` | one request at a time, with failures: the books are right and the intended `AtomicLedger` is implemented |
| `ledger_overlap` | 2 slots, one amount, no account is closed, pool of 2, 6 rows | `ActsOnWhatItFinds`, `RequestsFinish` | overlap alone harms nothing as long as no amount changes and no account is closed; deletions of transfers can hold all connections while each waits for one more, every request still ends, but only because contexts are cancelled |
| `ledger_drift` | as `ledger_concurrent` | `BalanceInSync` | **violated**: two overlapping edits |
| `ledger_orphan` | as `ledger_concurrent` | `NoOrphans` | **violated**: a posting overlaps the deletion of its account |
| `budget_alerts` | 2 slots, 1 budget, 3 alerts, 1 category, limits 5 and 6 cents, spending 0 or 5 | `TypeOK`, `DuplicatesBounded`, `UndueOnlyFromStaleCopy` | at most one unread alert of a type per overlapping request; an alert that was never due, or is of a deleted budget, comes only from an outdated copy |
| `budget_alerts_duplicate` | the same with one limit and 2 alerts | `OneUnreadEach` | **violated**: two views both find no alert |
| `sessions` | 1 user, 2 slots, 1 session, 3 access tokens, lifetimes 2 and 3, 4 ticks | `TypeOK`, `RevokedRefused`, `BlacklistShortLived`, `SessionOver`, `DeactivatedFadesOut`, `ProductionKeepsSessions` | what a logout or a deactivation ends is over within the lifetime of an access token, except for requests at work just then |
| `categories` | 2 users, 2 slots, 2 categories (one of the system), 2 names, 2 looks, 1 keyword, 1 transaction | `TypeOK`, `OnlyStaleCopiesUndo`, `AutoCategoryRefusedOnlyByOverlap`, `ChangedByOwner` | an answered edit or deletion is undone only by a save of an outdated copy; nobody changes another's category |
| `algorithms` | all lists of up to 3 rules with 3 priorities; every day of 2027-2029; 3 rows, 4 places, pages of up to 2, 2 writes; 3 rows, 3 groups, 6 cents written; 2 rows in 3 months, one of them future; 3 alerts; 2 transactions, 5 amounts of which 2 end in half a cent, 3 of them sent | `TypesOK`, `BestRuleWins`, `WindowHoldsToday`, `WindowsTile`, `TrendShortByAtMostOne`, `PagesOffOnePerWrite`, `TornOnlyByWrites`, `SharesAddUp`, `TrendAgreesWithExport`, `CountsMatchRows`, `DriftOnlyFromHalfCents` | the pure parts compute what they promise; readers are wrong by no more than what was written meanwhile; a balance drifts by rounding only for amounts that end in half a cent, a cent for each |
| `service` | 1 client with 2 tries per request, every handler, everybody else's requests; timeouts of 2 and 2 ticks, grace of 4 | `TypeOK`, `GraceCoversAnswers`, `AnswersHold`, `OnlyInsertsDouble`, `ShutdownEnds` | every status is true of some moment of its request; a retry doubles only updates and inserts without a unique column; a shutdown ends, and cuts off no answer that was still possible |
| `calendar_trend` | 2027 | `TrendCoversMonths` | **violated** on 29 January |

Why the bounds are enough to see the interesting cases:

- *Ledger.* Every race named in the hazards is between two requests, so two
  slots; a transfer takes two rows and a third request is needed to create what
  the other two fight over, so three requests and three rows (six where two
  transfers must exist). Two amounts are needed to make an edit matter. The code
  treats accounts and users uniformly; the third account and second user of
  `ledger_serial` are there so that a posting to another's account would show.
  The pool has 100 connections in the code: what counts is whether it has more
  than there are open transactions, so 3 (`ledger_concurrent`, `ledger_serial`)
  and 2 (`ledger_overlap`) for two slots stand for both. The smaller pool only
  rules out a second connection for one request while two transactions are open,
  and all other interleavings remain.
- *BudgetAlerts.* With two slots three alerts are one more than the bound;
  5 of 6 cents is a warning, 5 of 5 exceeded.
- *Sessions.* Three ticks after the first let an access token (2) and a refresh
  token (3) expire; three tokens let a login and two refreshes overlap a logout.
- *Categories.* Category 1 is the seeded one, category 2 any user's.
- *Algorithms.* Three years hold a leap year, every weekday on every kind of
  month end and three turns of the year. Three rules can disagree pairwise in
  priority and id. Limits go one above the largest page, ties of dates included.
  Amounts end below, at and above half a cent; two ties can add up.
- *Service.* Clients share nothing but the row and the process, and `Elsewhere`
  does to the row what any other client could, so one client followed closely is
  enough; a second try is what can double a request. Ticks of 2, 2 and 4 stand
  for 15, 15 and 30 seconds: the grace period is exactly the sum of the two
  timeouts, and the theorem below is for all of them.

Requests may stop coming, so deadlock is not an error in any run; that nobody
waits for ever is the liveness property `RequestsFinish` instead.

**Fairness.** `ledger_overlap` and `service` assume some. For the first, weak
fairness of `Proceed(s)` (a goroutine that can run does, a free lock or connection is
granted), of `DeadlockVictim(s)` (PostgreSQL's detector aborts a member of a
cycle of lock waits; it knows nothing of the pool) and of `Cancelled(s)`: a
request that gets no connection while the pool stays empty has its context
cancelled in the end, when the server's `ReadTimeout` of 15 seconds
(`cmd/server/main.go:204`) is over or the client hangs up, and `database/sql`
gives up waiting. The timeout is assumed for starved requests only, so that
`RequestsFinish` says of all other waits that they end by themselves. The
arrival of requests and all other failures (`Abort`) are not fair. For
`service`, time passes (`Tick`), net/http ends a connection whose request does
not arrive (`ReadTimedOut`), and `Shutdown` returns, and `main` with it, when it
has nothing to wait for (`Stop`) or its context is over (`EndForced`). Nothing is
assumed of clients, handlers or the database: `ShutdownEnds` holds although a
handler may hang.

## 4. Where the code and its documents disagree

Shown by a run (`PROJECT.json`, `findings`):

1. `ledger_drift`: README.md:13 "no balance can ever drift out of sync". Update
   and Delete compute the correction from an amount read outside their
   transaction.
2. `ledger_orphan`: accounts with transactions "cannot be deleted"
   (`accounts/service.go:158`), yet count and deletion are two statements.
3. `budget_alerts_duplicate`: "Alerts are deduplicated" (README.md:19), by a
   check and an insert in separate statements.
4. `calendar_trend`: "each of the last N calendar months"
   (`reports/handler.go:71`); `AddDate` from the 29th to the 31st may skip one.

Met while modelling, without a violated run:

- `FindLinkedTransfer` runs on the pool while the transaction holds a
  connection. Once open transactions hold all 100, deletions of transfers wait
  until they are cancelled and are answered with an error, although nothing is
  wrong with any of them. In `ledger_overlap` only the cancelling ends it (the
  mutant `Starved_Untimed`).
- `BuildPagination` does not clamp the limit to 100 as `List` does, so with a
  larger one `total_pages` is too small ("max 100", `transactions/model.go:108`);
  `Paging` has such limits, and `PagesOffOnePerWrite` says which rows the client
  then never sees.
- A percentage of the breakdown may exceed 100 when a posting overlaps the
  report (`reports/model.go:45` "0-100"); `TornOnlyByWrites` bounds it.
- Category Update empties an icon or colour that is not sent
  (`categories/service.go:150-157`; `model.go:57` says only non-zero values are
  applied), and `Save` brings back a category deleted meanwhile, although
  Delete "permanently removes". `Categories` does both.
- A trend has no point for a month without rows and has points for future
  months (`reports/repository.go:16,144` "one TrendPoint per calendar month",
  "runs to today"); `Trends` does both.
- `?type=transfer` (`transactions/handler.go:80`) matches nothing: transfers are
  stored as expense and income.
- Budgets past their `end_date` keep raising alerts (`budgets/model.go:50,53`),
  and "send an empty string to clear it" (`budgets/model.go:103`) has no effect.
- The loser of a race is answered 500 where the check alone would have said 404
  or 409: two registrations of one email, a transaction, budget or rule whose
  category goes between check and insert. `Api` has each of them.
- The update of an account, a transaction or a budget reads the row again after
  it has been written; if it is gone by then, or the read fails, the answer is
  404 or 500 although the update is done.
- A read of a category that fails is answered 404, a refresh that fails for any
  reason 401, and a logout 200 even if Redis recorded nothing.
- The account summary is "a single JOIN" (`accounts/repository.go:175-176`) that
  is two statements in the code, and a failure of the second shows an account
  without transactions.
- "Server stopped cleanly" (`cmd/server/main.go:237`) is logged after a forced
  shutdown too.
- A posting has no idempotency key, so a retry after a lost answer posts twice
  (`OnlyInsertsDouble` says which requests do).
- An amount below half a cent passes validation and is stored as 0.00
  (`transactions/model.go:44` "always stored as a positive value"); one with half
  a cent moves the balance by a cent more or less than the row says
  (`Rounding`); the answer to the posting shows the amount not yet rounded.
- A rule or a transaction may name another user's category; only existence is
  checked. `Categories` lets them.
- README.md:166 `POST /logout` is a DELETE in the code; README.md:300-301 names
  environment variables the code does not read; README.md:303 promises a
  fallback to "Others" that `categorizer.go:9-10` does not have.

## 5. What is proved

TLAPS checks these for every value of the constants: any number of users,
accounts, rows, slots and amounts, any lifetimes. They rest on the named
assumptions of the modules (`LedgerDataAssumption`, `LedgerAssumption`,
`BudgetAlertsAssumption`, `SessionsAssumption`, `CategoriesAssumption`,
`CategorizerAssumption`, `CalendarAssumption`, `ReadersAssumption`,
`TimesAssumption`, `ClientsAssumption`), which say that constants have their
types, the tables of the readers are finite, `None` is not a value, amounts and
limits are positive, lifetimes are not zero, a client tries at least once, and
that the grace period is no shorter than the two timeouts together; TLC
evaluates them in the runs. `Harmless` in `LedgerProofs` is a hypothesis of the
three theorems that need it; the instances of `ledger_serial` and
`ledger_overlap` fulfil it. Each inductive invariant below was checked by TLC on
the instance of its run before it was proved.

| theorem | of | argument |
|---|---|---|
| `LedgerProofs!TypeCorrect`, `LegsAgree` | `TypeOK`, `TransferLegsAgree` | `IInv`: two rows of a transfer may be rewritten by different transactions, so the legs' agreement must hold of what is pending too: a row is written by one transaction at most (`Exclusive`), links never change (`RefKept`), a deletion holds what it has deleted (`DeletionWrites`) and past `mate` holds both legs, and all other pending writes are complete pairs (`OtherWrites`) |
| `LedgerProofs!OwnersPost`, `DeletedStay` | `PostedByOwner`, `DeletedStays` | `RInv`: `IInv` and, of every request, that what it knows of the rows it is about is true (`OwnAccounts`, `TrueLegs`), that its pending writes are the rows it says (`TrueWrites`), and that its additions to balances are the differences of its legs (`TrueDeltas`). The `WHERE deleted_at IS NULL` of each UPDATE and the row locks keep it so while others commit |
| `LedgerProofs!LedgerIsAtomic` | `CommitsAreAtomic` | refinement under `RInv`: a commit maps to the one action of `AtomicLedger` its kind of request stands for, every other step to a stutter |
| `LedgerProofs!LedgerIsIntended`, `NoneOrphaned` | `ActsOnWhatItFinds`, `NoOrphans` | under `Harmless`: one slot, or no account is closed and every edit sends the same amount. `HInv`: what a request has read is then still so when it commits (`UpToDate`). It says that the findings of section 4 about the ledger come from closing and editing alone |
| `BalanceProofs!OnlyStaleEditsDrift` | `DriftOnlyFromStaleEdits` | `BInv`: `RInv`, and an account that was never opened has no balance. What a commit adds to the balance of an account is compared with what it does to the sum of its live rows, case by case for the kinds of requests; they differ by `old` minus the amount of the row as it is (`StepDrift`) |
| `BalanceProofs!BalancesInSync` | `BalanceInSync` | under `Harmless`: by `HInv` nothing a request has read is out of date, so no commit changes what a balance is off by, which is nothing at the start |
| `BudgetAlertsProofs!TypeCorrect`, `Deduplicated`, `SerialDeduplicated` | `TypeOK`, `DuplicatesBounded`, `OneUnreadEach` for one slot | `BInv`: unread alerts plus the requests that have passed the check never exceed the slots |
| `BudgetAlertsProofs!UndueOnlyFromStale` | `UndueOnlyFromStaleCopy` | `FInv`: a request whose budget nobody changed holds a true copy of a live budget, and the alert it decided on has been called for |
| `SessionsProofs!TypeCorrect`, `Revokes`, `BlacklistBounded`, `SessionsEnd`, `DeactivationWorks`, `SessionsLast` | all invariants of `Sessions` | `IInv`: a request about to issue a token for a session that is over is crossed (`RequestsSound`); a session that is over has no key and gets none (`SessionKeys`); a confirmed revocation outlives its token (`BlacklistKeys`); the deactivated stay inactive (`Gone`) |
| `CategoriesProofs!TypeCorrect`, `StaleCopiesUndo`, `RefusedOnlyByOverlap`, `OwnersOnly` | all properties of `Categories` | `IInv` with `Rightful`: requests about to write one category are of one user even while the row is gone, so that a row brought back by `Save` still has its owner; a copy keeps its owner |
| `AlgorithmsProofs!Categorizes` | `BestRuleWins` | `LoopInv`: after n iterations the best of the first n is held |
| `AlgorithmsProofs!WindowsHoldToday`, `TheyTile`, `TrendsAreNearlyWhole` | `WindowHoldsToday`, `WindowsTile`, `TrendShortByAtMostOne` | `DateInv`: today is a date that exists, whatever year and weekday the calendar starts with; the months before and after one (`Neighbours`), days spilling over them (`WithinMonth`, `BeforeMonth`, `AfterMonth` and those of January and December), and that days add up over such a border (`DaysOfDays`) |
| `AlgorithmsProofs!CountsAreRight` | `CountsMatchRows` | `ListInv`: as sets, what was counted and what is shown differ by rows that were created, marked or deleted since the first statement, each of which is a write |
| `AlgorithmsProofs!PagesOff` | `PagesOffOnePerWrite` | `PagesInv`: on the way, the rows that stay and were passed without being seen, and those that were seen and will be met again, are no more than the writes. A write moves the ranks of the other rows by one, so it takes one row at most across the edge of the page (`Standing`, `Missed`, `Again`); on the last page nothing is left but what lies beyond `total_pages` |
| `SumsProofs!OnlyHalfCentsDrift` | `DriftOnlyFromHalfCents` | `RoundingInv`: the balance and the booked rows differ by ten tenths of a cent at most for each half cent; a row and a balance are rounded by themselves, away from zero |
| `SumsProofs!SummaryTornOnlyByWrites`, `TrendAndExportAgree` | `TornOnlyByWrites`, `TrendAgreesWithExport` | `SummaryInv`, `TrendInv`: what a statement has found is as near what it would find now as has been written since (`Near`, `Within`), and what two statements found is as near each other |
| `SumsProofs!SharesAreWhole` | `SharesAddUp` | each share is within half a hundredth of the exact one, and the exact ones of a breakdown that adds up come to 100 percent |
| `SumsProofs!ReadersTypes` | `TypesOK` of `MCAlgorithms` | the types are part of the invariants above; a step of one reader leaves the others alone |
| `ServiceProofs!ServiceIsServer`, `ServerTypeCorrect`, `ShutdownCutsOffNone` | `GraceCoversAnswers` | every step of `Service` is a step or a stutter of `Server`; `GraceLeft`: once the shutdown has begun, the deadline of every open connection lies within what is left of the grace period |
| `ServiceProofs!ServiceTypeCorrect`, `AnswersAreTrue`, `OnlyInsertsAreDoubled` | `TypeOK`, `AnswersHold`, `OnlyInsertsDouble` | `RequestsInv`, below |

*Sums.* What adds up over a finite set is proved without an induction rule: if
a claim about the subsets of a finite set failed, it would fail for a smallest
one, which there is because strict inclusion is well founded there
(`FS_StrictSubsetOrderingWellFounded`); the empty set and one more element show
that it does not. That gives the sum of a set with one more element
(`SomeAdditive`, `SumIs` and the lemmas after them), on which the rest stands.

*Answers.* `AnswersHold` is about a request that is over, so it says nothing of
one under way. `RequestsInv` does: a request under way has seen the rows as they
are now; of every statement it is past, a write was done, unless there was
nothing left to delete or Redis had failed at a logout, and a row that had to be
there was seen (`Passed`); and a try that was done has a write behind it, so the
next write, if there were one, would be the second (`FirstWrite`). For the
tries, `made` never exceeds `tries`, and as long as nobody has reversed it, what
was deleted is gone and a rule or a user that was made is there (`Effect`),
which is what makes the second try fail. What this needs of the handlers is
`HandlerFits`: no error is given a status that names another reason, an error
names a row that its statement looks at, what follows a write only reads for the
answer. It is checked for each handler of each package in a lemma of its own
(`AccountHandlersFit` and so on), the only place where the tables are opened;
the rest of the proof would be the same for a handler that is added later.

Only model-checked: liveness (`RequestsFinish`, `ShutdownEnds`), which rests on
fairness and so on ENABLED, beyond the prover. Every safety invariant and action
property that a passing run checks is also a theorem. The bounds of the runs on
counters (`MaxWrites`, `MaxSent` and the like) are constants of the theorems
too, any numbers; and that the modules say what the Go code does is nothing
either tool can show.

## 6. What is not modelled

- `config` reads the environment once before anything else runs; `pkg/mailer` is
  empty. Routing, the wording of messages, logging and the format of the CSV file.
- JSON binding and validation beyond that a body may be refused (400): a pure
  function of the request. Category and rule lists: one SELECT each, compared
  with nothing.
- `pkg/database` as far as it is more than a pool with a limit; of the
  migrations, the columns and constraints that another module reads are
  modelled, the indexes and the seed data are not.
- Columns that no other step reads (name, type, `is_active` and icon of an
  account, description and tags of a transaction): `Api` has their updates as
  statements with answers, without the data.
- Passwords and signatures are taken to work. Redis coming back with an older
  snapshot is left out; losing everything is in.
- `Rounding` and `Ledger` are separate: the amounts of the ledger are whole
  cents, so that its drift and that of rounding do not hide each other.

## 7. Plan

Done, in this order: the ledger with its refinement, budgets and alerts, the
pure algorithms, sessions, categories, the readers; proofs of the type
invariants and of the invariants above; rounding; the server with its shutdown,
and on it the answers and retries of every handler, with the proof about the
grace period; the proofs that `Ledger` implements `AtomicLedger`, without races
where nothing is out of date, and of what follows from it; the proofs about the
calendar for every year; the proofs about sums (balances, rounding, reports) and
counts (pages, alerts), and about the answers of every handler.

Left: `RequestsFinish` and `ShutdownEnds`, once the prover knows ENABLED.
