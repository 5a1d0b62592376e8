-------------------------------- MODULE Api --------------------------------
(***************************************************************************)
(* What a client is told.  Every handler of the API is a list of           *)
(* statements on the row its request names; each may find the row or not,  *)
(* and each may fail, with the failure of a write leaving open whether it  *)
(* took effect.  The service turns what happens into an error, the handler *)
(* turns the error into a status.  Clients ask one request at a time and   *)
(* repeat one whose answer was 500 or never came.  The other modules have  *)
(* what the statements do to the tables in detail; here a request is       *)
(* followed from the client's side, with everybody else's requests in      *)
(* between.                                                                *)
(***************************************************************************)
EXTENDS Naturals, Sequences

CONSTANTS
    Clients,
    None,     \* no error
    MaxTries  \* bound: how often a client sends one request

VARIABLES
    kind,   \* of the row the requests are about, one for a whole behaviour
    there,  \* whether it is there; for users and rules, a row with the same
            \* unique column; for sessions, the key in Redis
    other,  \* whether the row it depends on stands: a transaction of the
            \* account, the account of the transaction, the category of the
            \* rule, the active user of the session
    req     \* of each client, its request

-----------------------------------------------------------------------------
(* Services: a statement is what is done, the error if its row is not as   *)
(* it should be, the error if it fails, and the refusals the service may   *)
(* come to from what it has read.  Without an error the next one follows.  *)

Stmt(does, miss, fail) ==
    [does |-> does, miss |-> miss, fail |-> fail, may |-> {}]

Judged(stmt, refusals) == [stmt EXCEPT !.may = refusals]

(* SELECT ... WHERE id = ? AND user_id = ?, First.                         *)
Find == Stmt("find", "NotFound", "Failed")

(* UPDATE and soft DELETE that look at RowsAffected.                       *)
Change(miss) == Stmt("change", miss, "Failed")

Remove(miss) == Stmt("remove", miss, "Failed")

(* INSERT of a row without and with a unique column.                       *)
Insert == Stmt("insert", None, "Failed")

Claim(taken) == Stmt("claim", taken, "Failed")

(* HasTransactions, and the account of a posting.                          *)
Unused == Stmt("unused", "InUse", "Failed")

Stands == Stmt("stands", "NotFound", "Failed")

(* A SELECT that only adds to the answer.                                  *)
Read == Stmt("read", None, "Failed")

(* The COUNT of the account summary, whose error nobody looks at.          *)
Stats == Stmt("stats", None, None)

CreateAccount == <<Insert>>

ListAccounts == <<Read, Read>>

GetAccount == <<Find>>

GetSummary == <<Find, Stats>>

UpdateAccount == <<Change("NotFound")>> \o GetAccount

DeleteAccount_TooSoon == <<Find, Remove("NotFound"), Unused>>

DeleteAccount == <<Find, Unused, Remove("NotFound")>>

(* The statements of a database transaction are one here; an error inside  *)
(* reaches the handler wrapped, a missing row too.                         *)
CreateTransaction == <<Stands, Insert>>

ListTransactions == <<Read, Read>>

GetTransaction == <<Find>>

UpdateTransaction ==
    <<Judged(Find, {"Invalid"}), Change("Failed")>> \o GetTransaction

DeleteTransaction == <<Find, Remove("Failed")>>

(* Every failure of FindByID is ErrCategoryNotFound.                       *)
FindCategory == Stmt("find", "NotFound", "NotFound")

CreateCategory == <<Insert>>

ListCategories == <<Read>>

GetCategory == <<FindCategory>>

(* Save puts a deleted row back.                                           *)
UpdateCategory ==
    <<Judged(FindCategory, {"System", "Invalid"}),
      Stmt("save", None, "Failed")>>

(* This DELETE, and that of a rule, do not look at RowsAffected.           *)
DeleteCategory == <<Judged(FindCategory, {"System"}), Remove(None)>>

(* Whatever was asked for, the answer has the spending of the budget.      *)
CreateBudget == <<Insert, Read>>

GetBudget == <<Find, Read>>

(* The sums follow the list, here for one budget.                          *)
ListBudgets == <<Read, Read, Read>>

UpdateBudget == <<Change("NotFound")>> \o GetBudget

DeleteBudget == <<Remove("NotFound")>>

ListAlerts == <<Read, Read, Read>>

MarkRead == <<Change("NotFound")>>

MarkAllRead == <<Stmt("change all", None, "Failed")>>

DeleteAlert == <<Remove("NotFound")>>

CreateRule_NotUnique == <<Insert>>

CreateRule == <<Claim("Taken")>>

ListRules == <<Read>>

DeleteRule == <<Find, Remove(None)>>

(* A race for the email that the INSERT loses is an error like any other.  *)
Register == <<Stmt("absent", "Taken", "Failed"), Claim("Failed")>>

(* Whatever goes wrong in reading the user, the credentials are invalid.   *)
(* The key in Redis is required, in development it is not.                 *)
Login ==
    <<Judged(Stmt("find", "Credentials", "Credentials"),
             {"Credentials", "Inactive"}),
      Stmt("store", None, "Failed")>>

(* Redis first, then the user; no failure is told from an invalid token.   *)
Refresh ==
    <<Stmt("find", "Token", "Token"), Stmt("stands", "Token", "Token")>>

(* The blacklist and the key: whether Redis does either is not looked at.  *)
Logout == <<Stmt("blacklist", None, None), Stmt("remove", None, None)>>

GetMonthlySummary == <<Read, Read, Read>>

GetTrend == <<Read>>

GetExportRows == <<Read>>

-----------------------------------------------------------------------------
(* Handlers: the service, the status of success, and those of errors; any  *)
(* other error is a 500.                                                   *)

Handler(steps, done, errors) ==
    [steps |-> steps, done |-> done, errors |-> errors]

NoErrors == <<>>

NotFound == [NotFound |-> 404]

accounts_create == Handler(CreateAccount, 201, NoErrors)

accounts_list == Handler(ListAccounts, 200, NoErrors)

accounts_getByID == Handler(GetAccount, 200, NotFound)

accounts_getSummary == Handler(GetSummary, 200, NotFound)

accounts_update == Handler(UpdateAccount, 200, NotFound)

accounts_delete ==
    Handler(DeleteAccount, 200, [NotFound |-> 404, InUse |-> 409])

transactions_handleServiceError == [NotFound |-> 404, Invalid |-> 400]

transactions_create ==
    Handler(CreateTransaction, 201, transactions_handleServiceError)

transactions_list == Handler(ListTransactions, 200, NoErrors)

transactions_getByID ==
    Handler(GetTransaction, 200, transactions_handleServiceError)

transactions_update ==
    Handler(UpdateTransaction, 200, transactions_handleServiceError)

transactions_delete ==
    Handler(DeleteTransaction, 200, transactions_handleServiceError)

categories_handleServiceError ==
    [NotFound |-> 404, System |-> 403, Invalid |-> 400]

categories_create ==
    Handler(CreateCategory, 201, categories_handleServiceError)

categories_list ==
    Handler(ListCategories, 200, categories_handleServiceError)

categories_getByID ==
    Handler(GetCategory, 200, categories_handleServiceError)

categories_update ==
    Handler(UpdateCategory, 200, categories_handleServiceError)

categories_delete ==
    Handler(DeleteCategory, 200, categories_handleServiceError)

budgets_handleError == NotFound

budgets_create == Handler(CreateBudget, 201, budgets_handleError)

budgets_list == Handler(ListBudgets, 200, NoErrors)

budgets_getByID == Handler(GetBudget, 200, budgets_handleError)

budgets_update == Handler(UpdateBudget, 200, budgets_handleError)

budgets_delete == Handler(DeleteBudget, 200, budgets_handleError)

alerts_list == Handler(ListAlerts, 200, NoErrors)

alerts_markAllRead == Handler(MarkAllRead, 200, NoErrors)

alerts_markRead == Handler(MarkRead, 200, NotFound)

alerts_delete == Handler(DeleteAlert, 200, NotFound)

rules_handleServiceError == [NotFound |-> 404, Taken |-> 409]

rules_create == Handler(CreateRule, 201, rules_handleServiceError)

rules_list == Handler(ListRules, 200, rules_handleServiceError)

rules_delete == Handler(DeleteRule, 200, rules_handleServiceError)

auth_register == Handler(Register, 201, [Taken |-> 409])

auth_login ==
    Handler(Login, 200, [Credentials |-> 401, Inactive |-> 403])

auth_refresh == Handler(Refresh, 200, [Token |-> 401])

auth_logout == Handler(Logout, 200, NoErrors)

reports_monthly == Handler(GetMonthlySummary, 200, NoErrors)

reports_trends == Handler(GetTrend, 200, NoErrors)

(* Once the rows are there the status is sent; a file that then breaks off *)
(* is no answer.                                                           *)
reports_export == Handler(GetExportRows, 200, NoErrors)

(* The groups of routes.                                                   *)
Routes ==
    [account |->
        [create |-> accounts_create, list |-> accounts_list,
         get |-> accounts_getByID, summary |-> accounts_getSummary,
         update |-> accounts_update, delete |-> accounts_delete],
     transaction |->
        [create |-> transactions_create, list |-> transactions_list,
         get |-> transactions_getByID, update |-> transactions_update,
         delete |-> transactions_delete],
     category |->
        [create |-> categories_create, list |-> categories_list,
         get |-> categories_getByID, update |-> categories_update,
         delete |-> categories_delete],
     budget |->
        [create |-> budgets_create, list |-> budgets_list,
         get |-> budgets_getByID, update |-> budgets_update,
         delete |-> budgets_delete],
     alert |->
        [list |-> alerts_list, update |-> alerts_markRead,
         updateAll |-> alerts_markAllRead, delete |-> alerts_delete],
     rule |-> [create |-> rules_create, list |-> rules_list,
               delete |-> rules_delete],
     report |-> [monthly |-> reports_monthly, trends |-> reports_trends,
                 export |-> reports_export],
     user |-> [create |-> auth_register, login |-> auth_login],
     session |-> [refresh |-> auth_refresh, logout |-> auth_logout]]

Ops == DOMAIN Routes[kind]

HandlerOf(c) == Routes[kind][req[c].op]

Status(c, error) ==
    LET errors == HandlerOf(c).errors
    IN IF error \in DOMAIN errors THEN errors[error] ELSE 500

-----------------------------------------------------------------------------
(* A request, with what its client may conclude from it.                   *)

Facts == {"there", "gone", "other", "clear"}

Request ==
    [op : {"none", "create", "list", "get", "summary", "update", "updateAll",
           "delete", "login", "refresh", "logout", "monthly", "trends",
           "export"},
     at : Nat,           \* its next statement; 0 while it is not served
     out : {0, 200, 201, 400, 401, 403, 404, 409, 500},
                         \* the status, once there is one
     empty : BOOLEAN,    \* the summary has no transactions
     \* Ghosts
     tries : 0 .. MaxTries,
     made : 0 .. MaxTries,   \* how many of them took effect
     undone : BOOLEAN,       \* another request has reversed that
     did : BOOLEAN,          \* this try took effect
     failed : BOOLEAN,       \* a statement of this try failed
     saw : SUBSET Facts]     \* what was so at some time of this try

ApiTypeOK ==
    /\ kind \in DOMAIN Routes
    /\ there \in BOOLEAN
    /\ other \in BOOLEAN
    /\ req \in [Clients -> Request]

Idle ==
    [op |-> "none", at |-> 0, out |-> 0, empty |-> FALSE, tries |-> 0,
     made |-> 0, undone |-> FALSE, did |-> FALSE, failed |-> FALSE,
     saw |-> {}]

ApiInit ==
    /\ kind \in DOMAIN Routes
    /\ there \in IF kind = "report" THEN {TRUE} ELSE BOOLEAN
    /\ other \in IF kind \in {"account", "transaction", "rule", "session"}
                 THEN BOOLEAN ELSE {TRUE}
    /\ kind = "rule" => (there => other)
    /\ req = [c \in Clients |-> Idle]

Serving(c) == req[c].at > 0 /\ req[c].out = 0

Now(is, stands) ==
    {IF is THEN "there" ELSE "gone", IF stands THEN "other" ELSE "clear"}

(* Everybody who is served sees the rows as r, is and stands leave them;   *)
(* whose own effect is reversed by somebody else, by is, remembers that.   *)
Witnessed(r, is, stands, by) ==
    [c \in Clients |->
        LET seen == IF r[c].at > 0 /\ r[c].out = 0
                    THEN [r[c] EXCEPT !.saw = @ \union Now(is, stands)]
                    ELSE r[c]
        IN [seen EXCEPT
               !.undone = @ \/ (r[c].made > 0 /\ c # by /\ is # there)]]

(* A client asks something new, or once more what got no answer.           *)
Ask(c, op) ==
    /\ req[c].at = 0
    /\ req' = [req EXCEPT ![c] =
                 [Idle EXCEPT !.op = op, !.at = 1, !.tries = 1,
                              !.saw = Now(there, other)]]
    /\ UNCHANGED <<kind, there, other>>

AskAgain(c) ==
    /\ req[c].at = 0
    /\ req[c].tries \in 1 .. MaxTries - 1
    /\ req' = [req EXCEPT ![c].at = 1, ![c].tries = @ + 1,
                          ![c].saw = Now(there, other)]
    /\ UNCHANGED <<kind, there, other>>

(* The middleware refuses the access token, or the handler or the service  *)
(* what is asked: an id, a body, a type, a month.                          *)
Refusals(c) ==
    (IF kind = "user" \/ req[c].op = "refresh" THEN {} ELSE {401}) \union
    (IF req[c].op \in {"list", "updateAll", "logout"} /\ kind # "category"
     THEN {} ELSE {400})

Refuse(c) ==
    /\ Serving(c)
    /\ req[c].at = 1
    /\ \E status \in Refusals(c) : req' = [req EXCEPT ![c].out = status]
    /\ UNCHANGED <<kind, there, other>>

-----------------------------------------------------------------------------
(* Statements.                                                             *)

Current(c) == HandlerOf(c).steps[req[c].at]

Writes == {"change", "change all", "save", "remove", "insert", "claim"}

(* The rows are as the statement wants them.                               *)
Fits(does) ==
    CASE does \in {"find", "change", "remove"} -> there
      [] does = "absent" -> ~there
      [] does = "claim" -> ~there /\ (kind = "rule" => other)
      [] does = "unused" -> ~other
      [] does = "stands" -> other
      [] OTHER -> TRUE

(* A foreign key refuses a rule without its category: no error the service *)
(* has a name for.                                                         *)
Misfit(stmt) ==
    IF stmt.does = "claim" /\ ~there THEN "Failed" ELSE stmt.miss

(* c's statement has ended in error, or in none, and took effect or not.   *)
Ended(c, error, did, failed) ==
    LET h == HandlerOf(c)
        does == Current(c).does
        step ==
            CASE error # None -> [req[c] EXCEPT !.out = Status(c, error)]
              [] error = None /\ req[c].at < Len(h.steps) ->
                    [req[c] EXCEPT !.at = @ + 1]
              [] OTHER -> [req[c] EXCEPT !.out = h.done]
        mine ==
            [step EXCEPT !.did = @ \/ did, !.made = IF did THEN @ + 1 ELSE @,
                         !.failed = @ \/ failed,
                         !.empty = does = "stats" /\ (failed \/ ~other)]
    IN /\ there' = CASE did /\ does \in {"save", "claim"} -> TRUE
                     [] did /\ does = "remove" -> FALSE
                     [] OTHER -> there
       /\ req' = Witnessed([req EXCEPT ![c] = mine], there', other, c)
       /\ UNCHANGED <<kind, other>>

Statement(c) ==
    /\ Serving(c)
    /\ LET stmt == Current(c)
           fits == Fits(stmt.does)
           writes == stmt.does \in Writes
       IN \/ /\ fits
             /\ \E error \in {None} \union stmt.may :
                    Ended(c, error, writes, FALSE)
          \/ /\ ~fits
             /\ Ended(c, Misfit(stmt), FALSE, FALSE)
          \* It fails: the context is cancelled, the connection breaks, or
          \* the answer to a COMMIT that was done is lost.
          \/ \E did \in {FALSE, fits /\ writes} :
                 Ended(c, stmt.fail, did, TRUE)

(* Everybody else's requests: the same on this row, as far as they change  *)
(* whether it is there, and those about the other rows, where transactions *)
(* are posted and deleted, accounts opened and closed, and categories      *)
(* deleted with their rules.  Sessions expire, users are deactivated.      *)
Elsewhere ==
    /\ \/ /\ there /\ kind \notin {"user", "report"}
          /\ there' = FALSE /\ other' = other
       \/ /\ ~there /\ kind \in {"category", "rule", "user"}
          /\ kind = "rule" => other
          /\ there' = TRUE /\ other' = other
       \/ /\ kind \in {"account", "transaction"}
          /\ other' = ~other /\ there' = there
       \/ /\ kind = "rule" /\ other
          /\ other' = FALSE /\ there' = FALSE
       \/ /\ kind = "session" /\ other
          /\ other' = FALSE /\ there' = there
    /\ req' = Witnessed(req, there', other', None)
    /\ UNCHANGED kind

-----------------------------------------------------------------------------
(* The end of a try, for the client.                                       *)

WithoutAnswer(r) ==
    IF r.tries < MaxTries
    THEN [Idle EXCEPT !.op = r.op, !.tries = r.tries, !.made = r.made,
                      !.undone = r.undone]
    ELSE Idle

(* An answer, which ends the request unless it is a 500.                   *)
Answered(c) ==
    /\ req[c].out # 0
    /\ req' = [req EXCEPT ![c] = IF @.out = 500 THEN WithoutAnswer(@) ELSE Idle]
    /\ UNCHANGED <<kind, there, other>>

(* The handler has returned, but nothing reaches the client.               *)
Unanswered(c) ==
    /\ req[c].out # 0
    /\ req' = [req EXCEPT ![c] = WithoutAnswer(@)]
    /\ UNCHANGED <<kind, there, other>>

(* The process ends, and every request it serves with it.                  *)
CutOff ==
    /\ req' = [c \in Clients |-> IF req[c].at > 0 THEN WithoutAnswer(req[c])
                                  ELSE req[c]]
    /\ UNCHANGED <<kind, there, other>>

-----------------------------------------------------------------------------
(* What an answer tells.                                                   *)

WritesOf(c) ==
    \E n \in 1 .. Len(HandlerOf(c).steps) :
        HandlerOf(c).steps[n].does \in Writes

(* Success: it is done.  A category, rule or session that is not there any *)
(* more counts as deleted, and a logout counts as done if Redis failed.    *)
SuccessIsDone(c) ==
    req[c].out \in {200, 201} =>
        IF WritesOf(c)
        THEN \/ req[c].did
             \/ /\ kind \in {"category", "rule", "session"}
                /\ req[c].op \in {"delete", "logout"}
                /\ "gone" \in req[c].saw
             \/ req[c].op = "logout" /\ req[c].failed
        ELSE /\ req[c].op \in {"get", "summary", "login", "refresh"}
                  => "there" \in req[c].saw
             /\ req[c].op = "refresh" => "other" \in req[c].saw

(* Refusal: nothing is done, but that an account, a transaction or a       *)
(* budget may be deleted between its update and the reading for the answer *)
RefusalIsUndone(c) ==
    req[c].out \in 400 .. 499 /\ req[c].did =>
        /\ req[c].op = "update" /\ req[c].out = 404
        /\ kind \in {"account", "transaction", "budget"}
        /\ "gone" \in req[c].saw

(* The reason given was so at some time of the request; a category may     *)
(* also be called unknown, and a session invalid, when it could not be     *)
(* read.                                                                   *)
ReasonHolds(c) ==
    /\ req[c].out = 404 =>
         CASE kind = "transaction" /\ req[c].op = "create" ->
                 "clear" \in req[c].saw
           [] kind = "category" -> "gone" \in req[c].saw \/ req[c].failed
           [] OTHER -> "gone" \in req[c].saw
    /\ req[c].out = 409 =>
         (IF kind = "account" THEN "other" ELSE "there") \in req[c].saw
    /\ req[c].out = 401 /\ req[c].op = "refresh" =>
         req[c].saw \intersect {"gone", "clear"} # {} \/ req[c].failed
    /\ req[c].out = 200 /\ req[c].empty =>
         "clear" \in req[c].saw \/ req[c].failed

(* 500 is for failures, and for three races that the database decides: for *)
(* a transaction, for an email and for the category of a rule.             *)
FailureIsReal(c) ==
    req[c].out = 500 /\ ~req[c].failed =>
        \/ kind = "transaction" /\ "gone" \in req[c].saw
        \/ kind = "user" /\ "there" \in req[c].saw
        \/ kind = "rule" /\ "clear" \in req[c].saw

(* Whatever others do between the statements, each status says what was so *)
(* at some time of the request, and what the request did (the handlers of  *)
(* internal/, for example accounts/handler.go:219-249).                    *)
AnswersHold ==
    \A c \in Clients :
        /\ SuccessIsDone(c) /\ RefusalIsUndone(c)
        /\ ReasonHolds(c) /\ FailureIsReal(c)

(* A client who repeats a request that got no answer does it twice only if *)
(* it is an update, or inserts a row without a unique column (postings     *)
(* have no idempotency key), or another request has reversed the first     *)
(* (transactions/service.go:150-159, auth/service.go:87-113).              *)
OnlyInsertsDouble ==
    \A c \in Clients :
        req[c].made > 1 =>
            \/ req[c].op \in {"update", "updateAll"}
            \/ req[c].op = "create" /\ kind \notin {"rule", "user"}
            \/ req[c].undone

=============================================================================
