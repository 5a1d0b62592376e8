----------------------------- MODULE Categories -----------------------------
(***************************************************************************)
(* Categories and what refers to them: internal/categories, internal/rules *)
(* and the category of a transaction (internal/transactions), with the     *)
(* foreign keys of the migrations.  A request is a goroutine; one step is  *)
(* one SQL statement of it, which PostgreSQL makes atomic.  Requests that  *)
(* are refused before they change anything have no action.                 *)
(***************************************************************************)
EXTENDS Integers, Sequences

CONSTANTS
    Users,    \* people
    Slots,    \* requests at work at the same time
    Names,    \* names of categories
    Looks,    \* icons and colours
    NoLook,   \* the empty one
    Keywords, \* keywords of rules, regardless of case
    MaxCats,  \* bound: categories ever made, the first one by the migration
    MaxTxs,   \* bound: transactions with a category ever posted
    System,   \* user_id IS NULL: the owner of the system categories
    None      \* no such row, or NULL

CatIds == 1 .. MaxCats

Row == [owner : Users \union {System}, name : Names, look : Looks]

Rule == [user : Users, keyword : Keywords, cat : CatIds]

Tx == [user : Users, cat : CatIds \union {None}]

ASSUME CategoriesAssumption ==
    /\ MaxCats \in Nat \ {0}
    /\ MaxTxs \in Nat
    /\ NoLook \in Looks
    /\ System \notin Users
    /\ None \notin Row
    /\ None \notin Names
    /\ None \notin CatIds

VARIABLES
    cats,   \* table categories
    made,   \* its sequence: the last id given out
    rules,  \* table categorization_rules
    txs,    \* table transactions: whose, and the category
    req,    \* what each request is about to do
    \* Ghosts
    meant,  \* the categories as the requests that were answered meant them
    raced   \* the categories saved from a copy that was out of date

tables == <<cats, made, rules, txs>>
ghosts == <<meant, raced>>
vars == <<tables, req, ghosts>>

(* The local variables of a request: the row it read and the row it is     *)
(* about to write, or the category of the transaction it is about to post; *)
(* auto if a rule chose it; crossed if it was deleted since.               *)
Request ==
    [pc : {"idle", "save", "insert", "delete", "post"},
     user : Users \union {None},
     cat : CatIds, old : Row \union {None}, new : Row \union {None},
     auto : BOOLEAN, crossed : BOOLEAN]

Idle == [pc |-> "idle", user |-> None, cat |-> 1,
         old |-> None, new |-> None, auto |-> FALSE, crossed |-> FALSE]

Exists(c) == cats[c] # None

(* With the foreign keys and the unique index (user_id, lower(keyword)).   *)
TypeOK ==
    /\ cats \in [CatIds -> Row \union {None}]
    /\ made \in CatIds
    /\ \A c \in CatIds : Exists(c) => c <= made
    /\ rules \subseteq Rule
    /\ \A r \in rules : Exists(r.cat)
    /\ \A r, q \in rules : r.user = q.user /\ r.keyword = q.keyword => r = q
    /\ txs \in Seq(Tx) /\ Len(txs) <= MaxTxs
    /\ \A i \in 1 .. Len(txs) : txs[i].cat # None => Exists(txs[i].cat)
    /\ req \in [Slots -> Request]
    /\ \A s \in Slots : req[s].pc # "idle" => req[s].user \in Users
    /\ meant \in [CatIds -> Row \union {None}]
    /\ raced \subseteq CatIds

Init ==
    /\ \E row \in Row :
         /\ row.owner = System
         /\ cats = [c \in CatIds |-> IF c = 1 THEN row ELSE None]
    /\ made = 1
    /\ rules = {}
    /\ txs = <<>>
    /\ req = [s \in Slots |-> Idle]
    /\ meant = cats
    /\ raced = {}

-----------------------------------------------------------------------------
(* Categories.                                                             *)

CreateCategory(u, name, look) ==
    LET c == made + 1
        row == [owner |-> u, name |-> name, look |-> look]
    IN
    /\ made < MaxCats
    /\ made' = c
    /\ cats' = [cats EXCEPT ![c] = row]
    /\ meant' = [meant EXCEPT ![c] = row]
    /\ UNCHANGED <<rules, txs, req, raced>>

(* FindByID and the checks of Update and Delete.                           *)
Mine_System(u, c) == Exists(c) /\ cats[c].owner \in {u, System}

Mine(u, c) == Exists(c) /\ cats[c].owner = u

(* Update reads the row and fills in what the body has: no name (None)     *)
(* leaves the name, but no icon or colour empties them.                    *)
UpdateRequest(s, u, c, name, look) ==
    LET row == [cats[c] EXCEPT !.name = IF name = None THEN @ ELSE name,
                               !.look = look]
    IN
    /\ req[s].pc = "idle"
    /\ Mine(u, c)
    /\ row # cats[c]
    /\ req' = [req EXCEPT ![s] =
                 [Idle EXCEPT !.pc = "save", !.user = u, !.cat = c,
                              !.old = cats[c], !.new = row]]
    /\ UNCHANGED <<tables, ghosts>>

(* Ghost: what a request meant, put on top of the row.                     *)
Amended(row, old, new) ==
    IF row = None THEN new
    ELSE [row EXCEPT !.name = IF new.name # old.name THEN new.name ELSE @,
                     !.look = IF new.look # old.look THEN new.look ELSE @]

(* What Save writes: all columns.                                          *)
Stored_NonZeroOnly(s) ==
    [req[s].new EXCEPT !.look = IF @ = NoLook THEN req[s].old.look ELSE @]

Stored(s) == req[s].new

Written(s) ==
    LET c == req[s].cat IN
    /\ cats' = [cats EXCEPT ![c] = Stored(s)]
    /\ raced' = IF cats[c] = req[s].old THEN raced ELSE raced \union {c}
    /\ meant' = IF meant[c] = None THEN meant
                ELSE [meant EXCEPT ![c] = Amended(@, req[s].old, req[s].new)]
    /\ req' = [req EXCEPT ![s] = Idle]
    /\ UNCHANGED <<made, rules, txs>>

(* gorm's Save is an UPDATE of all columns; if it finds no row, an INSERT  *)
(* of the row follows, ON CONFLICT an UPDATE again.                        *)
Save(s) ==
    /\ req[s].pc = "save"
    /\ IF Exists(req[s].cat) THEN Written(s)
       ELSE /\ req' = [req EXCEPT ![s].pc = "insert"]
            /\ UNCHANGED <<tables, ghosts>>

InsertSaved(s) ==
    /\ req[s].pc = "insert"
    /\ Written(s)

DeleteRequest(s, u, c) ==
    /\ req[s].pc = "idle"
    /\ Mine(u, c)
    /\ req' = [req EXCEPT ![s] =
                 [Idle EXCEPT !.pc = "delete", !.user = u, !.cat = c]]
    /\ UNCHANGED <<tables, ghosts>>

(* ON DELETE CASCADE takes the rules along, ON DELETE SET NULL empties the *)
(* category of the transactions.  Whether there was a row to delete is not *)
(* looked at.                                                              *)
RulesWithout_Kept(c) == rules

RulesWithout(c) == {r \in rules : r.cat # c}

DeleteCategory(s) ==
    LET c == req[s].cat IN
    /\ req[s].pc = "delete"
    /\ cats' = [cats EXCEPT ![c] = None]
    /\ meant' = [meant EXCEPT ![c] = None]
    /\ rules' = RulesWithout(c)
    /\ txs' = [i \in 1 .. Len(txs) |->
                 [txs[i] EXCEPT !.cat = IF @ = c THEN None ELSE @]]
    /\ req' = [t \in Slots |->
                 IF t = s THEN Idle
                 ELSE IF req[t].pc = "post" /\ req[t].cat = c
                      THEN [req[t] EXCEPT !.crossed = TRUE] ELSE req[t]]
    /\ UNCHANGED <<made, raced>>

(* A request ends early: a statement fails, or the server crashes.         *)
Fail(s) ==
    /\ req[s].pc # "idle"
    /\ req' = [req EXCEPT ![s] = Idle]
    /\ UNCHANGED <<tables, ghosts>>

-----------------------------------------------------------------------------
(* Rules: one INSERT, one DELETE.  The category may be anybody's; the      *)
(* foreign key wants it to exist.                                          *)

CreateRule(u, k, c) ==
    /\ Exists(c)
    /\ ~\E r \in rules : r.user = u /\ r.keyword = k
    /\ rules' = rules \union {[user |-> u, keyword |-> k, cat |-> c]}
    /\ UNCHANGED <<cats, made, txs, req, ghosts>>

DeleteRule(u, k) ==
    /\ \E r \in rules : r.user = u /\ r.keyword = k
    /\ rules' = {r \in rules : ~(r.user = u /\ r.keyword = k)}
    /\ UNCHANGED <<cats, made, txs, req, ghosts>>

-----------------------------------------------------------------------------
(* Transactions, as far as categories go: Create takes the category from   *)
(* the body, or else from the rule that wins, and inserts the row later.   *)

Posts(s, u, c, auto) ==
    req' = [req EXCEPT ![s] = [Idle EXCEPT !.pc = "post", !.user = u,
                                           !.cat = c, !.auto = auto]]

PostRequest(s, u) ==
    /\ req[s].pc = "idle"
    /\ \/ \E c \in CatIds : Posts(s, u, c, FALSE)
       \/ \E r \in rules : r.user = u /\ Posts(s, u, r.cat, TRUE)
    /\ UNCHANGED <<tables, ghosts>>

(* The foreign key refuses a category that is not there.                   *)
InsertTx(s) ==
    /\ req[s].pc = "post"
    /\ Len(txs) < MaxTxs
    /\ txs' = IF Exists(req[s].cat)
              THEN Append(txs, [user |-> req[s].user, cat |-> req[s].cat])
              ELSE txs
    /\ req' = [req EXCEPT ![s] = Idle]
    /\ UNCHANGED <<cats, made, rules, ghosts>>

-----------------------------------------------------------------------------
Handle(s) ==
    \/ \E u \in Users, c \in CatIds :
         \/ \E name \in Names \union {None}, look \in Looks :
              UpdateRequest(s, u, c, name, look)
         \/ DeleteRequest(s, u, c)
    \/ \E u \in Users : PostRequest(s, u)
    \/ Save(s)
    \/ InsertSaved(s)
    \/ DeleteCategory(s)
    \/ InsertTx(s)
    \/ Fail(s)

Next ==
    \/ \E u \in Users, name \in Names, look \in Looks :
         CreateCategory(u, name, look)
    \/ \E u \in Users, k \in Keywords, c \in CatIds : CreateRule(u, k, c)
    \/ \E u \in Users, k \in Keywords : DeleteRule(u, k)
    \/ \E s \in Slots : Handle(s)

Spec == Init /\ [][Next]_vars

-----------------------------------------------------------------------------
(* An edit or a deletion that was answered holds, field by field, until    *)
(* the next one: only a request that saves an outdated copy of the row     *)
(* takes it back (categories/service.go:131-166).                          *)
OnlyStaleCopiesUndo ==
    \A c \in CatIds : cats[c] = meant[c] \/ c \in raced

(* System categories are read-only, and nobody changes another's           *)
(* (categories/service.go:137-145, 176-184).                               *)
ChangedByOwner ==
    [][\A c \in CatIds :
         Exists(c) /\ cats'[c] # cats[c] =>
             \E s \in Slots :
                 /\ req[s].pc # "idle"
                 /\ req[s].cat = c /\ req[s].user = cats[c].owner]_vars

(* A posting that leaves the category to the rules is refused for it only  *)
(* if the category was deleted since the rules were read: no rule outlives *)
(* its category (transactions/service.go:114-127).                         *)
AutoCategoryRefusedOnlyByOverlap ==
    \A s \in Slots :
        req[s].pc = "post" /\ req[s].auto /\ ~Exists(req[s].cat) => req[s].crossed

=============================================================================
