----------------------------- MODULE LedgerData -----------------------------
(***************************************************************************)
(* What the tables accounts and transactions hold, and the arithmetic of   *)
(* balances: shared by the ledger as it runs (Ledger) and by what it       *)
(* promises (AtomicLedger).                                                *)
(***************************************************************************)
EXTENDS Integers

CONSTANTS
    Users,        \* user ids
    Accounts,     \* account ids that may ever be handed out
    Owner,        \* Owner[a]: the user_id that account a is created with
    Openings,     \* initial_balance values a client may send
    Amounts,      \* amounts a client may send (binding gt=0)
    MaxTx,        \* bound: rows ever inserted in transactions
    None          \* nothing there: no such row, no request, no second leg

TxIds == 1 .. MaxTx
NoTx == 0              \* NULL in transfer_reference_id
Types == {"income", "expense"}

(* What the table transactions holds.  live is deleted_at IS NULL; ref is  *)
(* transfer_reference_id.  A transfer is stored as one expense and one     *)
(* income row, so the type "transfer" never reaches the table.             *)
Row == [user : Users, acc : Accounts, type : Types, amt : Amounts,
        ref : TxIds \union {NoTx}, live : BOOLEAN]

(* What the table accounts holds.  opening is a history component: the     *)
(* balance the account was created with.                                   *)
Account == [status : {"none", "open", "deleted"}, balance : Int, opening : Int]

ASSUME LedgerDataAssumption ==
    /\ Owner \in [Accounts -> Users]
    /\ Openings \subseteq Int
    /\ Amounts \subseteq Nat \ {0}
    /\ MaxTx \in Nat
    /\ None \notin Row

NoAccount == [status |-> "none", balance |-> 0, opening |-> 0]
NewAccount(b) == [status |-> "open", balance |-> b, opening |-> b]

(* What a row of the given type and amount adds to its account's balance.  *)
Impact(type, amt) == IF type = "expense" THEN -amt ELSE amt

(* Net(r, a): what the live rows of table r add up to on account a.        *)
RowImpact(r, i, a) ==
    IF r[i] # None /\ r[i].live /\ r[i].acc = a
    THEN Impact(r[i].type, r[i].amt) ELSE 0

Net(r, a) ==
    LET upTo[n \in 0 .. MaxTx] ==
            IF n = 0 THEN 0 ELSE upTo[n - 1] + RowImpact(r, n, a)
    IN  upTo[MaxTx]

=============================================================================
