---------------------------- MODULE AtomicLedger ----------------------------
(***************************************************************************)
(* What the ledger promises: each request that succeeds is one atomic      *)
(* change of the accounts and the transactions, and there is nothing else. *)
(*                                                                         *)
(* With Races = FALSE it is the ledger the service layer means to be: a    *)
(* request acts on what is in the tables when it takes effect.  With       *)
(* Races = TRUE it is the ledger it is when requests overlap: the checks   *)
(* and reads a request makes before its database transaction may be out of *)
(* date, so that                                                           *)
(*   - an edit or a deletion may reverse another amount than the row has,  *)
(*   - an account may be closed although a transaction was just posted, or *)
(*     posted to after it was closed, and then its balance does not move.  *)
(* Even then both legs of a transfer stand and fall together.              *)
(***************************************************************************)
EXTENDS LedgerData

CONSTANT Races

VARIABLES acct, row

vars == <<acct, row>>

IsOpen(a) == acct[a].status = "open"
Live(i) == row[i] # None /\ row[i].live
LiveRowsOf(a) == {i \in TxIds : Live(i) /\ row[i].acc = a}

(* An account a request may post to.                                       *)
Postable(u, a) ==
    /\ Owner[a] = u
    /\ IsOpen(a) \/ (Races /\ acct[a].status = "deleted")

(* The amount a request takes row i to have.                               *)
BelievedAmount(i) == IF Races THEN Amounts ELSE {row[i].amt}

Moved(a, d) == IF IsOpen(a) THEN [acct[a] EXCEPT !.balance = @ + d] ELSE acct[a]

Init ==
    /\ acct = [a \in Accounts |-> NoAccount]
    /\ row = [i \in TxIds |-> None]

Open(a) ==
    /\ acct[a].status = "none"
    /\ \E b \in Openings : acct' = [acct EXCEPT ![a] = NewAccount(b)]
    /\ UNCHANGED row

Posting(a, t, m, ref) ==
    [user |-> Owner[a], acc |-> a, type |-> t, amt |-> m, ref |-> ref,
     live |-> TRUE]

Post(i) ==
    /\ row[i] = None
    /\ \E a \in Accounts, t \in Types, m \in Amounts :
         /\ Postable(Owner[a], a)
         /\ row' = [row EXCEPT ![i] = Posting(a, t, m, NoTx)]
         /\ acct' = [acct EXCEPT ![a] = Moved(a, Impact(t, m))]

Transfer(i, j) ==
    /\ i # j
    /\ row[i] = None /\ row[j] = None
    /\ \E a, b \in Accounts, m \in Amounts :
         /\ a # b
         /\ Postable(Owner[a], a) /\ Postable(Owner[a], b)
         /\ row' = [row EXCEPT ![i] = Posting(a, "expense", m, j),
                               ![j] = Posting(b, "income", m, i)]
         /\ acct' = [acct EXCEPT ![a] = Moved(a, -m), ![b] = Moved(b, m)]

(* Correct the amount of a row that is no leg of a transfer.               *)
Edit(i) ==
    /\ Live(i)
    /\ row[i].ref = NoTx
    /\ \E m \in Amounts, old \in BelievedAmount(i) :
         LET t == row[i].type
             a == row[i].acc
         IN  /\ row' = [row EXCEPT ![i].amt = m]
             /\ acct' = [acct EXCEPT ![a] =
                           Moved(a, Impact(t, m) - Impact(t, old))]

Remove(i) ==
    /\ Live(i)
    /\ row[i].ref = NoTx
    /\ \E old \in BelievedAmount(i) :
         LET a == row[i].acc
         IN  /\ row' = [row EXCEPT ![i].live = FALSE]
             /\ acct' = [acct EXCEPT ![a] =
                           Moved(a, -Impact(row[i].type, old))]

(* Deleting either leg deletes both and reverses both exactly.             *)
RemovePair(i) ==
    LET j == row[i].ref
        a == row[i].acc
        b == row[j].acc
    IN
    /\ Live(i)
    /\ j # NoTx
    /\ Live(j)
    /\ a # b
    /\ row' = [row EXCEPT ![i].live = FALSE, ![j].live = FALSE]
    /\ acct' = [acct EXCEPT
                  ![a] = Moved(a, -Impact(row[i].type, row[i].amt)),
                  ![b] = Moved(b, -Impact(row[j].type, row[j].amt))]

Close(a) ==
    /\ IsOpen(a)
    /\ Races \/ LiveRowsOf(a) = {}
    /\ acct' = [acct EXCEPT ![a].status = "deleted"]
    /\ UNCHANGED row

Next ==
    \/ \E a \in Accounts : Open(a) \/ Close(a)
    \/ \E i \in TxIds : Post(i) \/ Edit(i) \/ Remove(i) \/ RemovePair(i)
    \/ \E i, j \in TxIds : Transfer(i, j)

Spec == Init /\ [][Next]_vars

=============================================================================
