------------------------------- MODULE Rounding -------------------------------
(***************************************************************************)
(* Amounts with fractions of a cent.  A request may send any positive      *)
(* amount, the columns amount and balance are NUMERIC(15,2): the amount is *)
(* rounded as a row of transactions, and once more, unrounded, inside      *)
(* balance + delta.  One account, one request after the other; what their  *)
(* overlap does is a matter of Ledger.  Money is in tenths of a cent.      *)
(***************************************************************************)
EXTENDS Integers, Functions

CONSTANTS
    Bookings,    \* ids of transactions
    SentAmounts, \* what requests send
    Openings,    \* initial balances
    MaxSent      \* bound: how many amounts are sent

VARIABLES
    opening,  \* the balance the account was opened with
    balance,  \* of the account
    booked,   \* the signed amount of each live transaction; 0 if there is
              \* none, or one of less than half a cent, whose editing is like
              \* posting and whose deletion changes nothing
    \* Ghosts
    sent,     \* how many amounts were sent
    halves    \* how many of them end in half a cent

vars == <<opening, balance, booked, sent, halves>>

Cent == 10

Magnitude(x) == IF x < 0 THEN -x ELSE x

(* NUMERIC(15,2): to the nearest cent, half a cent away from zero.         *)
Rounded(x) ==
    LET cents == Cent * ((Magnitude(x) + Cent \div 2) \div Cent)
    IN IF x < 0 THEN -cents ELSE cents

Half(x) == x % Cent = Cent \div 2

(* The sum of the live transactions.                                       *)
Total == FoldFunction(+, 0, booked)

TypeOK ==
    /\ opening \in Int /\ balance \in Int
    /\ balance % Cent = 0
    /\ booked \in [Bookings -> Int]
    /\ \A b \in Bookings : booked[b] % Cent = 0
    /\ sent \in 0 .. MaxSent /\ halves \in 0 .. sent

-----------------------------------------------------------------------------
Init ==
    /\ \E initial \in Openings : opening = Rounded(initial)
    /\ balance = opening
    /\ booked = [b \in Bookings |-> 0]
    /\ sent = 0 /\ halves = 0

Sends(x) ==
    /\ sent < MaxSent
    /\ sent' = sent + 1
    /\ halves' = IF Half(x) THEN halves + 1 ELSE halves

(* What becomes of an amount in its row.                                   *)
Stored_Truncated(x) ==
    IF x < 0 THEN 0 - Cent * (Magnitude(x) \div Cent) ELSE Cent * (x \div Cent)

Stored(x) == Rounded(x)

(* Create: the row and the balance each get the amount as it was sent.  It *)
(* is the shortest decimal that gives the float64, so ties are ties.       *)
Post(b, sign, x) ==
    /\ booked[b] = 0
    /\ Sends(x)
    /\ booked' = [booked EXCEPT ![b] = Stored(sign * x)]
    /\ balance' = Rounded(balance + sign * x)
    /\ UNCHANGED opening

(* Update: the correction is a difference of two float64, so half a cent   *)
(* may go either way.                                                      *)
Corrected(diff) ==
    IF Half(balance + diff)
    THEN {balance + diff - Cent \div 2, balance + diff + Cent \div 2}
    ELSE {Rounded(balance + diff)}

Edit(b, x) ==
    /\ booked[b] # 0
    /\ Sends(x)
    /\ LET new == IF booked[b] < 0 THEN -x ELSE x
       IN /\ booked' = [booked EXCEPT ![b] = Stored(new)]
          /\ IF new = booked[b] THEN UNCHANGED balance
             ELSE balance' \in Corrected(new - booked[b])
    /\ UNCHANGED opening

(* Delete reverses what the row says.                                      *)
Delete(b) ==
    /\ booked[b] # 0
    /\ booked' = [booked EXCEPT ![b] = 0]
    /\ balance' = Rounded(balance - booked[b])
    /\ UNCHANGED <<opening, sent, halves>>

Next ==
    \/ \E b \in Bookings, x \in SentAmounts :
         \/ \E sign \in {-1, 1} : Post(b, sign, x)
         \/ Edit(b, x)
    \/ \E b \in Bookings : Delete(b)

Spec == Init /\ [][Next]_vars

-----------------------------------------------------------------------------
(* The balance is the opening balance plus the live transactions, but for  *)
(* at most a cent for every amount sent that ends in half a cent; any      *)
(* other fraction is harmless (accounts/repository.go:147-157,             *)
(* transactions/service.go:284-301).                                       *)
DriftOnlyFromHalfCents ==
    Magnitude(balance - opening - Total) <= halves * Cent

=============================================================================
