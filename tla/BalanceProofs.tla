---------------------------- MODULE BalanceProofs ----------------------------
(***************************************************************************)
(* Proof of what the README promises of balances: where no request acts on *)
(* what is out of date, the balance of an open account is its opening      *)
(* balance plus its live transactions; and whatever requests overlap, only *)
(* the commit of a stale edit changes what a balance is off by.            *)
(*                                                                         *)
(* Net, the sum over a table, is a recursive function, so that these       *)
(* proofs need induction over its argument.  The first part derives it     *)
(* from the existence of a least counterexample.                           *)
(***************************************************************************)
EXTENDS LedgerProofs, WellFoundedInduction

-----------------------------------------------------------------------------
(* A nonempty set of natural numbers has a least member.                   *)
LEMMA Least ==
  ASSUME NEW T, T \subseteq Nat, T # {}
  PROVE  \E n \in T : \A m \in T : ~(m < n)
  <1>1. IsWellFoundedOn(OpToRel(<, Nat), Nat)
    BY NatLessThanWellFounded
  <1>2. PICK n \in T : \A m \in T : ~(<<m, n>> \in OpToRel(<, Nat))
    BY <1>1, WFMin
  <1>3. \A m \in T : <<m, n>> \in OpToRel(<, Nat) <=> m < n
    BY <1>2 DEF OpToRel
  <1>4. \A m \in T : ~(m < n)
    BY <1>2, <1>3, Zenon
  <1>5. QED
    BY <1>4

(* Induction up to N, for the numbers in a set.                            *)
LEMMA Induction ==
  ASSUME NEW N \in Nat, NEW S, 0 \in S,
         \A n \in 0 .. N - 1 : n \in S => n + 1 \in S
  PROVE  \A n \in 0 .. N : n \in S
  <1> DEFINE T == {n \in 0 .. N : n \notin S}
  <1> SUFFICES ASSUME T # {} PROVE FALSE
    OBVIOUS
  <1>1. T \subseteq Nat
    OBVIOUS
  <1>2. PICK n \in T : \A m \in T : ~(m < n)
    BY <1>1, Least
  <1>3. n \in 0 .. N /\ n # 0
    BY <1>2
  <1>4. /\ n - 1 \in 0 .. N - 1 /\ n - 1 \in 0 .. N
        /\ n - 1 < n /\ (n - 1) + 1 = n
    BY <1>3
  <1>5. n - 1 \in S
    BY <1>2, <1>4
  <1>6. (n - 1) + 1 \in S
    BY <1>4, <1>5
  <1>7. QED
    BY <1>2, <1>4, <1>6

(* The running sums of the numbers w exist.                                *)
LEMMA RunningSums ==
  ASSUME NEW N \in Nat, NEW w \in [1 .. N -> Int]
  PROVE  \E f \in [0 .. N -> Int] :
           f = [n \in 0 .. N |-> IF n = 0 THEN 0 ELSE f[n - 1] + w[n]]
  <1> DEFINE S == {k \in 0 .. N : \E f \in [0 .. k -> Int] :
                     /\ f[0] = 0
                     /\ \A n \in 1 .. k : f[n] = f[n - 1] + w[n]}
  <1>1. 0 \in S
    <2> DEFINE f == [n \in 0 .. 0 |-> 0]
    <2>1. f \in [0 .. 0 -> Int] /\ f[0] = 0
      OBVIOUS
    <2>2. \A n \in 1 .. 0 : FALSE
      OBVIOUS
    <2> HIDE DEF f
    <2>3. QED
      BY <2>1, <2>2
  <1>2. ASSUME NEW k \in 0 .. N - 1, k \in S PROVE k + 1 \in S
    <2>1. PICK f \in [0 .. k -> Int] :
            f[0] = 0 /\ \A n \in 1 .. k : f[n] = f[n - 1] + w[n]
      BY <1>2
    <2> DEFINE g == [n \in 0 .. k + 1 |->
                       IF n = k + 1 THEN f[k] + w[k + 1] ELSE f[n]]
    <2>2. k + 1 \in 1 .. N /\ k \in 0 .. k /\ 0 # k + 1 /\ 0 \in 0 .. k + 1
      OBVIOUS
    <2>3. g \in [0 .. k + 1 -> Int]
      BY <2>1, <2>2
    <2>4. g[0] = 0
      BY <2>1, <2>2
    <2>5. ASSUME NEW n \in 1 .. k + 1 PROVE g[n] = g[n - 1] + w[n]
      <3>1. n - 1 \in 0 .. k /\ n - 1 # k + 1
        OBVIOUS
      <3>2. g[n - 1] = f[n - 1]
        BY <3>1
      <3>3. CASE n = k + 1
        BY <3>2, <3>3
      <3>4. CASE n # k + 1
        <4>1. n \in 1 .. k
          BY <3>4
        <4>2. QED
          BY <2>1, <3>2, <4>1
      <3>5. QED
        BY <3>3, <3>4
    <2>6. k + 1 \in 0 .. N
      OBVIOUS
    <2> HIDE DEF g
    <2>7. QED
      BY <2>3, <2>4, <2>5, <2>6
  <1>3. N \in S
    <2> HIDE DEF S
    <2>1. \A n \in 0 .. N : n \in S
      BY <1>1, <1>2, Induction
    <2>2. QED
      BY <2>1
  <1>4. PICK f \in [0 .. N -> Int] :
          f[0] = 0 /\ \A n \in 1 .. N : f[n] = f[n - 1] + w[n]
    BY <1>3
  <1>5. \A n \in 0 .. N : f[n] = IF n = 0 THEN 0 ELSE f[n - 1] + w[n]
    <2>1. \A n \in 0 .. N : n # 0 => n \in 1 .. N
      OBVIOUS
    <2>2. QED
      BY <1>4, <2>1
  <1>6. QED
    BY <1>4, <1>5

LEMMA ImpactIsInt ==
  ASSUME NEW t \in Types, NEW m \in Amounts
  PROVE  Impact(t, m) \in Int
  BY LedgerDataAssumption DEF Impact

Rows == Row \union {None}

LEMMA RowImpactTyped ==
  ASSUME NEW r \in [TxIds -> Rows], NEW i \in TxIds, NEW a
  PROVE  RowImpact(r, i, a) \in Int
  BY ImpactIsInt DEF RowImpact, Rows, Row

(* The running sums of which Net is the last.                              *)
Sums(f, r, a) ==
    /\ f \in [0 .. MaxTx -> Int]
    /\ f[0] = 0
    /\ \A n \in 1 .. MaxTx : f[n] = f[n - 1] + RowImpact(r, n, a)
    /\ Net(r, a) = f[MaxTx]

LEMMA NetSums ==
  ASSUME NEW r \in [TxIds -> Rows], NEW a
  PROVE  \E f : Sums(f, r, a)
  <1> DEFINE w == [n \in 1 .. MaxTx |-> RowImpact(r, n, a)]
             P(f) == f = [n \in 0 .. MaxTx |->
                            IF n = 0 THEN 0 ELSE f[n - 1] + RowImpact(r, n, a)]
             chosen == CHOOSE f : P(f)
  <1>1. MaxTx \in Nat /\ TxIds = 1 .. MaxTx
    BY LedgerDataAssumption DEF TxIds
  <1>2. w \in [1 .. MaxTx -> Int]
    BY <1>1, RowImpactTyped
  <1>3. PICK f \in [0 .. MaxTx -> Int] :
          f = [n \in 0 .. MaxTx |-> IF n = 0 THEN 0 ELSE f[n - 1] + w[n]]
    <2> HIDE DEF w
    <2> QED BY <1>1, <1>2, RunningSums
  <1>4. \A n \in 0 .. MaxTx : n # 0 => w[n] = RowImpact(r, n, a)
    <2>1. \A n \in 0 .. MaxTx : n # 0 => n \in 1 .. MaxTx
      BY <1>1
    <2>2. QED
      BY <2>1
  <1>5. P(f)
    <2> HIDE DEF w
    <2> QED BY <1>3, <1>4
  <1>6. P(chosen)
    BY <1>5
  <1>7. Net(r, a) = chosen[MaxTx]
    BY DEF Net
  <1> HIDE DEF chosen
  <1>8. /\ chosen[0] = 0
        /\ \A n \in 1 .. MaxTx :
             chosen[n] = chosen[n - 1] + RowImpact(r, n, a)
    BY <1>1, <1>6
  <1>9. \A n \in 0 .. MaxTx : chosen[n] \in Int
    <2> DEFINE S == {n \in 0 .. MaxTx : chosen[n] \in Int}
    <2>1. 0 \in S
      BY <1>1, <1>8
    <2>2. ASSUME NEW n \in 0 .. MaxTx - 1, n \in S PROVE n + 1 \in S
      <3>1. n + 1 \in 1 .. MaxTx /\ (n + 1) - 1 = n /\ n + 1 \in 0 .. MaxTx
        BY <1>1
      <3>2. chosen[n + 1] = chosen[n] + RowImpact(r, n + 1, a)
        BY <1>8, <3>1
      <3>3. RowImpact(r, n + 1, a) \in Int
        BY <1>1, <3>1, RowImpactTyped
      <3>4. QED
        BY <2>2, <3>1, <3>2, <3>3
    <2>3. \A n \in 0 .. MaxTx : n \in S
      <3> HIDE DEF S
      <3> QED BY <1>1, <2>1, <2>2, Induction
    <2>4. QED
      BY <2>3
  <1>10. chosen \in [0 .. MaxTx -> Int]
    BY <1>6, <1>9
  <1>11. QED
    BY <1>7, <1>8, <1>10 DEF Sums

(* What the tables r and q add up to differs by the sum of what their      *)
(* rows differ by: h are the running sums of that.                         *)
LEMMA NetDiffers ==
  ASSUME NEW r \in [TxIds -> Rows], NEW q \in [TxIds -> Rows], NEW a,
         NEW h \in [0 .. MaxTx -> Int], h[0] = 0,
         \A n \in TxIds :
           RowImpact(q, n, a) = RowImpact(r, n, a) + (h[n] - h[n - 1])
  PROVE  Net(q, a) = Net(r, a) + h[MaxTx]
  <1>1. MaxTx \in Nat /\ TxIds = 1 .. MaxTx
    BY LedgerDataAssumption DEF TxIds
  <1>2. PICK f : Sums(f, r, a)
    BY NetSums
  <1>3. PICK g : Sums(g, q, a)
    BY NetSums
  <1> DEFINE S == {n \in 0 .. MaxTx : g[n] = f[n] + h[n]}
  <1>4. 0 \in S
    BY <1>1, <1>2, <1>3 DEF Sums
  <1>5. ASSUME NEW n \in 0 .. MaxTx - 1, n \in S PROVE n + 1 \in S
    <2>1. n + 1 \in 1 .. MaxTx /\ (n + 1) - 1 = n /\ n + 1 \in 0 .. MaxTx
          /\ n \in 0 .. MaxTx
      BY <1>1
    <2> DEFINE m == n + 1
               x == RowImpact(r, m, a)
               y == RowImpact(q, m, a)
               f0 == f[n]
               g0 == g[n]
               h0 == h[n]
               f1 == f[m]
               g1 == g[m]
               h1 == h[m]
    <2>2. f1 = f0 + x /\ g1 = g0 + y
      BY <1>2, <1>3, <2>1 DEF Sums
    <2>3. y = x + (h1 - h0)
      BY <1>1, <2>1
    <2>4. x \in Int /\ y \in Int
      BY <1>1, <2>1, RowImpactTyped
    <2>5. f0 \in Int /\ g0 \in Int /\ h0 \in Int /\ h1 \in Int
      BY <1>2, <1>3, <2>1 DEF Sums
    <2>6. g0 = f0 + h0
      BY <1>5
    <2>7. g1 = f1 + h1
      <3> HIDE DEF x, y, f0, g0, h0, f1, g1, h1
      <3> QED BY <2>2, <2>3, <2>4, <2>5, <2>6
    <2>8. QED
      BY <2>1, <2>7
  <1>6. \A n \in 0 .. MaxTx : n \in S
    <2> HIDE DEF S
    <2> QED BY <1>1, <1>4, <1>5, Induction
  <1>7. g[MaxTx] = f[MaxTx] + h[MaxTx]
    BY <1>1, <1>6
  <1>8. QED
    BY <1>2, <1>3, <1>7 DEF Sums
-----------------------------------------------------------------------------
(* What a change of one row or of two does to the sum.                     *)

LEMMA NetOne ==
  ASSUME NEW r \in [TxIds -> Rows], NEW q \in [TxIds -> Rows], NEW a,
         NEW i \in TxIds, \A n \in TxIds \ {i} : q[n] = r[n],
         NEW d \in Int, RowImpact(q, i, a) = RowImpact(r, i, a) + d
  PROVE  Net(q, a) = Net(r, a) + d
  <1> DEFINE h == [n \in 0 .. MaxTx |-> IF n < i THEN 0 ELSE d]
  <1>1. MaxTx \in Nat /\ TxIds = 1 .. MaxTx
    BY LedgerDataAssumption DEF TxIds
  <1>2. h \in [0 .. MaxTx -> Int] /\ h[0] = 0 /\ h[MaxTx] = d
    BY <1>1
  <1>3. ASSUME NEW n \in TxIds
        PROVE  RowImpact(q, n, a) = RowImpact(r, n, a) + (h[n] - h[n - 1])
    <2>1. h[n] - h[n - 1] = IF n = i THEN d ELSE 0
      BY <1>1
    <2>2. CASE n = i
      <3> HIDE DEF h
      <3> QED BY <2>1, <2>2
    <2>3. CASE n # i
      <3> HIDE DEF h
      <3>1. RowImpact(q, n, a) = RowImpact(r, n, a)
        BY <2>3 DEF RowImpact
      <3>2. RowImpact(r, n, a) \in Int
        BY RowImpactTyped
      <3>3. QED
        BY <2>1, <2>3, <3>1, <3>2
    <2>4. QED
      BY <2>2, <2>3
  <1> HIDE DEF h
  <1>4. Net(q, a) = Net(r, a) + h[MaxTx]
    BY <1>2, <1>3, NetDiffers
  <1>5. QED
    BY <1>2, <1>4

LEMMA NetTwo ==
  ASSUME NEW r \in [TxIds -> Rows], NEW q \in [TxIds -> Rows], NEW a,
         NEW i \in TxIds, NEW k \in TxIds, i # k,
         \A n \in TxIds \ {i, k} : q[n] = r[n],
         NEW d \in Int, RowImpact(q, i, a) = RowImpact(r, i, a) + d,
         NEW e \in Int, RowImpact(q, k, a) = RowImpact(r, k, a) + e
  PROVE  Net(q, a) = Net(r, a) + (d + e)
  <1> DEFINE h == [n \in 0 .. MaxTx |-> (IF n < i THEN 0 ELSE d)
                                         + (IF n < k THEN 0 ELSE e)]
  <1>1. MaxTx \in Nat /\ TxIds = 1 .. MaxTx
    BY LedgerDataAssumption DEF TxIds
  <1>2. h \in [0 .. MaxTx -> Int] /\ h[0] = 0 /\ h[MaxTx] = d + e
    BY <1>1
  <1>3. ASSUME NEW n \in TxIds
        PROVE  RowImpact(q, n, a) = RowImpact(r, n, a) + (h[n] - h[n - 1])
    <2>1. h[n] - h[n - 1] = IF n = i THEN d ELSE IF n = k THEN e ELSE 0
      <3>1. /\ n \in 0 .. MaxTx /\ n - 1 \in 0 .. MaxTx
            /\ n - 1 < i <=> n < i \/ n = i
            /\ n - 1 < k <=> n < k \/ n = k
            /\ n = i => ~(n < i) /\ (n < k <=> n - 1 < k)
            /\ n = k => ~(n < k) /\ (n < i <=> n - 1 < i)
        BY <1>1
      <3>2. /\ h[n] = (IF n < i THEN 0 ELSE d) + (IF n < k THEN 0 ELSE e)
            /\ h[n - 1] = (IF n - 1 < i THEN 0 ELSE d)
                             + (IF n - 1 < k THEN 0 ELSE e)
        BY <3>1
      <3> HIDE DEF h
      <3>3. CASE n < i
        BY <3>1, <3>2, <3>3
      <3>4. CASE n = i
        BY <3>1, <3>2, <3>4
      <3>5. CASE ~(n < i) /\ n # i
        BY <3>1, <3>2, <3>5
      <3>6. QED
        BY <3>3, <3>4, <3>5
    <2> HIDE DEF h
    <2>2. CASE n = i
      BY <2>1, <2>2
    <2>3. CASE n = k
      BY <2>1, <2>3
    <2>4. CASE n # i /\ n # k
      <3>1. RowImpact(q, n, a) = RowImpact(r, n, a)
        BY <2>4 DEF RowImpact
      <3>2. RowImpact(r, n, a) \in Int
        BY RowImpactTyped
      <3>3. QED
        BY <2>1, <2>4, <3>1, <3>2
    <2>5. QED
      BY <2>2, <2>3, <2>4
  <1> HIDE DEF h
  <1>4. Net(q, a) = Net(r, a) + h[MaxTx]
    BY <1>2, <1>3, NetDiffers
  <1>5. QED
    BY <1>2, <1>4

LEMMA NetTyped ==
  ASSUME NEW r \in [TxIds -> Rows], NEW a
  PROVE  Net(r, a) \in Int
  <1>1. PICK f : Sums(f, r, a)
    BY NetSums
  <1>2. QED
    BY <1>1, LedgerDataAssumption DEF Sums

(* An account nobody has posted to.                                        *)
LEMMA NetNothing ==
  ASSUME NEW r \in [TxIds -> Rows], NEW a,
         \A n \in TxIds : r[n] # None => r[n].acc # a
  PROVE  Net(r, a) = 0
  <1>1. MaxTx \in Nat /\ TxIds = 1 .. MaxTx
    BY LedgerDataAssumption DEF TxIds
  <1>2. PICK f : Sums(f, r, a)
    BY NetSums
  <1> DEFINE S == {n \in 0 .. MaxTx : f[n] = 0}
  <1>3. 0 \in S
    BY <1>1, <1>2 DEF Sums
  <1>4. ASSUME NEW n \in 0 .. MaxTx - 1, n \in S PROVE n + 1 \in S
    <2>1. n + 1 \in 1 .. MaxTx /\ (n + 1) - 1 = n /\ n + 1 \in 0 .. MaxTx
      BY <1>1
    <2>2. RowImpact(r, n + 1, a) = 0
      BY <1>1, <2>1 DEF RowImpact
    <2>3. f[n + 1] = f[n] + 0 /\ f[n] = 0
      BY <1>2, <1>4, <2>1, <2>2 DEF Sums
    <2>4. QED
      BY <2>1, <2>3
  <1>5. \A n \in 0 .. MaxTx : n \in S
    <2> HIDE DEF S
    <2> QED BY <1>1, <1>3, <1>4, Induction
  <1>6. QED
    BY <1>1, <1>2, <1>5 DEF Sums

-----------------------------------------------------------------------------
(* What the effects of a commit do to the drift of an open account.        *)

(* d is added to the balance of a and to the sum of its rows.              *)
LEMMA KeepsDrift ==
  ASSUME NEW a \in Accounts, acct[a] \in Account, NEW d \in Int,
         row \in [TxIds -> Rows],
         acct'[a] = [acct[a] EXCEPT !.balance = @ + d],
         Net(row', a) = Net(row, a) + d
  PROVE  Drift(a)' = Drift(a)
  <1>1. Net(row, a) \in Int
    BY NetTyped
  <1>2. /\ acct'[a].balance = acct[a].balance + d
        /\ acct'[a].opening = acct[a].opening
        /\ acct[a].balance \in Int /\ acct[a].opening \in Int
    BY DEF Account
  <1>3. QED
    BY <1>1, <1>2 DEF Drift

LEMMA SameDrift ==
  ASSUME NEW a, acct'[a] = acct[a], Net(row', a) = Net(row, a)
  PROVE  Drift(a)' = Drift(a)
  BY DEF Drift

(* Nothing but 0 is added to a number that stays the same.                 *)
LEMMA NetSame ==
  ASSUME NEW r \in [TxIds -> Rows], NEW a, NEW x, x = Net(r, a) + 0
  PROVE  x = Net(r, a)
  BY NetTyped

(* The tables hold rows and accounts.                                      *)
LEMMA Typed ==
  ASSUME RInv, RInv'
  PROVE  /\ acct \in [Accounts -> Account]
         /\ row \in [TxIds -> Rows]
         /\ row' \in [TxIds -> Rows]
         /\ None \notin Row
  BY LedgerDataAssumption DEF RInv, IInv, TypeInv, TypeOK, Rows

(* A posting is a row.                                                     *)
LEMMA PostingIsRow ==
  ASSUME RInv, NEW a \in Accounts, NEW t \in Types, NEW m \in Amounts,
         NEW ref \in TxIds \union {NoTx}
  PROVE  Atomic!Posting(a, t, m, ref) # None
  <1>1. Owner[a] \in Users
    BY LedgerDataAssumption
  <1>2. Atomic!Posting(a, t, m, ref) \in Row
    BY <1>1 DEF Atomic!Posting, Row
  <1>3. QED
    BY <1>2, LedgerDataAssumption

LEMMA PostedDrift ==
  ASSUME RInv, RInv', NEW i, NEW a, NEW t, NEW m, Posted(i, a, t, m),
         NEW b \in Accounts, IsOpen(b)
  PROVE  Drift(b)' = Drift(b)
  <1>1. /\ i \in TxIds /\ a \in Accounts /\ t \in Types /\ m \in Amounts
        /\ row[i] = None
        /\ \A n \in TxIds \ {i} : row'[n] = row[n]
        /\ row'[i] = Atomic!Posting(a, t, m, NoTx)
        /\ row'[i] # None
    BY Typed, PostingIsRow DEF Posted
  <1>2. /\ RowImpact(row, i, b) = 0
        /\ b # a => RowImpact(row', i, b) = 0
        /\ RowImpact(row', i, a) = Impact(t, m)
    BY <1>1 DEF RowImpact, Atomic!Posting
  <1>3. Impact(t, m) \in Int
    BY <1>1, ImpactIsInt
  <1>4. CASE b = a
    <2> DEFINE d == Impact(t, m)
    <2>1. acct'[b] = [acct[b] EXCEPT !.balance = @ + d]
      BY <1>1, <1>4, Typed DEF Posted, Atomic!Moved, Atomic!IsOpen, IsOpen
    <2>2. RowImpact(row', i, b) = RowImpact(row, i, b) + d /\ d \in Int
      BY <1>2, <1>3, <1>4
    <2> HIDE DEF d
    <2>3. Net(row', b) = Net(row, b) + d
      BY <1>1, <2>2, Typed, NetOne
    <2>4. QED
      BY <2>1, <2>2, <2>3, Typed, KeepsDrift
  <1>5. CASE b # a
    <2>1. acct'[b] = acct[b]
      BY <1>1, <1>5, Typed DEF Posted
    <2>2. RowImpact(row', i, b) = RowImpact(row, i, b) + 0
      BY <1>2, <1>5
    <2>3. Net(row', b) = Net(row, b) + 0
      BY <1>1, <2>2, Typed, NetOne
    <2>4. QED
      BY <2>1, <2>3, Typed, NetSame, SameDrift
  <1>6. QED
    BY <1>4, <1>5

LEMMA TransferredDrift ==
  ASSUME RInv, RInv', NEW i, NEW k, NEW a, NEW c, NEW m,
         Transferred(i, k, a, c, m),
         NEW b \in Accounts, IsOpen(b)
  PROVE  Drift(b)' = Drift(b)
  <1>1. /\ i \in TxIds /\ k \in TxIds /\ i # k
        /\ a \in Accounts /\ c \in Accounts /\ a # c /\ m \in Amounts
        /\ row[i] = None /\ row[k] = None
        /\ \A n \in TxIds \ {i, k} : row'[n] = row[n]
        /\ row'[i] = Atomic!Posting(a, "expense", m, k)
        /\ row'[k] = Atomic!Posting(c, "income", m, i)
        /\ row'[i] # None /\ row'[k] # None
    BY Typed, PostingIsRow DEF Transferred, Types
  <1>2. /\ RowImpact(row, i, b) = 0 /\ RowImpact(row, k, b) = 0
        /\ RowImpact(row', i, b) = IF b = a THEN -m ELSE 0
        /\ RowImpact(row', k, b) = IF b = c THEN m ELSE 0
    BY <1>1 DEF RowImpact, Impact, Atomic!Posting
  <1>3. m \in Int /\ -m \in Int
    BY <1>1, LedgerDataAssumption
  <1> DEFINE d == IF b = a THEN -m ELSE 0
             e == IF b = c THEN m ELSE 0
  <1>4. /\ d \in Int /\ e \in Int
        /\ RowImpact(row', i, b) = RowImpact(row, i, b) + d
        /\ RowImpact(row', k, b) = RowImpact(row, k, b) + e
    BY <1>2, <1>3
  <1>5. /\ b = a => d + e = -m
        /\ b = c => d + e = m
        /\ b # a /\ b # c => d + e = 0
    BY <1>1, <1>3
  <1>6. Net(row', b) = Net(row, b) + (d + e)
    <2> HIDE DEF d, e
    <2> QED BY <1>1, <1>4, Typed, NetTwo
  <1> HIDE DEF d, e
  <1>7. CASE b = a
    <2>1. acct'[b] = [acct[b] EXCEPT !.balance = @ + -m]
      BY <1>1, <1>7, Typed DEF Transferred, Atomic!Moved, Atomic!IsOpen, IsOpen
    <2>2. Net(row', b) = Net(row, b) + -m
      BY <1>5, <1>6, <1>7
    <2>3. QED
      BY <1>3, <2>1, <2>2, Typed, KeepsDrift
  <1>8. CASE b = c
    <2>1. acct'[b] = [acct[b] EXCEPT !.balance = @ + m]
      BY <1>1, <1>8, Typed DEF Transferred, Atomic!Moved, Atomic!IsOpen, IsOpen
    <2>2. Net(row', b) = Net(row, b) + m
      BY <1>5, <1>6, <1>8
    <2>3. QED
      BY <1>3, <2>1, <2>2, Typed, KeepsDrift
  <1>9. CASE b # a /\ b # c
    <2>1. acct'[b] = acct[b]
      BY <1>1, <1>9, Typed DEF Transferred
    <2>2. Net(row', b) = Net(row, b) + 0
      BY <1>5, <1>6, <1>9
    <2>3. QED
      BY <2>1, <2>2, Typed, NetSame, SameDrift
  <1>10. QED
    BY <1>7, <1>8, <1>9

(* An edit that reverses what the row had.                                 *)
LEMMA EditedDrift ==
  ASSUME RInv, RInv', NEW i, NEW m, NEW old, Edited(i, m, old),
         NEW b \in Accounts, IsOpen(b), b = row[i].acc => old = row[i].amt
  PROVE  Drift(b)' = Drift(b)
  <1> DEFINE t == row[i].type
             d == Impact(t, m) - Impact(t, old)
  <1>0. i \in TxIds
    BY DEF Edited
  <1>1. /\ i \in TxIds /\ m \in Amounts /\ old \in Amounts
        /\ row[i] \in Row /\ row[i] # None /\ row[i].live
        /\ row' = [row EXCEPT ![i].amt = m]
    BY Typed DEF Edited, Live, Rows
  <1>2. /\ \A n \in TxIds \ {i} : row'[n] = row[n]
        /\ row'[i] = [row[i] EXCEPT !.amt = m]
    BY <1>1, Typed
  <1>3. /\ row'[i] # None /\ row'[i].live /\ row'[i].acc = row[i].acc
        /\ row'[i].type = t /\ row'[i].amt = m
    BY <1>1, <1>2, Typed DEF Row
  <1>4. /\ Impact(t, m) \in Int /\ Impact(t, old) \in Int /\ d \in Int
        /\ Impact(t, m) = Impact(t, old) + d
    BY <1>1, ImpactIsInt DEF Row
  <1>5. CASE b = row[i].acc
    <2>1. acct'[b] = [acct[b] EXCEPT !.balance = @ + d]
      BY <1>1, <1>5, Typed DEF Edited, Atomic!Moved, Atomic!IsOpen, IsOpen
    <2>2. RowImpact(row', i, b) = RowImpact(row, i, b) + d
      BY <1>1, <1>3, <1>4, <1>5 DEF RowImpact
    <2> HIDE DEF d
    <2>3. Net(row', b) = Net(row, b) + d
      BY <1>0, <1>2, <1>4, <2>2, Typed, NetOne
    <2>4. QED
      BY <1>4, <2>1, <2>3, Typed, KeepsDrift
  <1>6. CASE b # row[i].acc
    <2>1. acct'[b] = acct[b]
      BY <1>6, Typed DEF Edited
    <2>2. RowImpact(row', i, b) = RowImpact(row, i, b) + 0
      BY <1>3, <1>6 DEF RowImpact
    <2>3. Net(row', b) = Net(row, b) + 0
      BY <1>0, <1>2, <2>2, Typed, NetOne
    <2>4. QED
      BY <2>1, <2>3, Typed, NetSame, SameDrift
  <1>7. QED
    BY <1>5, <1>6

(* A deletion that reverses what the row had.                              *)
LEMMA RemovedDrift ==
  ASSUME RInv, RInv', NEW i, NEW old, Removed(i, old),
         NEW b \in Accounts, IsOpen(b), b = row[i].acc => old = row[i].amt
  PROVE  Drift(b)' = Drift(b)
  <1> DEFINE t == row[i].type
             d == -Impact(t, old)
  <1>0. i \in TxIds
    BY DEF Removed
  <1>1. /\ i \in TxIds /\ old \in Amounts
        /\ row[i] \in Row /\ row[i] # None /\ row[i].live
        /\ row' = [row EXCEPT ![i].live = FALSE]
    BY Typed DEF Removed, Live, Rows
  <1>2. /\ \A n \in TxIds \ {i} : row'[n] = row[n]
        /\ row'[i] = [row[i] EXCEPT !.live = FALSE]
    BY <1>1, Typed
  <1>3. ~row'[i].live
    BY <1>1, <1>2 DEF Row
  <1>4. Impact(t, old) \in Int /\ d \in Int /\ 0 = Impact(t, old) + d
    BY <1>1, ImpactIsInt DEF Row
  <1>5. CASE b = row[i].acc
    <2>1. acct'[b] = [acct[b] EXCEPT !.balance = @ + d]
      BY <1>1, <1>5, Typed DEF Removed, Atomic!Moved, Atomic!IsOpen, IsOpen
    <2>2. RowImpact(row', i, b) = RowImpact(row, i, b) + d
      BY <1>1, <1>3, <1>4, <1>5 DEF RowImpact
    <2> HIDE DEF d
    <2>3. Net(row', b) = Net(row, b) + d
      BY <1>0, <1>2, <1>4, <2>2, Typed, NetOne
    <2>4. QED
      BY <1>4, <2>1, <2>3, Typed, KeepsDrift
  <1>6. CASE b # row[i].acc
    <2>1. acct'[b] = acct[b]
      BY <1>6, Typed DEF Removed
    <2>2. RowImpact(row', i, b) = RowImpact(row, i, b) + 0
      BY <1>3, <1>6 DEF RowImpact
    <2>3. Net(row', b) = Net(row, b) + 0
      BY <1>0, <1>2, <2>2, Typed, NetOne
    <2>4. QED
      BY <2>1, <2>3, Typed, NetSame, SameDrift
  <1>7. QED
    BY <1>5, <1>6

(* A deletion of both legs of a transfer.                                  *)
LEMMA PairRemovedDrift ==
  ASSUME RInv, RInv', NEW i \in TxIds, Atomic!RemovePair(i),
         NEW b \in Accounts, IsOpen(b)
  PROVE  Drift(b)' = Drift(b)
  <1> DEFINE k == row[i].ref
             a == row[i].acc
             c == row[k].acc
             x == Impact(row[i].type, row[i].amt)
             y == Impact(row[k].type, row[k].amt)
  <1>1. /\ row[i] \in Row /\ row[i] # None /\ row[i].live
        /\ row[k] # None /\ row[k].live /\ k # NoTx /\ a # c
        /\ row' = [row EXCEPT ![i].live = FALSE, ![k].live = FALSE]
        /\ acct' = [acct EXCEPT ![a] = Atomic!Moved(a, -x),
                                ![c] = Atomic!Moved(c, -y)]
    BY Typed, SameData DEF Atomic!RemovePair, Live, Rows
  <1>2. /\ k \in TxIds /\ k # i /\ row[k] \in Row
        /\ a \in Accounts /\ c \in Accounts
    BY <1>1, Typed DEF Row, Rows
  <1>3. /\ \A n \in TxIds \ {i, k} : row'[n] = row[n]
        /\ row'[i] = [row[i] EXCEPT !.live = FALSE]
        /\ row'[k] = [row[k] EXCEPT !.live = FALSE]
    BY <1>1, <1>2, Typed
  <1>4. ~row'[i].live /\ ~row'[k].live
    BY <1>1, <1>2, <1>3 DEF Row
  <1>5. /\ x \in Int /\ y \in Int /\ -x \in Int /\ -y \in Int
        /\ 0 = x + -x /\ 0 = y + -y
    BY <1>1, <1>2, ImpactIsInt DEF Row
  <1> DEFINE d == IF b = a THEN -x ELSE 0
             e == IF b = c THEN -y ELSE 0
  <1>6. /\ d \in Int /\ e \in Int
        /\ b = a => d + e = -x
        /\ b = c => d + e = -y
        /\ b # a /\ b # c => d + e = 0
    <2> HIDE DEF x, y, a, c
    <2>1. -x + 0 = -x /\ 0 + -y = -y /\ a # c
      BY <1>1, <1>5
    <2>2. QED
      BY <1>5, <2>1
  <1>7. /\ RowImpact(row', i, b) = RowImpact(row, i, b) + d
        /\ RowImpact(row', k, b) = RowImpact(row, k, b) + e
    <2>1. /\ RowImpact(row', i, b) = 0 /\ RowImpact(row', k, b) = 0
          /\ RowImpact(row, i, b) = IF b = a THEN x ELSE 0
          /\ RowImpact(row, k, b) = IF b = c THEN y ELSE 0
      BY <1>1, <1>4 DEF RowImpact
    <2> HIDE DEF x, y, k
    <2>2. QED
      BY <1>5, <2>1
  <1>8. Net(row', b) = Net(row, b) + (d + e)
    <2> HIDE DEF d, e, k
    <2> QED BY <1>2, <1>3, <1>6, <1>7, Typed, NetTwo
  <1> HIDE DEF d, e, x, y
  <1>9. CASE b = a
    <2>1. acct'[b] = [acct[b] EXCEPT !.balance = @ + -x]
      BY <1>1, <1>2, <1>9, Typed DEF Atomic!Moved, Atomic!IsOpen, IsOpen
    <2>2. Net(row', b) = Net(row, b) + -x
      BY <1>6, <1>8, <1>9
    <2>3. QED
      BY <1>5, <2>1, <2>2, Typed, KeepsDrift
  <1>10. CASE b = c
    <2>1. acct'[b] = [acct[b] EXCEPT !.balance = @ + -y]
      BY <1>1, <1>2, <1>10, Typed DEF Atomic!Moved, Atomic!IsOpen, IsOpen
    <2>2. Net(row', b) = Net(row, b) + -y
      BY <1>6, <1>8, <1>10
    <2>3. QED
      BY <1>5, <2>1, <2>2, Typed, KeepsDrift
  <1>11. CASE b # a /\ b # c
    <2>1. acct'[b] = acct[b]
      BY <1>1, <1>2, <1>11, Typed
    <2>2. Net(row', b) = Net(row, b) + 0
      BY <1>6, <1>8, <1>11
    <2>3. QED
      BY <2>1, <2>2, Typed, NetSame, SameDrift
  <1>12. QED
    BY <1>9, <1>10, <1>11

-----------------------------------------------------------------------------
(* Only stale edits change what a balance is off by.                       *)

(* An account that was not opened yet has no balance.                      *)
Unopened == \A a \in Accounts : ~Known(a) => acct[a] = NoAccount

BInv == RInv /\ Unopened

LEMMA NextUnopened ==
  ASSUME BInv, [Next]_vars
  PROVE  BInv'
  <1>1. RInv /\ RInv' /\ acct \in [Accounts -> Account]
    BY NextSound, Typed DEF BInv
  <1>2. Unopened'
    <2>1. CASE UNCHANGED <<acct, row>>
      BY <2>1 DEF BInv, Unopened, Known
    <2>2. ASSUME NEW a \in Accounts, OpenAccount(a) PROVE Unopened'
      BY <1>1, <2>2 DEF OpenAccount, NewAccount, BInv, Unopened, Known
    <2>3. ASSUME NEW s \in Slots, CloseAccount(s) PROVE Unopened'
      BY <1>1, <2>3 DEF CloseAccount, BInv, Unopened, Known
    <2>4. ASSUME NEW s \in Slots, Commit(s) PROVE Unopened'
      <3>1. \A a \in Accounts : acct'[a].status = acct[a].status
        BY <1>1, <2>4 DEF Commit, Account
      <3>2. \A a \in Accounts : ~Known(a) => delta[s][a] = 0
        BY <1>1 DEF RInv, Sound, TrueDeltas, Applied, Known, IsOpen
      <3>3. \A a \in Accounts : ~Known(a) => acct'[a] = acct[a]
        BY <1>1, <2>4, <3>2, CommitLeaves
      <3>4. QED
        BY <3>1, <3>3 DEF BInv, Unopened, Known
    <2>5. QED
      BY <2>1, <2>2, <2>3, <2>4, TableSteps
  <1>3. QED
    BY <1>1, <1>2 DEF BInv

LEMMA UnopenedAlways == Spec => []BInv
  <1>1. Init => BInv
    BY InitSound DEF Init, BInv, Unopened
  <1>2. QED
    BY <1>1, NextUnopened, PTL DEF Spec

LEMMA OpenAccountDrift ==
  ASSUME BInv, NEW a \in Accounts, OpenAccount(a), NEW b \in Accounts, RInv'
  PROVE  /\ b # a => Drift(b)' = Drift(b)
         /\ b = a => Drift(b) = 0 /\ Drift(b)' = 0
  <1>1. /\ RInv /\ row' = row /\ acct[a] = NoAccount
        /\ acct \in [Accounts -> Account]
    BY Typed DEF BInv, OpenAccount, Unopened, Known
  <1>2. PICK n \in Openings : acct' = [acct EXCEPT ![a] = NewAccount(n)]
    BY DEF OpenAccount
  <1>3. CASE b # a
    <2>1. acct'[b] = acct[b]
      BY <1>1, <1>2, <1>3
    <2>2. QED
      BY <1>1, <1>3, <2>1, SameDrift
  <1>4. CASE b = a
    <2>1. \A i \in TxIds : row[i] # None => row[i].acc # a
      BY <1>1 DEF RInv, PostedByOwner, NoAccount
    <2>2. Net(row, a) = 0
      BY <1>1, <2>1, Typed, NetNothing
    <2>3. /\ acct'[a].balance = n /\ acct'[a].opening = n /\ n \in Int
      BY <1>1, <1>2, LedgerDataAssumption DEF NewAccount
    <2>4. Drift(a)' = 0
      BY <1>1, <2>2, <2>3 DEF Drift
    <2>5. acct[a].balance = 0 /\ acct[a].opening = 0
      BY <1>1 DEF NoAccount
    <2>6. Drift(a) = 0
      BY <2>2, <2>5 DEF Drift
    <2>7. QED
      BY <1>4, <2>4, <2>6
  <1>5. QED
    BY <1>3, <1>4

LEMMA CommitDrift ==
  ASSUME RInv, RInv', NEW s \in Slots, Commit(s),
         NEW a \in Accounts, IsOpen(a),
         StaleEdit(s) => job[s].first.acc # a
  PROVE  Drift(a)' = Drift(a)
  <1> DEFINE leg == job[s].first
             mate == job[s].second
  <1>1. /\ Sound(s) /\ pc[s] = "commit" /\ job[s].kind \in AllKinds
        /\ job[s].kind = "delete" => leg.id \in TxIds
    BY CommitRows, JobParts DEF Job
  <1>2. CASE job[s].kind = "create"
    <2>1. Posted(leg.id, leg.acc, leg.type, leg.new)
      BY <1>2, CreatePosts
    <2>2. QED
      BY <2>1, PostedDrift
  <1>3. CASE job[s].kind = "transfer"
    <2>1. Transferred(leg.id, mate.id, leg.acc, mate.acc, leg.new)
      BY <1>3, TransferTransfers
    <2>2. QED
      BY <2>1, TransferredDrift
  <1>4. job[s].kind \in {"update", "delete"} /\ a = row[leg.id].acc =>
          leg.old = row[leg.id].amt
    BY <1>1 DEF Sound, TrueLegs, StaleEdit
  <1>5. CASE job[s].kind = "update"
    <2>1. CASE Edited(leg.id, leg.new, leg.old)
      BY <1>4, <1>5, <2>1, EditedDrift
    <2>2. CASE UNCHANGED <<acct, row>>
      BY <2>2, SameDrift
    <2>3. QED
      BY <1>5, <2>1, <2>2, UpdateEdits
  <1>6. CASE job[s].kind = "delete"
    <2>1. CASE Removed(leg.id, leg.old)
      BY <1>4, <1>6, <2>1, RemovedDrift
    <2>2. CASE Atomic!RemovePair(leg.id)
      BY <1>1, <1>6, <2>2, PairRemovedDrift
    <2>3. QED
      BY <1>6, <2>1, <2>2, DeleteRemoves
  <1>7. CASE job[s].kind = "close"
    BY <1>1, <1>7 DEF Sound, TrueWrites, InTx
  <1>8. QED
    BY <1>1, <1>2, <1>3, <1>5, <1>6, <1>7 DEF AllKinds

(* A step that leaves an account open without committing a stale edit of   *)
(* one of its rows leaves its drift alone.                                 *)
LEMMA StepDrift ==
  ASSUME BInv, [Next]_vars, NEW a \in Accounts, acct'[a].status = "open",
         \A s \in Slots : Commit(s) => ~(StaleEdit(s) /\ job[s].first.acc = a)
  PROVE  Drift(a)' = Drift(a)
  <1>1. RInv /\ RInv' /\ acct \in [Accounts -> Account]
    BY NextSound, Typed DEF BInv
  <1>2. CASE UNCHANGED <<acct, row>>
    BY <1>2, SameDrift
  <1>3. ASSUME NEW b \in Accounts, OpenAccount(b) PROVE Drift(a)' = Drift(a)
    BY <1>1, <1>3, OpenAccountDrift
  <1>4. ASSUME NEW s \in Slots, CloseAccount(s) PROVE Drift(a)' = Drift(a)
    <2>1. /\ row' = row
          /\ acct' = [acct EXCEPT ![job[s].first.acc].status = "deleted"]
      BY <1>4 DEF CloseAccount
    <2>2. a # job[s].first.acc
      BY <1>1, <2>1
    <2>3. acct'[a] = acct[a]
      BY <1>1, <2>1, <2>2
    <2>4. QED
      BY <2>1, <2>3, SameDrift
  <1>5. ASSUME NEW s \in Slots, Commit(s) PROVE Drift(a)' = Drift(a)
    <2>1. acct'[a].status = acct[a].status
      BY <1>1, <1>5 DEF Commit, Account
    <2>2. QED
      BY <1>1, <1>5, <2>1, CommitDrift DEF IsOpen
  <1>6. QED
    BY <1>2, <1>3, <1>4, <1>5, TableSteps

(* Whatever requests overlap and wherever they fail, a step that changes   *)
(* what the balance of an open account is off by is the commit of an edit  *)
(* or deletion that reverses another amount than its row has.              *)
THEOREM OnlyStaleEditsDrift == Spec => DriftOnlyFromStaleEdits
  <1> DEFINE Explained ==
               \A a \in Accounts :
                 acct'[a].status = "open" /\ Drift(a)' # Drift(a) =>
                   \E s \in Slots : /\ StaleEdit(s)
                                    /\ job[s].first.acc = a
                                    /\ pc'[s] = "idle"
  <1>1. ASSUME BInv, [Next]_vars PROVE Explained
    <2> SUFFICES ASSUME NEW a \in Accounts, acct'[a].status = "open",
                        Drift(a)' # Drift(a)
                 PROVE  \E s \in Slots : /\ StaleEdit(s)
                                         /\ job[s].first.acc = a
                                         /\ pc'[s] = "idle"
      OBVIOUS
    <2>1. PICK s \in Slots : Commit(s) /\ StaleEdit(s) /\ job[s].first.acc = a
      BY <1>1, StepDrift
    <2>2. pc'[s] = "idle"
      BY <1>1, <2>1
         DEF Commit, Finish, Goto, BInv, RInv, IInv, TypeInv, TypeOK
    <2>3. QED
      BY <2>1, <2>2
  <1>2. QED
    BY <1>1, UnopenedAlways, PTL DEF Spec, DriftOnlyFromStaleEdits

(* Without races, the balance of an open account is its opening balance    *)
(* plus its live transactions.                                             *)
THEOREM BalancesInSync ==
  ASSUME Harmless
  PROVE  Spec => []BalanceInSync
  <1>1. ASSUME Init PROVE BalanceInSync
    BY <1>1 DEF Init, BalanceInSync, IsOpen, NoAccount
  <1>2. ASSUME BInv, HInv, BalanceInSync, [Next]_vars PROVE BalanceInSync'
    <2> SUFFICES ASSUME NEW a \in Accounts, acct'[a].status = "open"
                 PROVE  Drift(a)' = 0
      BY DEF BalanceInSync, IsOpen
    <2>1. \A s \in Slots : ~StaleEdit(s)
      BY <1>2 DEF HInv, UpToDate, StaleEdit
    <2>2. Drift(a)' = Drift(a)
      BY <1>2, <2>1, StepDrift
    <2>3. CASE IsOpen(a)
      BY <1>2, <2>2, <2>3 DEF BalanceInSync
    <2>4. CASE ~IsOpen(a)
      <3>1. OpenAccount(a)
        <4>1. acct \in [Accounts -> Account] /\ acct[a].status # "open"
          BY <1>2, <2>4, Typed, NextSound DEF BInv, IsOpen
        <4>2. ASSUME NEW b \in Accounts, OpenAccount(b) PROVE b = a
          BY <4>1, <4>2 DEF OpenAccount
        <4>3. ASSUME NEW s \in Slots, CloseAccount(s) PROVE FALSE
          BY <4>1, <4>3 DEF CloseAccount
        <4>4. ASSUME NEW s \in Slots, Commit(s) PROVE FALSE
          BY <4>1, <4>4 DEF Commit, Account
        <4>5. QED
          BY <1>2, <4>1, <4>2, <4>3, <4>4, TableSteps
      <3>2. RInv'
        BY <1>2, NextSound DEF BInv
      <3>3. QED
        BY <1>2, <3>1, <3>2, OpenAccountDrift
    <2>5. QED
      BY <2>3, <2>4
  <1>3. QED
    BY <1>1, <1>2, UnopenedAlways, UpToDateAlways, PTL DEF Spec

=============================================================================
