-------------------------- MODULE AlgorithmsProofs --------------------------
(***************************************************************************)
(* Theorems about what only computes or only reads, for inputs of any      *)
(* size: the rules engine picks the right rule; the windows of the budgets *)
(* and the start of the trend are right for every year, leap years and the *)
(* centuries without one included; the list of alerts counts right and the *)
(* list of transactions leafs right, but for what is written meanwhile.    *)
(***************************************************************************)
EXTENDS MCAlgorithms, FiniteSetTheorems, TLAPS

-----------------------------------------------------------------------------
(* The rules engine.                                                       *)

(* The loop invariant: best is the winner among the rules looked at.       *)
LoopInv ==
    /\ TypeOK
    /\ Wins(best, i - 1)

LEMMA InputType ==
  ASSUME rules \in Inputs
  PROVE  /\ Len(rules) \in Nat
         /\ \A k \in 1 .. Len(rules) : rules[k] \in Rule
         /\ \A j, k \in 1 .. Len(rules) : rules[j].id = rules[k].id => j = k
  <1>1. PICK n \in 0 .. MaxRules : rules \in [1 .. n -> Rule]
    BY DEF Inputs
  <1>2. n \in Nat
    BY CategorizerAssumption
  <1>3. rules \in Seq(Rule) /\ Len(rules) = n /\ DOMAIN rules = 1 .. n
    BY <1>1, <1>2
  <1>4. QED
    BY <1>1, <1>2, <1>3 DEF Inputs

LEMMA LoopInvInit == Init => LoopInv
  <1> SUFFICES ASSUME Init PROVE LoopInv
    OBVIOUS
  <1>1. Matching(0) = {}
    BY DEF Matching
  <1>2. TypeOK
    BY InputType DEF Init, TypeOK
  <1>3. QED
    BY <1>1, <1>2 DEF Init, LoopInv, Wins

LEMMA LoopInvStep == LoopInv /\ [Next]_vars => LoopInv'
  <1> SUFFICES ASSUME LoopInv, [Next]_vars PROVE LoopInv'
    OBVIOUS
  <1>1. CASE UNCHANGED vars
    BY <1>1 DEF vars, LoopInv, TypeOK, Wins, Matching
  <1>2. CASE Iterate
    <2> DEFINE r == rules[i]
    <2>1. /\ rules \in Inputs /\ i \in 1 .. Len(rules) /\ Len(rules) \in Nat
          /\ r \in Rule
      BY <1>2, InputType DEF LoopInv, TypeOK, Iterate
    <2>2. rules' = rules /\ i' = i + 1 /\ i' - 1 = i
      BY <1>2, <2>1 DEF Iterate
    <2>3. TypeOK'
      BY <1>2, <2>1, <2>2 DEF LoopInv, TypeOK, Iterate
    <2>4. Matching(i) = Matching(i - 1) \union {q \in {r} : q.matches}
      <3>1. {rules[k] : k \in 1 .. i} = {rules[k] : k \in 1 .. i - 1} \union {r}
        BY <2>1
      <3>2. QED
        BY <3>1 DEF Matching
    <2>5. \A q \in Matching(i - 1) : q \in Rule /\ q.id # r.id
      BY <2>1, InputType DEF Matching
    <2>6. Wins(best', i)
      <3>1. CASE ~r.matches
        <4>1. Matching(i) = Matching(i - 1) /\ best' = best
          BY <1>2, <2>4, <3>1 DEF Iterate
        <4>2. QED
          BY <4>1 DEF LoopInv, Wins
      <3>2. CASE r.matches /\ best = None
        <4>1. Matching(i) = {r} /\ best' = r
          <5>0. None \notin Matching(i - 1)
            BY <2>5, CategorizerAssumption
          <5>1. Matching(i - 1) = {}
            BY <5>0, <3>2 DEF LoopInv, Wins
          <5>2. QED
            BY <1>2, <2>4, <3>2, <5>1 DEF Iterate, Replaces
        <4>2. QED
          BY <4>1 DEF Wins
      <3>3. CASE r.matches /\ best # None
        <4>1. /\ best \in Matching(i - 1) /\ best \in Rule /\ best.id # r.id
              /\ \A q \in Matching(i - 1) \ {best} :
                   \/ best.priority > q.priority
                   \/ best.priority = q.priority /\ best.id < q.id
          BY <2>5, <3>3 DEF LoopInv, Wins
        <4>2. Matching(i) = Matching(i - 1) \union {r}
          BY <2>4, <3>3
        <4>3. \A q \in Matching(i) :
                q.id \in Int /\ q.priority \in Int
          <5>1. \A q \in Rule : q.id \in RuleIds /\ q.priority \in Priorities
            BY DEF Rule
          <5>2. \A q \in Rule : q.id \in Int /\ q.priority \in Int
            <6>1. RuleIds \subseteq Int /\ Priorities \subseteq Int
              BY CategorizerAssumption
            <6>2. QED
              BY <5>1, <6>1
          <5>3. Matching(i) \subseteq Rule
            BY <2>1, <2>5, <4>2
          <5>4. QED
            BY <5>2, <5>3
        <4>4. CASE Replaces(r, best)
          <5>1. best' = r
            BY <1>2, <3>3, <4>4 DEF Iterate
          <5>2. \/ r.priority > best.priority
                \/ r.priority = best.priority /\ r.id < best.id
            BY <3>3, <4>4 DEF Replaces
          <5>3. \A q \in Matching(i) \ {r} :
                  \/ r.priority > q.priority
                  \/ r.priority = q.priority /\ r.id < q.id
            BY <4>1, <4>2, <4>3, <5>2
          <5>4. QED
            BY <4>2, <5>1, <5>3 DEF Wins
        <4>5. CASE ~Replaces(r, best)
          <5>1. best' = best
            BY <1>2, <4>5 DEF Iterate
          <5>2. \/ best.priority > r.priority
                \/ best.priority = r.priority /\ best.id < r.id
            BY <4>1, <4>2, <4>3, <4>5 DEF Replaces
          <5>3. QED
            BY <4>1, <4>2, <5>1, <5>2 DEF Wins
        <4>6. QED
          BY <4>4, <4>5
      <3>4. QED
        BY <3>1, <3>2, <3>3
    <2>7. QED
      BY <2>2, <2>3, <2>6 DEF LoopInv, Wins, Matching
  <1>3. QED
    BY <1>1, <1>2 DEF Next

(* Categorize returns the category of the matching rule with the highest   *)
(* priority and, among equals, the lowest id, for every list of rules in   *)
(* every order.                                                            *)
THEOREM Categorizes == Spec => []BestRuleWins
  <1>1. LoopInv => BestRuleWins
    <2> SUFFICES ASSUME LoopInv, i = Len(rules) + 1
                 PROVE  Wins(best, Len(rules))
      BY DEF BestRuleWins
    <2>1. i - 1 = Len(rules)
      BY InputType DEF LoopInv, TypeOK
    <2>2. QED
      BY <2>1 DEF LoopInv
  <1>2. QED
    BY <1>1, LoopInvInit, LoopInvStep, PTL DEF Spec

-----------------------------------------------------------------------------
(* The calendar.                                                           *)

(* The dates there are.                                                    *)
Valid(t) ==
    /\ t \in [y : Int, m : 1 .. 12, d : Nat]
    /\ t.d \in 1 .. DaysIn(t.y, t.m)

DateInv == Valid(today) /\ weekday \in 0 .. 6

(* So many days from t, without the months that time.Date carries.         *)
Days(t, k) == AddDate(t, 0, 0, k)

-----------------------------------------------------------------------------
(* Days and months.                                                        *)

LEMMA MonthLengths ==
  ASSUME NEW y \in Int, NEW m \in 1 .. 12
  PROVE  DaysIn(y, m) \in 28 .. 31
  BY DEF DaysIn

LEMMA LongMonths ==
  ASSUME NEW y \in Int
  PROVE  DaysIn(y, 12) = 31 /\ DaysIn(y, 1) = 31
  BY DEF DaysIn

LEMMA OnIs ==
  ASSUME NEW y, NEW m, NEW d
  PROVE  On(y, m, d).y = y /\ On(y, m, d).m = m /\ On(y, m, d).d = d
  BY DEF On

LEMMA ValidOn ==
  ASSUME NEW t, Valid(t)
  PROVE  t = On(t.y, t.m, t.d)
  BY DEF Valid, On

LEMMA OnValid ==
  ASSUME NEW y \in Int, NEW m \in 1 .. 12, NEW d \in 1 .. DaysIn(y, m)
  PROVE  Valid(On(y, m, d))
  <1>1. DaysIn(y, m) \in 28 .. 31
    BY MonthLengths
  <1>2. QED
    BY <1>1 DEF Valid, On

(* Months counted from the year 0.                                         *)
Months(y, m) == 12 * y + m

(* Where months out of range carry into the years, only their count        *)
(* matters.                                                                *)
LEMMA FirstOfIs ==
  ASSUME NEW y \in Int, NEW m \in Int, NEW z \in Int, NEW n \in 1 .. 12,
         Months(y, m) = Months(z, n)
  PROVE  FirstOf(y, m) = On(z, n, 1)
  <1> DEFINE q == (m - 1) \div 12
             r == (m - 1) % 12
  <1>1. /\ q \in Int
        /\ r \in 0 .. 11
        /\ m - 1 = 12 * q + r
    OBVIOUS
  <1>2. FirstOf(y, m) = On(y + q, r + 1, 1)
    BY DEF FirstOf
  <1> HIDE DEF q, r
  <1>3. y + q = z /\ r + 1 = n
    BY <1>1 DEF Months
  <1>4. QED
    BY <1>2, <1>3

(* A month before January is of the year before, one after December of the *)
(* year after.                                                             *)
LEMMA Neighbours ==
  ASSUME NEW y \in Int, NEW m \in 1 .. 12
  PROVE  /\ FirstOf(y, m) = On(y, m, 1)
         /\ m = 12 => FirstOf(y, m + 1) = On(y + 1, 1, 1)
         /\ m # 12 => FirstOf(y, m + 1) = On(y, m + 1, 1)
         /\ m = 1 => FirstOf(y, m - 1) = On(y - 1, 12, 1)
         /\ m # 1 => FirstOf(y, m - 1) = On(y, m - 1, 1)
  <1>1. FirstOf(y, m) = On(y, m, 1)
    <2>1. m \in Int
      OBVIOUS
    <2>2. QED
      BY <2>1, FirstOfIs
  <1>2. ASSUME m = 12
        PROVE  FirstOf(y, m + 1) = On(y + 1, 1, 1)
    <2>1. /\ m + 1 \in Int
          /\ y + 1 \in Int
          /\ 1 \in 1 .. 12
          /\ Months(y, m + 1) = Months(y + 1, 1)
      BY <1>2 DEF Months
    <2>2. QED
      BY <2>1, FirstOfIs
  <1>3. ASSUME m # 12
        PROVE  FirstOf(y, m + 1) = On(y, m + 1, 1)
    <2>1. /\ m + 1 \in Int
          /\ y \in Int
          /\ m + 1 \in 1 .. 12
          /\ Months(y, m + 1) = Months(y, m + 1)
      BY <1>3 DEF Months
    <2>2. QED
      BY <2>1, FirstOfIs
  <1>4. ASSUME m = 1
        PROVE  FirstOf(y, m - 1) = On(y - 1, 12, 1)
    <2>1. /\ m - 1 \in Int
          /\ y - 1 \in Int
          /\ 12 \in 1 .. 12
          /\ Months(y, m - 1) = Months(y - 1, 12)
      BY <1>4 DEF Months
    <2>2. QED
      BY <2>1, FirstOfIs
  <1>5. ASSUME m # 1
        PROVE  FirstOf(y, m - 1) = On(y, m - 1, 1)
    <2>1. /\ m - 1 \in Int
          /\ y \in Int
          /\ m - 1 \in 1 .. 12
          /\ Months(y, m - 1) = Months(y, m - 1)
      BY <1>5 DEF Months
    <2>2. QED
      BY <2>1, FirstOfIs
  <1>6. QED
    BY <1>1, <1>2, <1>3, <1>4, <1>5

(* Days out of range spill over into the neighbouring month.               *)
LEMMA WithinMonth ==
  ASSUME NEW y \in Int, NEW m \in 1 .. 12, NEW d \in 1 .. DaysIn(y, m)
  PROVE  Date(y, m, d) = On(y, m, d)
  <1>1. DaysIn(y, m) \in 28 .. 31
    BY MonthLengths
  <1>2. FirstOf(y, m) = On(y, m, 1)
    BY Neighbours
  <1>3. QED
    BY <1>1, <1>2, OnIs DEF Date

LEMMA BeforeJanuary ==
  ASSUME NEW y \in Int, NEW d \in Int, d < 1
  PROVE  Date(y, 1, d) = On(y - 1, 12, d + DaysIn(y - 1, 12))
  <1>1. 1 \in 1 .. 12 /\ DaysIn(y, 1) = 31
    BY LongMonths
  <1>2. FirstOf(y, 1 - 1) = On(y - 1, 12, 1)
    BY Neighbours
  <1>3. QED
    BY <1>1, <1>2, OnIs DEF Date

LEMMA BeforeMonth ==
  ASSUME NEW y \in Int, NEW m \in 2 .. 12, NEW d \in Int, d < 1
  PROVE  Date(y, m, d) = On(y, m - 1, d + DaysIn(y, m - 1))
  <1>1. m \in 1 .. 12 /\ DaysIn(y, m) \in 28 .. 31
    BY MonthLengths
  <1>2. FirstOf(y, m - 1) = On(y, m - 1, 1)
    BY Neighbours
  <1>3. QED
    BY <1>1, <1>2, OnIs DEF Date

LEMMA AfterDecember ==
  ASSUME NEW y \in Int, NEW d \in Int, d > 31
  PROVE  Date(y, 12, d) = On(y + 1, 1, d - 31)
  <1>1. 12 \in 1 .. 12 /\ DaysIn(y, 12) = 31
    BY LongMonths
  <1>2. /\ FirstOf(y, 12) = On(y, 12, 1)
        /\ FirstOf(y, 12 + 1) = On(y + 1, 1, 1)
    BY Neighbours
  <1>3. QED
    BY <1>1, <1>2, OnIs DEF Date

LEMMA AfterMonth ==
  ASSUME NEW y \in Int, NEW m \in 1 .. 11, NEW d \in Int, d > DaysIn(y, m)
  PROVE  Date(y, m, d) = On(y, m + 1, d - DaysIn(y, m))
  <1>1. m \in 1 .. 12 /\ DaysIn(y, m) \in 28 .. 31
    BY MonthLengths
  <1>2. /\ FirstOf(y, m) = On(y, m, 1)
        /\ FirstOf(y, m + 1) = On(y, m + 1, 1)
    BY Neighbours
  <1>3. QED
    BY <1>1, <1>2, OnIs DEF Date

(* A few days forth or back.                                               *)
LEMMA DaysAre ==
  ASSUME NEW y, y \in Int, NEW m, m \in Int, NEW d, NEW k
  PROVE  Days(On(y, m, d), k) = Date(y, m, d + k)
  <1>1. y + 0 = y /\ m + 0 = m
    OBVIOUS
  <1>2. QED
    BY <1>1, OnIs DEF Days, AddDate

LEMMA DateValid ==
  ASSUME NEW y \in Int, NEW m \in 1 .. 12, NEW d \in -20 .. 40
  PROVE  Valid(Date(y, m, d))
  <1>1. DaysIn(y, m) \in 28 .. 31
    BY MonthLengths
  <1>2. CASE d \in 1 .. DaysIn(y, m)
    BY <1>2, WithinMonth, OnValid
  <1>3. CASE d < 1
    <2>1. CASE m = 1
      <3>1. /\ y - 1 \in Int
            /\ d + DaysIn(y - 1, 12) \in 1 .. DaysIn(y - 1, 12)
        BY <1>3, LongMonths
      <3>2. Date(y, m, d) = On(y - 1, 12, d + DaysIn(y - 1, 12))
        BY <1>3, <2>1, BeforeJanuary
      <3>3. QED
        BY <3>1, <3>2, OnValid
    <2>2. CASE m # 1
      <3>1. m - 1 \in 1 .. 12
        BY <2>2
      <3>2. DaysIn(y, m - 1) \in 28 .. 31
        BY <3>1, MonthLengths
      <3>3. d + DaysIn(y, m - 1) \in 1 .. DaysIn(y, m - 1)
        BY <1>3, <3>2
      <3>4. Date(y, m, d) = On(y, m - 1, d + DaysIn(y, m - 1))
        BY <1>3, <2>2, BeforeMonth
      <3>5. QED
        BY <3>1, <3>3, <3>4, OnValid
    <2>3. QED
      BY <2>1, <2>2
  <1>4. CASE d > DaysIn(y, m)
    <2>1. CASE m = 12
      <3>1. y + 1 \in Int /\ d - DaysIn(y, m) \in 1 .. DaysIn(y + 1, 1)
        BY <1>1, <1>4, LongMonths
      <3>2. Date(y, m, d) = On(y + 1, 1, d - DaysIn(y, m))
        BY <1>4, <2>1, LongMonths, AfterDecember
      <3>3. QED
        BY <3>1, <3>2, OnValid
    <2>2. CASE m # 12
      <3>1. m + 1 \in 1 .. 12
        BY <2>2
      <3>2. DaysIn(y, m + 1) \in 28 .. 31
        BY <3>1, MonthLengths
      <3>3. d - DaysIn(y, m) \in 1 .. DaysIn(y, m + 1)
        BY <1>1, <1>4, <3>2
      <3>4. Date(y, m, d) = On(y, m + 1, d - DaysIn(y, m))
        BY <1>4, <2>2, AfterMonth
      <3>5. QED
        BY <3>1, <3>3, <3>4, OnValid
    <2>3. QED
      BY <2>1, <2>2
  <1>5. QED
    BY <1>1, <1>2, <1>3, <1>4

(* A date may be counted from the first of this month or of the last one.  *)
LEMMA CarryMonth ==
  ASSUME NEW y \in Int, NEW m \in 1 .. 11, NEW e \in -14 .. 20
  PROVE  Date(y, m + 1, e) = Date(y, m, e + DaysIn(y, m))
  <1>1. m \in 1 .. 12 /\ m + 1 \in 1 .. 12 /\ m # 12
    OBVIOUS
  <1>2. DaysIn(y, m) \in 28 .. 31 /\ DaysIn(y, m + 1) \in 28 .. 31
    BY <1>1, MonthLengths
  <1>3. CASE e >= 1
    <2>1. e \in 1 .. DaysIn(y, m + 1)
      BY <1>2, <1>3
    <2>2. Date(y, m + 1, e) = On(y, m + 1, e)
      BY <1>1, <2>1, WithinMonth
    <2> DEFINE d == e + DaysIn(y, m)
    <2>3. d \in Int /\ d > DaysIn(y, m) /\ d - DaysIn(y, m) = e
      BY <1>2, <1>3
    <2> HIDE DEF d
    <2>4. Date(y, m, d) = On(y, m + 1, d - DaysIn(y, m))
      BY <2>3, AfterMonth
    <2>5. QED
      BY <2>2, <2>3, <2>4 DEF d
  <1>4. CASE e < 1
    <2>1. Date(y, m + 1, e) = On(y, m + 1 - 1, e + DaysIn(y, m + 1 - 1))
      BY <1>1, <1>4, BeforeMonth
    <2>2. m + 1 - 1 = m
      OBVIOUS
    <2>3. e + DaysIn(y, m) \in 1 .. DaysIn(y, m)
      BY <1>2, <1>4
    <2>4. QED
      BY <1>1, <2>1, <2>2, <2>3, WithinMonth
  <1>5. QED
    BY <1>3, <1>4

LEMMA CarryYear ==
  ASSUME NEW y \in Int, NEW e \in -14 .. 20
  PROVE  Date(y + 1, 1, e) = Date(y, 12, e + 31)
  <1>1. DaysIn(y, 12) = 31 /\ DaysIn(y + 1, 1) = 31 /\ y + 1 \in Int
    BY LongMonths
  <1>2. CASE e >= 1
    <2>1. e \in 1 .. 31
      BY <1>2
    <2>2. Date(y + 1, 1, e) = On(y + 1, 1, e)
      BY <1>1, <2>1, WithinMonth
    <2>3. e + 31 \in Int /\ e + 31 > 31 /\ e + 31 - 31 = e
      BY <1>2
    <2>4. QED
      BY <1>1, <2>2, <2>3, AfterDecember
  <1>3. CASE e < 1
    <2>1. Date(y + 1, 1, e) = On(y + 1 - 1, 12, e + DaysIn(y + 1 - 1, 12))
      BY <1>1, <1>3, BeforeJanuary
    <2>2. y + 1 - 1 = y
      OBVIOUS
    <2>3. e + 31 \in 1 .. 31
      BY <1>3
    <2>4. QED
      BY <1>1, <2>1, <2>2, <2>3, WithinMonth
  <1>4. QED
    BY <1>2, <1>3

LEMMA DaysOfDate ==
  ASSUME NEW y \in Int, NEW m \in 1 .. 12, NEW d \in -6 .. 38,
         NEW k \in -7 .. 7
  PROVE  Days(Date(y, m, d), k) = Date(y, m, d + k)
  <1>1. DaysIn(y, m) \in 28 .. 31 /\ m \in Int
    BY MonthLengths
  <1>2. CASE d \in 1 .. DaysIn(y, m)
    <2>1. Date(y, m, d) = On(y, m, d)
      BY <1>2, WithinMonth
    <2>2. Days(On(y, m, d), k) = Date(y, m, d + k)
      BY <1>1, DaysAre, Zenon
    <2>3. QED
      BY <2>1, <2>2
  <1>3. CASE d < 1 /\ m = 1
    <2>1. y - 1 \in Int /\ DaysIn(y - 1, 12) = 31 /\ y - 1 + 1 = y
      BY LongMonths
    <2>2. Date(y, m, d) = On(y - 1, 12, d + 31)
      BY <1>3, <2>1, BeforeJanuary
    <2>3. Days(On(y - 1, 12, d + 31), k) = Date(y - 1, 12, d + 31 + k)
      BY <2>1, DaysAre
    <2>4. d + k \in -14 .. 20 /\ d + 31 + k = d + k + 31
      BY <1>3
    <2>5. Date(y - 1 + 1, 1, d + k) = Date(y - 1, 12, d + k + 31)
      BY <2>1, <2>4, CarryYear
    <2>6. QED
      BY <1>3, <2>1, <2>2, <2>3, <2>4, <2>5
  <1>4. CASE d < 1 /\ m # 1
    <2>1. /\ m - 1 \in 1 .. 11
          /\ m - 1 \in 1 .. 12
          /\ m - 1 \in Int
          /\ m - 1 + 1 = m
      BY <1>4
    <2>2. DaysIn(y, m - 1) \in 28 .. 31
      BY <2>1, MonthLengths
    <2>3. Date(y, m, d) = On(y, m - 1, d + DaysIn(y, m - 1))
      BY <1>4, BeforeMonth
    <2>4. d + DaysIn(y, m - 1) \in Int
      BY <2>2
    <2>5. Days(On(y, m - 1, d + DaysIn(y, m - 1)), k) =
            Date(y, m - 1, d + DaysIn(y, m - 1) + k)
      BY <2>1, DaysAre
    <2>6. /\ d + k \in -14 .. 20
          /\ d + DaysIn(y, m - 1) + k = d + k + DaysIn(y, m - 1)
      BY <1>4, <2>2
    <2>7. Date(y, m - 1 + 1, d + k) =
            Date(y, m - 1, d + k + DaysIn(y, m - 1))
      BY <2>1, <2>6, CarryMonth
    <2>8. QED
      BY <2>1, <2>3, <2>5, <2>6, <2>7
  <1>5. CASE d > DaysIn(y, m) /\ m = 12
    <2>1. DaysIn(y, m) = 31 /\ y + 1 \in Int /\ 1 \in Int
      BY <1>5, LongMonths
    <2>2. Date(y, m, d) = On(y + 1, 1, d - 31)
      BY <1>5, <2>1, AfterDecember
    <2>3. /\ d - 31 + k \in -14 .. 20
          /\ d - 31 + k + 31 = d + k
          /\ d - 31 \in Int
      BY <1>5, <2>1
    <2>4. Days(On(y + 1, 1, d - 31), k) = Date(y + 1, 1, d - 31 + k)
      BY <2>1, DaysAre, Zenon
    <2>5. Date(y + 1, 1, d - 31 + k) = Date(y, 12, d - 31 + k + 31)
      BY <2>3, CarryYear
    <2>6. QED
      BY <1>5, <2>2, <2>3, <2>4, <2>5
  <1>6. CASE d > DaysIn(y, m) /\ m # 12
    <2> DEFINE l == DaysIn(y, m)
    <2>1. m \in 1 .. 11 /\ m + 1 \in 1 .. 12 /\ m + 1 \in Int
      BY <1>6
    <2>2. Date(y, m, d) = On(y, m + 1, d - l)
      BY <1>6, AfterMonth
    <2>3. /\ d - l + k \in -14 .. 20
          /\ d - l + k + l = d + k
          /\ d - l \in Int
      BY <1>1, <1>6
    <2>4. Days(On(y, m + 1, d - l), k) = Date(y, m + 1, d - l + k)
      BY <2>1, DaysAre
    <2>5. Date(y, m + 1, d - l + k) = Date(y, m, d - l + k + l)
      BY <2>1, <2>3, CarryMonth
    <2>6. QED
      BY <2>2, <2>3, <2>4, <2>5
  <1>7. QED
    BY <1>1, <1>2, <1>3, <1>4, <1>5, <1>6

(* Days add up, across the end of a month and of a year.                   *)
LEMMA DaysOfDays ==
  ASSUME NEW t, Valid(t), NEW j \in -7 .. 7, NEW k \in -7 .. 7
  PROVE  /\ Valid(Days(t, j))
         /\ Days(Days(t, j), k) = Days(t, j + k)
  <1>1. PICK y \in Int, m \in 1 .. 12, d \in Nat :
          t = On(y, m, d) /\ d \in 1 .. DaysIn(y, m)
    BY ValidOn DEF Valid
  <1>2. DaysIn(y, m) \in 28 .. 31 /\ m \in Int
    BY MonthLengths
  <1>3. /\ d + j \in -6 .. 38
        /\ d + j \in -20 .. 40
        /\ d + j + k = d + (j + k)
        /\ j + k \in Int
    BY <1>1, <1>2
  <1>4. Days(On(y, m, d), j) = Date(y, m, d + j)
    BY <1>2, DaysAre, Zenon
  <1>5. Days(On(y, m, d), j + k) = Date(y, m, d + (j + k))
    BY <1>2, DaysAre, Zenon
  <1>6. Days(Date(y, m, d + j), k) = Date(y, m, d + j + k)
    BY <1>3, DaysOfDate
  <1>7. Valid(Date(y, m, d + j))
    BY <1>3, DateValid
  <1>8. QED
    BY <1>1, <1>3, <1>4, <1>5, <1>6, <1>7

LEMMA DaysZero ==
  ASSUME NEW t, Valid(t)
  PROVE  Days(t, 0) = t
  <1>1. PICK y \in Int, m \in 1 .. 12, d \in Nat :
          t = On(y, m, d) /\ d \in 1 .. DaysIn(y, m)
    BY ValidOn DEF Valid
  <1>2. Days(t, 0) = Date(y, m, d + 0) /\ d + 0 = d
    BY <1>1, DaysAre
  <1>3. QED
    BY <1>1, <1>2, WithinMonth

(* So many days back is not after, so many days forth is not before.       *)
LEMMA DaysOrder ==
  ASSUME NEW t, Valid(t), NEW k \in -7 .. 7
  PROVE  /\ k <= 0 => ~Before(t, Days(t, k))
         /\ k >= 0 => ~Before(Days(t, k), t)
  <1>1. PICK y \in Int, m \in 1 .. 12, d \in Nat :
          t = On(y, m, d) /\ d \in 1 .. DaysIn(y, m)
    BY ValidOn DEF Valid
  <1>2. DaysIn(y, m) \in 28 .. 31 /\ d + k \in Int
    BY MonthLengths
  <1>3. Days(t, k) = Date(y, m, d + k)
    <2>1. Days(On(y, m, d), k) = Date(y, m, d + k)
      BY DaysAre
    <2>2. QED
      BY <1>1, <2>1
  <1>4. CASE d + k \in 1 .. DaysIn(y, m)
    <2>1. Days(t, k) = On(y, m, d + k)
      BY <1>3, <1>4, WithinMonth
    <2>2. QED
      BY <1>1, <2>1, OnIs DEF Before
  <1>5. CASE d + k < 1
    <2>1. k < 0 /\ t.y = y /\ t.m = m
      BY <1>1, <1>5, OnIs
    <2>2. CASE m = 1
      <3>1. Date(y, 1, d + k) = On(y - 1, 12, d + k + DaysIn(y - 1, 12))
        BY <1>2, <1>5, BeforeJanuary
      <3>2. Days(t, k).y = y - 1
        BY <1>3, <2>2, <3>1, OnIs
      <3>3. QED
        BY <2>1, <3>2 DEF Before
    <2>3. CASE m \in 2 .. 12
      <3>1. Date(y, m, d + k) = On(y, m - 1, d + k + DaysIn(y, m - 1))
        BY <1>2, <1>5, <2>3, BeforeMonth
      <3>2. Days(t, k).y = y /\ Days(t, k).m = m - 1
        BY <1>3, <3>1, OnIs
      <3>3. QED
        BY <2>1, <3>2 DEF Before
    <2>4. QED
      BY <2>2, <2>3
  <1>6. CASE d + k > DaysIn(y, m)
    <2>1. k > 0 /\ t.y = y /\ t.m = m
      BY <1>1, <1>2, <1>6, OnIs
    <2>2. CASE m = 12
      <3>1. Date(y, 12, d + k) = On(y + 1, 1, d + k - 31)
        BY <1>2, <1>6, <2>2, LongMonths, AfterDecember
      <3>2. Days(t, k).y = y + 1
        BY <1>3, <2>2, <3>1, OnIs
      <3>3. QED
        BY <2>1, <3>2 DEF Before
    <2>3. CASE m \in 1 .. 11
      <3>1. Date(y, m, d + k) = On(y, m + 1, d + k - DaysIn(y, m))
        BY <1>2, <1>6, <2>3, AfterMonth
      <3>2. Days(t, k).y = y /\ Days(t, k).m = m + 1
        BY <1>3, <3>1, OnIs
      <3>3. QED
        BY <2>1, <3>2 DEF Before
    <2>4. QED
      BY <2>2, <2>3
  <1>7. QED
    BY <1>2, <1>4, <1>5, <1>6

-----------------------------------------------------------------------------
(* The windows.                                                            *)

LEMMA MonthEnds ==
  ASSUME NEW y \in Int, NEW m \in 1 .. 12
  PROVE  LastOfMonth(On(y, m, 1)) = On(y, m, DaysIn(y, m))
  <1>1. LastOfMonth(On(y, m, 1)) = Date(y, m + 1, 0)
    <2>1. y + 0 = y /\ 1 + -1 = 0
      OBVIOUS
    <2>2. QED
      BY <2>1, OnIs DEF LastOfMonth, AddDate
  <1>2. FirstOf(y, m + 1 - 1) = On(y, m, 1)
    <2>1. m + 1 - 1 = m
      OBVIOUS
    <2>2. QED
      BY <2>1, Neighbours
  <1>3. DaysIn(y, m) \in 28 .. 31
    BY MonthLengths
  <1>4. Date(y, m + 1, 0) = On(y, m, 0 + DaysIn(y, m))
    BY <1>2, OnIs DEF Date
  <1>5. QED
    BY <1>1, <1>3, <1>4

(* How many days ago the week began.                                       *)
SinceMonday == IF weekday = 0 THEN 6 ELSE weekday - 1

LEMMA MondayIs ==
  ASSUME DateInv
  PROVE  SinceMonday \in 0 .. 6 /\ Monday = Days(today, 0 - SinceMonday)
  BY DEF DateInv, SinceMonday, Monday, Days

LEMMA WindowsAre ==
  ASSUME DateInv
  PROVE  /\ Window("daily") = [from |-> today, to |-> today]
         /\ Window("weekly") = [from |-> Monday, to |-> Days(Monday, 6)]
         /\ Window("monthly") =
              [from |-> On(today.y, today.m, 1),
               to |-> On(today.y, today.m, DaysIn(today.y, today.m))]
         /\ Window("yearly") =
              [from |-> On(today.y, 1, 1), to |-> On(today.y, 12, 31)]
  <1>1. today.y \in Int /\ today.m \in 1 .. 12
    BY DEF DateInv, Valid
  <1>2. LastOfMonth(On(today.y, today.m, 1)) =
          On(today.y, today.m, DaysIn(today.y, today.m))
    BY <1>1, MonthEnds
  <1>3. QED
    BY <1>2 DEF Window, Days

(* The week of today ends as many days later as are left of it.            *)
LEMMA WeekEnds ==
  ASSUME DateInv
  PROVE  /\ Valid(Monday)
         /\ Days(Monday, 6) = Days(today, 6 - SinceMonday)
  <1>1. SinceMonday \in 0 .. 6 /\ Monday = Days(today, 0 - SinceMonday)
    BY MondayIs
  <1>2. /\ 0 - SinceMonday \in -7 .. 7
        /\ 6 \in -7 .. 7
        /\ (0 - SinceMonday) + 6 = 6 - SinceMonday
    BY <1>1
  <1>3. QED
    BY <1>1, <1>2, DaysOfDays DEF DateInv

LEMMA DateInvInit == CalendarInit => DateInv
  <1> SUFFICES ASSUME CalendarInit PROVE DateInv
    OBVIOUS
  <1>1. FirstYear \in Int /\ 1 \in 1 .. DaysIn(FirstYear, 1)
    BY LongMonths, CalendarAssumption
  <1>2. Valid(On(FirstYear, 1, 1))
    BY <1>1, OnValid
  <1>3. QED
    BY <1>2, CalendarAssumption DEF DateInv, CalendarInit

LEMMA DateInvNext == DateInv /\ [NextDay]_calendar => DateInv'
  <1> SUFFICES ASSUME DateInv, [NextDay]_calendar PROVE DateInv'
    OBVIOUS
  <1>1. CASE NextDay
    <2>1. today' = Days(today, 1) /\ 1 \in -7 .. 7
      BY <1>1 DEF NextDay, Days
    <2>2. Valid(Days(today, 1))
      BY <2>1, DaysOfDays DEF DateInv
    <2>3. weekday' \in 0 .. 6
      BY <1>1 DEF NextDay, DateInv
    <2>4. QED
      BY <2>1, <2>2, <2>3 DEF DateInv, Valid
  <1>2. CASE UNCHANGED calendar
    BY <1>2 DEF calendar, DateInv, Valid
  <1>3. QED
    BY <1>1, <1>2

LEMMA DateInvAlways == CalendarSpec => []DateInv
  BY DateInvInit, DateInvNext, PTL DEF CalendarSpec

LEMMA HoldsToday == DateInv => WindowHoldsToday
  <1> SUFFICES ASSUME DateInv, NEW p \in Periods
               PROVE  /\ ~Before(today, Window(p).from)
                      /\ ~Before(Window(p).to, today)
    BY DEF WindowHoldsToday
  <1>1. /\ today.y \in Int
        /\ today.m \in 1 .. 12
        /\ today.d \in 1 .. DaysIn(today.y, today.m)
    BY DEF DateInv, Valid
  <1>2. DaysIn(today.y, today.m) \in 28 .. 31
    BY <1>1, MonthLengths
  <1>3. CASE p = "daily"
    BY <1>1, <1>3, WindowsAre DEF Before
  <1>4. CASE p = "weekly"
    <2>1. SinceMonday \in 0 .. 6 /\ Monday = Days(today, 0 - SinceMonday)
      BY MondayIs
    <2>2. /\ 0 - SinceMonday \in -7 .. 7
          /\ 0 - SinceMonday <= 0
          /\ 6 - SinceMonday \in -7 .. 7
          /\ 6 - SinceMonday >= 0
      BY <2>1
    <2>3. ~Before(today, Monday)
      BY <2>1, <2>2, DaysOrder DEF DateInv
    <2>4. ~Before(Days(Monday, 6), today)
      BY <2>2, WeekEnds, DaysOrder DEF DateInv
    <2>5. QED
      BY <1>4, <2>3, <2>4, WindowsAre
  <1>5. CASE p = "monthly"
    BY <1>1, <1>2, <1>5, WindowsAre, OnIs DEF Before
  <1>6. CASE p = "yearly"
    BY <1>1, <1>2, <1>6, WindowsAre, OnIs, LongMonths DEF Before
  <1>7. QED
    BY <1>3, <1>4, <1>5, <1>6 DEF Periods

(* Every budget's window holds today, on every day of every year.          *)
THEOREM WindowsHoldToday == CalendarSpec => []WindowHoldsToday
  BY DateInvAlways, HoldsToday, PTL

-----------------------------------------------------------------------------
(* From one day to the next.                                               *)

(* Today and the windows of today and tomorrow, as equations.              *)
WindowsKnown ==
    /\ Window("daily") = [from |-> today, to |-> today]
    /\ Window("weekly") = [from |-> Monday, to |-> Days(Monday, 6)]
    /\ Window("monthly") =
         [from |-> On(today.y, today.m, 1),
          to |-> On(today.y, today.m, DaysIn(today.y, today.m))]
    /\ Window("yearly") =
         [from |-> On(today.y, 1, 1), to |-> On(today.y, 12, 31)]
    /\ SinceMonday \in 0 .. 6
    /\ Monday = Days(today, 0 - SinceMonday)
    /\ Days(Monday, 6) = Days(today, 6 - SinceMonday)

LEMMA Known == DateInv => WindowsKnown
  BY WindowsAre, MondayIs, WeekEnds DEF WindowsKnown

(* Tomorrow is in this month or the first of the next.                     *)
LEMMA Tomorrow ==
  ASSUME NEW t, Valid(t)
  PROVE  \/ /\ Days(t, 1).y = t.y
            /\ Days(t, 1).m = t.m
         \/ /\ t.d = DaysIn(t.y, t.m)
            /\ t.m # 12
            /\ Days(t, 1) = On(t.y, t.m + 1, 1)
         \/ /\ t.d = DaysIn(t.y, t.m)
            /\ t.m = 12
            /\ Days(t, 1) = On(t.y + 1, 1, 1)
  <1>1. PICK y \in Int, m \in 1 .. 12, d \in Nat :
          t = On(y, m, d) /\ d \in 1 .. DaysIn(y, m)
    BY ValidOn DEF Valid
  <1>2. DaysIn(y, m) \in 28 .. 31 /\ m \in Int /\ d + 1 \in Int
    BY MonthLengths
  <1>3. Days(On(y, m, d), 1) = Date(y, m, d + 1)
    BY <1>2, DaysAre, Zenon
  <1>4. t.y = y /\ t.m = m /\ t.d = d
    BY <1>1, OnIs
  <1>5. CASE d + 1 \in 1 .. DaysIn(y, m)
    <2>1. Date(y, m, d + 1) = On(y, m, d + 1)
      BY <1>5, WithinMonth
    <2>2. QED
      BY <1>1, <1>3, <1>4, <2>1, OnIs
  <1>6. CASE d = DaysIn(y, m) /\ m = 12
    <2>1. Date(y, 12, d + 1) = On(y + 1, 1, d + 1 - 31)
      BY <1>2, <1>6, LongMonths, AfterDecember
    <2>2. d + 1 - 31 = 1
      BY <1>6, LongMonths
    <2>3. QED
      BY <1>1, <1>3, <1>4, <1>6, <2>1, <2>2
  <1>7. CASE d = DaysIn(y, m) /\ m \in 1 .. 11
    <2>1. Date(y, m, d + 1) = On(y, m + 1, d + 1 - DaysIn(y, m))
      BY <1>2, <1>7, AfterMonth
    <2>2. d + 1 - DaysIn(y, m) = 1
      BY <1>2, <1>7
    <2>3. QED
      BY <1>1, <1>3, <1>4, <1>7, <2>1, <2>2
  <1>8. QED
    BY <1>1, <1>2, <1>5, <1>6, <1>7

(* The day after the last of a month or a year is the first of the next.   *)
LEMMA DayAfter ==
  ASSUME NEW y \in Int, NEW m \in 1 .. 12
  PROVE  LET last == On(y, m, DaysIn(y, m))
         IN  /\ m # 12 => Days(last, 1) = On(y, m + 1, 1)
             /\ m = 12 => Days(last, 1) = On(y + 1, 1, 1)
  <1> DEFINE last == On(y, m, DaysIn(y, m))
  <1>1. DaysIn(y, m) \in 28 .. 31 /\ DaysIn(y, m) \in 1 .. DaysIn(y, m)
    BY MonthLengths
  <1>2. Valid(last)
    BY <1>1, OnValid
  <1>3. last.y = y /\ last.m = m /\ last.d = DaysIn(y, m)
    BY OnIs
  <1>4. /\ m \in Int
        /\ DaysIn(y, m) + 1 \in Int
        /\ DaysIn(y, m) + 1 > DaysIn(y, m)
        /\ DaysIn(y, m) + 1 - DaysIn(y, m) = 1
    BY <1>1
  <1>5. Days(last, 1) = Date(y, m, DaysIn(y, m) + 1)
    BY <1>4, DaysAre, Zenon
  <1>6. CASE m = 12
    <2>1. DaysIn(y, m) = 31
      BY <1>6, LongMonths
    <2>2. Date(y, 12, 32) = On(y + 1, 1, 32 - 31)
      BY AfterDecember
    <2>3. QED
      BY <1>5, <1>6, <2>1, <2>2
  <1>7. CASE m \in 1 .. 11
    <2> DEFINE d == DaysIn(y, m) + 1
    <2>1. d \in Int /\ d > DaysIn(y, m) /\ d - DaysIn(y, m) = 1
      BY <1>1
    <2>2. Days(last, 1) = Date(y, m, d)
      BY <1>5
    <2> HIDE DEF d
    <2>3. Date(y, m, d) = On(y, m + 1, d - DaysIn(y, m))
      BY <1>7, <2>1, AfterMonth
    <2>4. QED
      BY <1>7, <2>1, <2>2, <2>3
  <1>8. QED
    BY <1>6, <1>7

LEMMA TilesNext == DateInv /\ NextDay => Tiles
  <1> SUFFICES ASSUME DateInv, NextDay, NEW p \in Periods
               PROVE  \/ Window(p)' = Window(p)
                      \/ Window(p)'.from = AddDate(Window(p).to, 0, 0, 1)
    BY DEF Tiles
  <1>1. DateInv'
    BY DateInvNext
  <1>2. WindowsKnown
    BY Known
  <1>3. WindowsKnown'
    BY <1>1, Known, PTL
  <1>4. Valid(today) /\ weekday \in 0 .. 6
    BY DEF DateInv
  <1>5. today' = Days(today, 1) /\ weekday' = (weekday + 1) % 7
    BY DEF NextDay, Days
  <1>6. today.y \in Int /\ today.m \in 1 .. 12
    BY <1>4 DEF Valid
  <1>7. CASE p = "daily"
    BY <1>2, <1>3, <1>5, <1>7 DEF WindowsKnown, Days
  <1>8. CASE p = "weekly"
    <2>1. CASE weekday = 0
      <3>1. SinceMonday = 6 /\ SinceMonday' = 0
        BY <1>5, <2>1 DEF SinceMonday
      <3>2. Days(Monday, 6) = today
        BY <1>2, <1>4, <3>1, DaysZero DEF WindowsKnown
      <3>3. Monday' = today'
        <4>1. 0 - 0 = 0
          OBVIOUS
        <4>2. Valid(today')
          BY <1>1 DEF DateInv, Valid
        <4>3. Monday' = Days(today', 0 - 0)
          BY <1>3, <3>1 DEF WindowsKnown
        <4>4. QED
          BY <4>1, <4>2, <4>3, DaysZero
      <3>4. QED
        BY <1>2, <1>3, <1>5, <1>8, <3>2, <3>3 DEF WindowsKnown, Days
    <2>2. CASE weekday # 0
      <3>1. SinceMonday \in 0 .. 5 /\ SinceMonday' = SinceMonday + 1
        BY <1>4, <1>5, <2>2 DEF SinceMonday
      <3>2. /\ 1 \in -7 .. 7
            /\ 0 - (SinceMonday + 1) \in -7 .. 7
            /\ 1 + (0 - (SinceMonday + 1)) = 0 - SinceMonday
        BY <3>1
      <3>3. Days(Days(today, 1), 0 - (SinceMonday + 1)) = Days(today, 0 - SinceMonday)
        BY <1>4, <3>2, DaysOfDays
      <3>4. Monday' = Monday
        BY <1>2, <1>3, <1>5, <3>1, <3>3 DEF WindowsKnown
      <3>5. Window(p) = [from |-> Monday, to |-> Days(Monday, 6)]
        BY <1>2, <1>8 DEF WindowsKnown
      <3>6. Window(p)' = [from |-> Monday', to |-> Days(Monday', 6)]
        BY <1>3, <1>8 DEF WindowsKnown
      <3>7. QED
        BY <3>4, <3>5, <3>6
    <2>3. QED
      BY <2>1, <2>2
  <1>9. CASE p = "monthly"
    <2> DEFINE y == today.y
               m == today.m
               last == On(y, m, DaysIn(y, m))
    <2>1. Window(p) = [from |-> On(y, m, 1), to |-> last]
      BY <1>2, <1>9 DEF WindowsKnown
    <2>2. Window(p)' = [from |-> On(today'.y, today'.m, 1),
                        to |-> On(today'.y, today'.m,
                                  DaysIn(today'.y, today'.m))]
      BY <1>3, <1>9 DEF WindowsKnown
    <2>3. CASE today'.y = y /\ today'.m = m
      BY <2>1, <2>2, <2>3
    <2>4. CASE m # 12 /\ today' = On(y, m + 1, 1)
      <3>1. Days(last, 1) = On(y, m + 1, 1)
        BY <1>6, <2>4, DayAfter
      <3>2. Window(p)'.from = On(y, m + 1, 1)
        BY <2>2, <2>4, OnIs
      <3>3. QED
        BY <2>1, <3>1, <3>2 DEF Days
    <2>5. CASE m = 12 /\ today' = On(y + 1, 1, 1)
      <3>1. Days(last, 1) = On(y + 1, 1, 1)
        BY <1>6, <2>5, DayAfter
      <3>2. Window(p)'.from = On(y + 1, 1, 1)
        BY <2>2, <2>5, OnIs
      <3>3. QED
        BY <2>1, <3>1, <3>2 DEF Days
    <2>6. QED
      BY <1>4, <1>5, <2>3, <2>4, <2>5, Tomorrow
  <1>10. CASE p = "yearly"
    <2> DEFINE y == today.y
    <2>1. Window(p) = [from |-> On(y, 1, 1), to |-> On(y, 12, 31)]
      BY <1>2, <1>10 DEF WindowsKnown
    <2>2. Window(p)' = [from |-> On(today'.y, 1, 1), to |-> On(today'.y, 12, 31)]
      BY <1>3, <1>10 DEF WindowsKnown
    <2>3. CASE today'.y = y
      BY <2>1, <2>2, <2>3
    <2>4. CASE today' = On(y + 1, 1, 1)
      <3>1. Days(On(y, 12, 31), 1) = On(y + 1, 1, 1)
        BY <1>6, DayAfter, LongMonths
      <3>2. Window(p)'.from = On(y + 1, 1, 1)
        BY <2>2, <2>4, OnIs
      <3>3. QED
        BY <2>1, <3>1, <3>2 DEF Days
    <2>5. QED
      BY <1>4, <1>5, <2>3, <2>4, Tomorrow, OnIs
  <1>11. QED
    BY <1>7, <1>8, <1>9, <1>10 DEF Periods

(* Windows follow one another without a gap and without an overlap, across *)
(* the ends of months and years and the 29th of February.                  *)
THEOREM TheyTile == CalendarSpec => WindowsTile
  <1>1. DateInv => [NextDay => Tiles]_calendar
    BY TilesNext
  <1>2. QED
    BY <1>1, DateInvAlways, PTL DEF CalendarSpec, WindowsTile

-----------------------------------------------------------------------------
(* The first month of a trend.                                             *)

(* Every number of months is a year and a month.                           *)
LEMMA YearAndMonth ==
  ASSUME NEW y \in Int, NEW m \in Int
  PROVE  \E z \in Int, k \in 1 .. 12 : Months(y, m) = Months(z, k)
  <1> DEFINE x == Months(y, m)
             q == (x - 1) \div 12
             r == (x - 1) % 12
  <1>1. x \in Int
    BY DEF Months
  <1> HIDE DEF x
  <1>2. q \in Int /\ r \in 0 .. 11 /\ x - 1 = 12 * q + r
    BY <1>1
  <1> HIDE DEF q, r
  <1>3. r + 1 \in 1 .. 12 /\ x = Months(q, r + 1)
    BY <1>1, <1>2 DEF Months
  <1>4. QED
    BY <1>2, <1>3 DEF x

(* AddDate over months arrives in the month meant or, where that month     *)
(* lacks the day, in the one after.                                        *)
LEMMA MonthsBack ==
  ASSUME NEW y \in Int, NEW m \in Int, NEW d \in 1 .. 31
  PROVE  \E z \in Int, k \in 1 .. 12 :
           /\ Date(y, m, d).y = z
           /\ Date(y, m, d).m = k
           /\ \/ Months(z, k) = Months(y, m)
              \/ Months(z, k) = Months(y, m) + 1 /\ d > 28
  <1>1. PICK z \in Int, k \in 1 .. 12 : Months(y, m) = Months(z, k)
    BY YearAndMonth
  <1>2. 12 * y + m = 12 * z + k
    BY <1>1 DEF Months
  <1>3. FirstOf(y, m) = On(z, k, 1)
    BY <1>1, FirstOfIs
  <1>4. DaysIn(z, k) \in 28 .. 31
    BY MonthLengths
  <1>5. CASE d <= DaysIn(z, k)
    <2>1. Date(y, m, d) = On(z, k, d)
      BY <1>3, <1>4, <1>5, OnIs DEF Date
    <2>2. QED
      BY <1>1, <2>1, OnIs
  <1>6. CASE d > DaysIn(z, k) /\ k # 12
    <2>1. /\ m + 1 \in Int
          /\ k + 1 \in 1 .. 12
          /\ Months(y, m + 1) = Months(z, k + 1)
      BY <1>2, <1>6 DEF Months
    <2>2. FirstOf(y, m + 1) = On(z, k + 1, 1)
      BY <2>1, FirstOfIs
    <2>3. Date(y, m, d) = On(z, k + 1, d - DaysIn(z, k))
      BY <1>3, <1>4, <1>6, <2>2, OnIs DEF Date
    <2>4. Date(y, m, d).y = z /\ Date(y, m, d).m = k + 1
      BY <2>3, OnIs
    <2>5. Months(z, k + 1) = Months(y, m) + 1 /\ d > 28
      BY <1>2, <1>4, <1>6 DEF Months
    <2>6. QED
      BY <2>1, <2>4, <2>5
  <1>7. CASE d > DaysIn(z, k) /\ k = 12
    <2>1. /\ m + 1 \in Int
          /\ z + 1 \in Int
          /\ 1 \in 1 .. 12
          /\ Months(y, m + 1) = Months(z + 1, 1)
      BY <1>2, <1>7 DEF Months
    <2>2. FirstOf(y, m + 1) = On(z + 1, 1, 1)
      BY <2>1, FirstOfIs
    <2>3. Date(y, m, d) = On(z + 1, 1, d - DaysIn(z, k))
      BY <1>3, <1>4, <1>7, <2>2, OnIs DEF Date
    <2>4. Date(y, m, d).y = z + 1 /\ Date(y, m, d).m = 1
      BY <2>3, OnIs
    <2>5. Months(z + 1, 1) = Months(y, m) + 1 /\ d > 28
      BY <1>2, <1>4, <1>7 DEF Months
    <2>6. QED
      BY <2>1, <2>4, <2>5
  <1>8. QED
    BY <1>4, <1>5, <1>6, <1>7

LEMMA ShortByOne == DateInv => TrendShortByAtMostOne
  <1> SUFFICES ASSUME DateInv, NEW n \in 1 .. 24
               PROVE  \/ Covered(n) = n
                      \/ Covered(n) = n - 1 /\ today.d > 28
    BY DEF TrendShortByAtMostOne
  <1>1. PICK y \in Int, m \in 1 .. 12, d \in Nat :
          today = On(y, m, d) /\ d \in 1 .. DaysIn(y, m)
    BY ValidOn DEF DateInv, Valid
  <1>2. DaysIn(y, m) \in 28 .. 31 /\ d \in 1 .. 31 /\ d \in Nat /\ m \in Int
    BY <1>1, MonthLengths
  <1>3. today.y = y /\ today.m = m /\ today.d = d
    BY <1>1, OnIs
  <1> DEFINE s == Date(y, m + -(n - 1), d)
  <1>4. AddDate(today, 0, -(n - 1), 0) = s
    <2>1. y + 0 = y /\ d + 0 = d
      BY <1>2
    <2>2. QED
      BY <1>3, <2>1 DEF AddDate
  <1>5. TrendStart(n).y = s.y /\ TrendStart(n).m = s.m
    BY <1>4, OnIs DEF TrendStart
  <1>6. Covered(n) = 12 * (y - s.y) + m - s.m + 1
    BY <1>3, <1>5 DEF Covered
  <1>7. m + -(n - 1) \in Int
    BY <1>2
  <1>8. PICK z \in Int, k \in 1 .. 12 :
          /\ s.y = z
          /\ s.m = k
          /\ \/ Months(z, k) = Months(y, m + -(n - 1))
             \/ Months(z, k) = Months(y, m + -(n - 1)) + 1 /\ d > 28
    BY <1>2, <1>7, MonthsBack
  <1> HIDE DEF s
  <1>9. Covered(n) = 12 * (y - z) + m - k + 1
    BY <1>6, <1>8
  <1>10. QED
    BY <1>2, <1>3, <1>8, <1>9 DEF Months

(* On the first 28 days of every month a trend covers the months asked     *)
(* for; on the others it is short by one month at most.                    *)
THEOREM TrendsAreNearlyWhole == CalendarSpec => []TrendShortByAtMostOne
  BY DateInvAlways, ShortByOne, PTL

-----------------------------------------------------------------------------
(* The readers side by side.                                               *)

(* Whatever runs, each reader takes a step of its own or none.             *)
LEMMA SideBySide ==
  [MCNext]_allVars =>
    /\ [Pag!Next]_pagVars /\ [Rep!Next]_repVars /\ [Tre!Next]_treVars
    /\ [Ale!Next]_aleVars /\ [Rou!Next]_rouVars
  BY DEF MCNext, allVars, pagVars, repVars, treVars, aleVars, rouVars

LEMMA ReadersStart ==
  MCInit => Pag!Init /\ Rep!Init /\ Tre!Init /\ Ale!Init /\ Rou!Init
  BY DEF MCInit

-----------------------------------------------------------------------------
(* The list of alerts.                                                     *)

(* If B lacks no more of A than what is in D, A is larger by no more than  *)
(* D.                                                                      *)
LEMMA LargerBy ==
  ASSUME NEW A, NEW B, NEW D, IsFiniteSet(A), IsFiniteSet(B), IsFiniteSet(D),
         A \ B \subseteq D
  PROVE  /\ Cardinality(A) \in Nat /\ Cardinality(B) \in Nat
         /\ Cardinality(D) \in Nat
         /\ Cardinality(A) - Cardinality(B) <= Cardinality(D)
  <1>1. /\ IsFiniteSet(B \union D)
        /\ Cardinality(B \union D)
             = Cardinality(B) + Cardinality(D) - Cardinality(B \intersect D)
    BY FS_Union
  <1>2. Cardinality(A) <= Cardinality(B \union D)
    <2>1. A \subseteq B \union D
      OBVIOUS
    <2>2. QED
      BY <1>1, <2>1, FS_Subset
  <1>3. IsFiniteSet(B \intersect D)
    BY FS_Intersection
  <1>4. \A S \in {A, B, D, B \intersect D, B \union D} : Cardinality(S) \in Nat
    BY <1>1, <1>3, FS_CardinalityType
  <1>5. QED
    BY <1>1, <1>2, <1>4

(* What the answer shows, or would show if it were fetched now.            *)
Shown == IF list.pc = "done" THEN list.rows ELSE Ale!Stored

ShownUnread == IF list.pc = "done" THEN list.fresh ELSE Ale!Unread

(* total is the number of some alerts T that differ from those shown by    *)
(* nothing but what has come and gone since, and unread is the number of   *)
(* some U that do so from the unread ones.                                 *)
Counted ==
    \E T, U \in SUBSET Alerts :
        /\ list.pc # "idle" =>
             /\ list.total = Cardinality(T)
             /\ T \ Shown \subseteq deleted
             /\ Shown \ T \subseteq created
        /\ list.pc \in {"rows", "done"} =>
             /\ list.unread = Cardinality(U)
             /\ U \subseteq T \union created
             /\ U \ ShownUnread \subseteq marked \union deleted
             /\ ShownUnread \ U \subseteq created

ListInv ==
    /\ Ale!TypeOK
    /\ list.pc = "idle" => created = {} /\ deleted = {} /\ marked = {}
    /\ Counted

LEMMA ListInvInit == Ale!Init => ListInv
  BY DEF Ale!Init, ListInv, Ale!TypeOK, Ale!Nothing, Counted

LEMMA AlertsFinite ==
  ASSUME NEW S, S \subseteq Alerts
  PROVE  IsFiniteSet(S) /\ Cardinality(S) \in Nat
  BY ReadersAssumption, FS_Subset, FS_CardinalityType

LEMMA AlertsCounted == \A S : Ale!Cardinality(S) = Cardinality(S)
  BY DEF Ale!Cardinality, Cardinality

LEMMA ListType == Ale!TypeOK /\ [Ale!Next]_aleVars => Ale!TypeOK'
  <1> SUFFICES ASSUME Ale!TypeOK, [Ale!Next]_aleVars
               PROVE  Ale!TypeOK'
    OBVIOUS
  <1>0. Cardinality(Ale!Stored) \in Nat /\ Cardinality(Ale!Unread) \in Nat
    <2>1. Ale!Stored \subseteq Alerts /\ Ale!Unread \subseteq Alerts
      BY DEF Ale!Stored, Ale!Unread
    <2>2. QED
      BY <2>1, AlertsFinite
  <1> USE DEF Ale!TypeOK, Ale!ghosts
  <1>1. CASE Ale!CountTotal
    <2>1. \A n \in Nat : [list EXCEPT !.pc = "unread", !.total = n]
                            \in [pc : {"idle", "unread", "rows", "done"},
                                 total : Nat, unread : Nat,
                                 rows : SUBSET Alerts, fresh : SUBSET Alerts]
      OBVIOUS
    <2>2. list' \in [pc : {"idle", "unread", "rows", "done"},
                     total : Nat, unread : Nat,
                     rows : SUBSET Alerts, fresh : SUBSET Alerts]
      BY <1>0, <1>1, <2>1, AlertsCounted, Zenon DEF Ale!CountTotal
    <2>3. list'.rows = list.rows /\ list'.fresh = list.fresh
      BY <1>1 DEF Ale!CountTotal
    <2>4. QED
      BY <1>1, <2>2, <2>3 DEF Ale!CountTotal
  <1>2. CASE Ale!CountUnread
    <2>1. \A n \in Nat : [list EXCEPT !.pc = "rows", !.unread = n]
                            \in [pc : {"idle", "unread", "rows", "done"},
                                 total : Nat, unread : Nat,
                                 rows : SUBSET Alerts, fresh : SUBSET Alerts]
      OBVIOUS
    <2>2. list' \in [pc : {"idle", "unread", "rows", "done"},
                     total : Nat, unread : Nat,
                     rows : SUBSET Alerts, fresh : SUBSET Alerts]
      BY <1>0, <1>2, <2>1, AlertsCounted, Zenon DEF Ale!CountUnread
    <2>3. list'.rows = list.rows /\ list'.fresh = list.fresh
      BY <1>2 DEF Ale!CountUnread
    <2>4. QED
      BY <1>2, <2>2, <2>3 DEF Ale!CountUnread
  <1>3. CASE Ale!FindRows
    BY <1>3 DEF Ale!FindRows, Ale!Stored, Ale!Unread
  <1>4. CASE Ale!Ends
    BY <1>4 DEF Ale!Ends, Ale!Nothing
  <1>5. CASE Ale!MarkAllRead
    BY <1>5 DEF Ale!MarkAllRead, Ale!During, Ale!Unread
  <1>6. ASSUME NEW a \in Alerts, Ale!Create(a) \/ Ale!MarkRead(a) \/ Ale!Delete(a)
        PROVE  Ale!TypeOK'
    BY <1>6 DEF Ale!Create, Ale!MarkRead, Ale!Delete, Ale!During, Ale!Unread
  <1>7. CASE UNCHANGED aleVars
    BY <1>7 DEF aleVars
  <1>8. QED
    BY <1>1, <1>2, <1>3, <1>4, <1>5, <1>6, <1>7 DEF Ale!Next

LEMMA CountedStep ==
  ASSUME ListInv, [Ale!Next]_aleVars
  PROVE  Counted'
  <1> USE DEF ListInv, Ale!TypeOK, Ale!ghosts, Ale!Stored, Ale!Unread, Shown,
              ShownUnread
  <1>1. PICK T \in SUBSET Alerts, U \in SUBSET Alerts :
          /\ list.pc # "idle" =>
               /\ list.total = Cardinality(T)
               /\ T \ Shown \subseteq deleted
               /\ Shown \ T \subseteq created
          /\ list.pc \in {"rows", "done"} =>
               /\ list.unread = Cardinality(U)
               /\ U \subseteq T \union created
               /\ U \ ShownUnread \subseteq marked \union deleted
               /\ ShownUnread \ U \subseteq created
    BY DEF Counted
  <1>2. CASE Ale!CountTotal
    <2>1. /\ list'.pc = "unread" /\ list'.total = Cardinality(Ale!Stored)
          /\ Shown' = Ale!Stored
      BY <1>2, AlertsCounted DEF Ale!CountTotal
    <2>2. Ale!Stored \in SUBSET Alerts
      OBVIOUS
    <2>3. QED
      BY <2>1, <2>2 DEF Counted
  <1>3. CASE Ale!CountUnread
    <2>1. /\ list'.pc = "rows" /\ list'.total = list.total
          /\ list'.unread = Cardinality(Ale!Unread)
          /\ Shown' = Shown /\ ShownUnread' = Ale!Unread
          /\ UNCHANGED <<created, deleted, marked>>
      BY <1>3, AlertsCounted DEF Ale!CountUnread
    <2>2. Ale!Unread \in SUBSET Alerts /\ Ale!Unread \subseteq T \union created
      BY <1>1, <1>3 DEF Ale!CountUnread
    <2> HIDE DEF Shown, ShownUnread, Ale!Stored, Ale!Unread
    <2>3. QED
      BY <1>1, <1>3, <2>1, <2>2 DEF Counted, Ale!CountUnread
  <1>4. CASE Ale!FindRows
    BY <1>1, <1>4 DEF Ale!FindRows, Counted
  <1>5. CASE Ale!Ends
    BY <1>1, <1>5 DEF Ale!Ends, Ale!Nothing, Counted
  <1>6. CASE Ale!MarkAllRead
    BY <1>1, <1>6 DEF Ale!MarkAllRead, Ale!During, Counted
  <1>7. ASSUME NEW a \in Alerts, Ale!Create(a)
        PROVE  Counted'
    BY <1>1, <1>7 DEF Ale!Create, Ale!During, Counted
  <1>8. ASSUME NEW a \in Alerts, Ale!MarkRead(a)
        PROVE  Counted'
    BY <1>1, <1>8 DEF Ale!MarkRead, Ale!During, Counted
  <1>9. ASSUME NEW a \in Alerts, Ale!Delete(a)
        PROVE  Counted'
    BY <1>1, <1>9 DEF Ale!Delete, Ale!During, Counted
  <1>10. CASE UNCHANGED aleVars
    BY <1>1, <1>10 DEF aleVars, Counted
  <1>11. QED
    BY <1>2, <1>3, <1>4, <1>5, <1>6, <1>7, <1>8, <1>9, <1>10 DEF Ale!Next

LEMMA ListInvStep == ListInv /\ [Ale!Next]_aleVars => ListInv'
  <1> SUFFICES ASSUME ListInv, [Ale!Next]_aleVars
               PROVE  ListInv'
    OBVIOUS
  <1>1. Ale!TypeOK' /\ Counted'
    BY ListType, CountedStep DEF ListInv
  <1>2. (list.pc = "idle" => created = {} /\ deleted = {} /\ marked = {})'
    BY DEF ListInv, Ale!TypeOK, Ale!Next, Ale!CountTotal, Ale!CountUnread,
           Ale!FindRows, Ale!Ends, Ale!MarkAllRead, Ale!Create, Ale!MarkRead,
           Ale!Delete, Ale!During, Ale!Nothing, Ale!ghosts, aleVars
  <1>3. QED
    BY <1>1, <1>2 DEF ListInv

LEMMA CountsMatch == ListInv => Ale!CountsMatchRows
  <1> SUFFICES ASSUME ListInv, list.pc = "done"
               PROVE  Ale!CountsMatchRows
    BY DEF Ale!CountsMatchRows
  <1>1. PICK T \in SUBSET Alerts, U \in SUBSET Alerts :
          /\ list.total = Cardinality(T)
          /\ T \ list.rows \subseteq deleted
          /\ list.rows \ T \subseteq created
          /\ list.unread = Cardinality(U)
          /\ U \ T \subseteq created
          /\ U \ list.fresh \subseteq marked \union deleted
          /\ list.fresh \ U \subseteq created
    BY DEF ListInv, Counted, Shown, ShownUnread
  <1>2. /\ list.rows \in SUBSET Alerts /\ list.fresh \in SUBSET Alerts
        /\ created \in SUBSET Alerts /\ deleted \in SUBSET Alerts
        /\ marked \union deleted \in SUBSET Alerts
    BY DEF ListInv, Ale!TypeOK
  <1>3. \A A, B, D \in SUBSET Alerts :
          A \ B \subseteq D => Cardinality(A) - Cardinality(B) <= Cardinality(D)
    BY AlertsFinite, LargerBy
  <1>4. QED
    BY <1>1, <1>2, <1>3, AlertsCounted DEF Ale!CountsMatchRows, Ale!Few

(* For any number of alerts, and whatever comes, is read or goes between   *)
(* the three statements of the list, what it counts and what it shows      *)
(* differ by no more than that.                                            *)
THEOREM CountsAreRight == MCSpec => []CountsMatchRows
  <1>1. MCInit => ListInv
    BY ReadersStart, ListInvInit
  <1>2. ListInv /\ [MCNext]_allVars => ListInv'
    BY SideBySide, ListInvStep
  <1>3. ListInv => CountsMatchRows
    BY CountsMatch DEF CountsMatchRows
  <1>4. QED
    BY <1>1, <1>2, <1>3, PTL DEF MCSpec

-----------------------------------------------------------------------------
(* The list page by page.                                                  *)

(* The rows that are there, those ahead of one in the order, and its rank. *)
Standing(at) == {r \in Rows : at[r] # 0}

Ahead(at, x) == {y \in Standing(at) : at[y] < at[x]}

RankIn(at, x) == Cardinality(Ahead(at, x))

LEMMA RowsCounted ==
  ASSUME NEW S \in SUBSET Rows
  PROVE  IsFiniteSet(S) /\ Cardinality(S) \in Nat
  BY ReadersAssumption, FS_Subset, FS_CardinalityType

LEMMA PageCounted == \A S : Pag!Cardinality(S) = Cardinality(S)
  BY DEF Pag!Cardinality, Cardinality

LEMMA Ranked ==
  ASSUME NEW at \in [Rows -> Nat], NEW x \in Standing(at)
  PROVE  /\ RankIn(at, x) \in Nat /\ Cardinality(Standing(at)) \in Nat
         /\ RankIn(at, x) < Cardinality(Standing(at))
  <1> DEFINE A == Ahead(at, x)
             L == Standing(at)
  <1>1. A \in SUBSET Rows /\ L \in SUBSET Rows
    BY DEF Ahead, Standing
  <1>2. x \in L /\ x \notin A /\ A \subseteq L
    BY DEF Ahead, Standing
  <1>3. /\ IsFiniteSet(A) /\ Cardinality(A) \in Nat
        /\ IsFiniteSet(L) /\ Cardinality(L) \in Nat
    BY <1>1, RowsCounted
  <1> HIDE DEF A, L
  <1>4. Cardinality(A) <= Cardinality(L) /\ (Cardinality(L) = Cardinality(A) => L = A)
    BY <1>2, <1>3, FS_Subset
  <1>5. Cardinality(A) < Cardinality(L)
    BY <1>2, <1>3, <1>4
  <1>6. QED
    BY <1>3, <1>5 DEF A, L, RankIn

(* Without ties no two rows have one rank.                                 *)
LEMMA RanksDiffer ==
  ASSUME NEW at \in [Rows -> Nat], ~Pag!Tied(at),
         NEW x \in Standing(at), NEW y \in Standing(at), x # y
  PROVE  RankIn(at, x) # RankIn(at, y)
  <1>1. ASSUME NEW u \in Standing(at), NEW v \in Standing(at), at[u] < at[v]
        PROVE  RankIn(at, u) # RankIn(at, v)
    <2> DEFINE A == Ahead(at, u)
               B == Ahead(at, v)
    <2>1. A \in SUBSET B /\ u \in B /\ u \notin A /\ B \in SUBSET Rows
      BY <1>1 DEF Ahead, Standing
    <2>2. IsFiniteSet(B)
      BY <2>1, RowsCounted
    <2> HIDE DEF A, B
    <2>3. Cardinality(B) = Cardinality(A) => B = A
      BY <2>1, <2>2, FS_Subset
    <2>4. Cardinality(B) # Cardinality(A)
      BY <2>1, <2>3
    <2>5. QED
      BY <2>4 DEF A, B, RankIn
  <1>2. at[x] # at[y] /\ at[x] \in Nat /\ at[y] \in Nat
    BY DEF Pag!Tied, Pag!Absent, Standing
  <1>3. QED
    BY <1>1, <1>2

(* A page at offset o of the size c holds the rows of the ranks from o on  *)
(* that are below o + c.                                                   *)
LEMMA PageHolds ==
  ASSUME NEW at \in [Rows -> Nat], ~Pag!Tied(at), NEW o \in Nat, NEW c \in Nat,
         NEW P \in SUBSET Standing(at), NEW B \in SUBSET (Standing(at) \ P),
         Cardinality(B) = o, Cardinality(P) <= c,
         Cardinality(P) = c \/ Cardinality(P) = Cardinality(Standing(at)) - o,
         \A x \in B, y \in Standing(at) \ B : at[x] <= at[y],
         \A x \in P, y \in Standing(at) \ (B \union P) : at[x] <= at[y],
         NEW x \in Standing(at)
  PROVE  x \in P <=> o <= RankIn(at, x) /\ RankIn(at, x) < o + c
  <1> DEFINE L == Standing(at)
             A == Ahead(at, x)
             Q == B \union P
  <1>1. /\ B \subseteq L /\ P \subseteq L /\ B \intersect P = {} /\ L \in SUBSET Rows
        /\ A = {y \in L : at[y] < at[x]} /\ A \subseteq L /\ x \in L /\ x \notin A
    BY DEF Ahead, Standing
  <1>2. \A y \in L : at[y] \in Nat /\ (at[y] = at[x] => y = x)
    BY DEF Standing, Pag!Tied, Pag!Absent
  <1>3. \A S \in SUBSET L : IsFiniteSet(S) /\ Cardinality(S) \in Nat
    BY <1>1, RowsCounted
  <1>4. Cardinality(Q) = o + Cardinality(P)
    <2>1. Cardinality(Q) = Cardinality(B) + Cardinality(P) - Cardinality(B \intersect P)
      BY <1>1, <1>3, FS_Union
    <2>2. Cardinality(B \intersect P) = 0
      BY <1>1, FS_EmptySet
    <2>3. QED
      BY <1>1, <1>3, <2>1, <2>2
  <1>5. /\ \A u \in B, v \in L \ B : at[u] <= at[v]
        /\ \A u \in P, v \in L \ Q : at[u] <= at[v]
        /\ Cardinality(P) = c \/ Cardinality(P) = Cardinality(L) - o
    OBVIOUS
  <1>6. RankIn(at, x) = Cardinality(A)
    BY DEF RankIn
  <1> HIDE DEF L, A, Q
  <1>7. \A S, T \in SUBSET L : S \subseteq T => Cardinality(S) <= Cardinality(T)
    BY <1>3, FS_Subset
  <1>8. ASSUME NEW S \in SUBSET L, NEW T \in SUBSET L, x \in S, T \subseteq S \ {x}
        PROVE  Cardinality(T) <= Cardinality(S) - 1
    <2>1. Cardinality(S \ {x}) = Cardinality(S) - 1 /\ S \ {x} \in SUBSET L
      BY <1>3, <1>8, FS_RemoveElement
    <2>2. Cardinality(T) <= Cardinality(S \ {x})
      BY <1>7, <1>8, <2>1
    <2>3. QED
      BY <2>1, <2>2
  <1>9. Q \subseteq L
    BY <1>1 DEF Q
  <1>10. CASE x \in P
    <2>1. B \subseteq A
      BY <1>1, <1>2, <1>5, <1>10
    <2>2. A \subseteq Q \ {x} /\ x \in Q
      BY <1>1, <1>2, <1>5, <1>10 DEF Q
    <2>3. Cardinality(B) <= Cardinality(A)
      BY <1>1, <1>7, <2>1
    <2>4. Cardinality(A) <= Cardinality(Q) - 1
      BY <1>1, <1>8, <1>9, <2>2
    <2>5. /\ Cardinality(A) \in Nat /\ Cardinality(P) \in Nat
      BY <1>1, <1>3
    <2>6. QED
      BY <1>4, <1>6, <1>10, <2>3, <2>4, <2>5
  <1>11. CASE x \in B
    <2>1. A \subseteq B \ {x}
      BY <1>1, <1>2, <1>5, <1>11
    <2>2. Cardinality(A) <= Cardinality(B) - 1
      BY <1>1, <1>8, <1>11, <2>1
    <2>3. Cardinality(A) \in Nat /\ x \notin P
      BY <1>1, <1>3, <1>11
    <2>4. QED
      BY <1>6, <2>2, <2>3
  <1>12. CASE x \notin B /\ x \notin P
    <2>1. Q \subseteq A
      BY <1>1, <1>2, <1>5, <1>12 DEF Q
    <2>2. Cardinality(Q) <= Cardinality(A)
      BY <1>1, <1>7, <1>9, <2>1
    <2>3. A \subseteq L \ {x}
      BY <1>1
    <2>4. Cardinality(A) <= Cardinality(L) - 1
      BY <1>1, <1>8, <2>3
    <2>5. /\ Cardinality(A) \in Nat /\ Cardinality(L) \in Nat
          /\ Cardinality(P) \in Nat
      BY <1>1, <1>3
    <2>6. QED
      BY <1>4, <1>5, <1>6, <1>12, <2>2, <2>4, <2>5
  <1>13. QED
    BY <1>10, <1>11, <1>12

(* One row comes, goes or moves.                                           *)
LEMMA AheadMoves ==
  ASSUME NEW at \in [Rows -> Nat], NEW to \in [Rows -> Nat], NEW r \in Rows,
         \A y \in Rows : y # r => to[y] = at[y],
         NEW x \in Standing(at), x # r
  PROVE  /\ x \in Standing(to)
         /\ RankIn(at, x) \in Nat /\ RankIn(to, x) \in Nat
         /\ RankIn(at, x) - RankIn(to, x) <= 1
         /\ RankIn(to, x) - RankIn(at, x) <= 1
         /\ at[r] = 0 => RankIn(at, x) <= RankIn(to, x)
  <1> DEFINE A == Ahead(at, x)
             B == Ahead(to, x)
  <1>1. /\ A \in SUBSET Rows /\ B \in SUBSET Rows
        /\ A \ B \subseteq {r} /\ B \ A \subseteq {r}
        /\ at[r] = 0 => A \subseteq B
        /\ x \in Standing(to)
    BY DEF Ahead, Standing
  <1>2. /\ IsFiniteSet(A) /\ Cardinality(A) \in Nat
        /\ IsFiniteSet(B) /\ Cardinality(B) \in Nat
    BY <1>1, RowsCounted
  <1>3. IsFiniteSet({r}) /\ Cardinality({r}) = 1
    BY FS_Singleton
  <1> HIDE DEF A, B
  <1>4. Cardinality(A) - Cardinality(B) <= Cardinality({r})
    BY <1>1, <1>2, <1>3, LargerBy
  <1>5. Cardinality(B) - Cardinality(A) <= Cardinality({r})
    BY <1>1, <1>2, <1>3, LargerBy
  <1>6. at[r] = 0 => Cardinality(A) <= Cardinality(B)
    BY <1>1, <1>2, FS_Subset
  <1>7. QED
    BY <1>1, <1>2, <1>3, <1>4, <1>5, <1>6 DEF A, B, RankIn

LEMMA StandingMoves ==
  ASSUME NEW at \in [Rows -> Nat], NEW to \in [Rows -> Nat], NEW r \in Rows,
         \A y \in Rows : y # r => to[y] = at[y]
  PROVE  /\ Cardinality(Standing(at)) \in Nat /\ Cardinality(Standing(to)) \in Nat
         /\ at[r] # 0 => Cardinality(Standing(to)) <= Cardinality(Standing(at))
         /\ Cardinality(Standing(to)) <= Cardinality(Standing(at)) + 1
  <1> DEFINE A == Standing(at)
             B == Standing(to)
  <1>1. /\ A \in SUBSET Rows /\ B \in SUBSET Rows
        /\ B \ A \subseteq {r}
        /\ at[r] # 0 => B \subseteq A
    BY DEF Standing
  <1>2. /\ IsFiniteSet(A) /\ Cardinality(A) \in Nat
        /\ IsFiniteSet(B) /\ Cardinality(B) \in Nat
    BY <1>1, RowsCounted
  <1>3. IsFiniteSet({r}) /\ Cardinality({r}) = 1
    BY FS_Singleton
  <1> HIDE DEF A, B
  <1>4. Cardinality(B) - Cardinality(A) <= Cardinality({r})
    BY <1>1, <1>2, <1>3, LargerBy
  <1>5. at[r] # 0 => Cardinality(B) <= Cardinality(A)
    BY <1>1, <1>2, FS_Subset
  <1>6. QED
    BY <1>2, <1>3, <1>4, <1>5 DEF A, B

(* Where the next page starts; the rows that have moved to the pages       *)
(* before it without being seen; those that have moved to the pages from   *)
(* it on after being seen, or were seen twice; and by how many there are   *)
(* more rows now than when they were counted.                              *)
Offset == (walk.page - 1) * Pag!Clamped

Missed == {x \in stayed \ seen : RankIn(place, x) < Offset}

Again == {x \in stayed \intersect seen : RankIn(place, x) >= Offset}
           \union (stayed \intersect twice)

Late ==
    IF Cardinality(Standing(place)) > walk.total
    THEN Cardinality(Standing(place)) - walk.total ELSE 0

PagesInv ==
    /\ Pag!TypeOK
    /\ walk.pc = "idle" =>
         walk.page = 1 /\ stayed = {} /\ seen = {} /\ twice = {} /\ writes = 0
    /\ walk.pc \in {"count", "find"} /\ ~tied =>
         /\ ~Pag!Tied(place)
         /\ Cardinality(Missed) <= writes
         /\ Cardinality(Again) <= writes
    /\ walk.pc = "find" /\ ~tied => Cardinality(Missed) + Late <= writes
    /\ walk.pc = "done" /\ ~tied =>
         /\ Cardinality(stayed \ seen) <= writes + Pag!BeyondPages
         /\ Cardinality(stayed \intersect twice) <= writes

LEMMA PagesTypes ==
  ASSUME Pag!TypeOK
  PROVE  /\ place \in [Rows -> Nat] /\ Standing(place) = Pag!Live
         /\ Pag!Live \in SUBSET Rows /\ Cardinality(Standing(place)) \in Nat
         /\ stayed \in SUBSET Standing(place)
         /\ seen \in SUBSET Rows /\ twice \in SUBSET seen
         /\ walk.pc \in {"idle", "count", "find", "done"}
         /\ walk.page \in Nat /\ walk.page > 0
         /\ walk.limit \in Nat /\ walk.limit > 0 /\ walk.limit \in Pag!Limits
         /\ walk.total \in Nat
         /\ walk = [pc |-> walk.pc, page |-> walk.page, limit |-> walk.limit,
                    total |-> walk.total]
         /\ writes \in Nat /\ writes <= MaxWrites
         /\ MaxLimit \in Nat /\ MaxLimit > 0
         /\ Pag!Clamped \in Nat /\ Pag!Clamped > 0
  <1>1. MaxLimit \in Nat /\ MaxLimit > 0 /\ MaxWrites \in Nat /\ MaxPlace \in Nat
    BY ReadersAssumption
  <1>2. place \in [Rows -> Nat] /\ Standing(place) = Pag!Live /\ Pag!Live \in SUBSET Rows
    BY <1>1 DEF Pag!TypeOK, Pag!Places, Pag!Absent, Standing, Pag!Live
  <1>3. Cardinality(Standing(place)) \in Nat
    BY <1>2, RowsCounted
  <1>4. /\ walk.pc \in {"idle", "count", "find", "done"}
        /\ walk.page \in Nat /\ walk.page > 0 /\ walk.limit \in Pag!Limits
        /\ walk.total \in Nat
        /\ walk = [pc |-> walk.pc, page |-> walk.page, limit |-> walk.limit,
                   total |-> walk.total]
    BY DEF Pag!TypeOK
  <1>5. walk.limit \in Nat /\ walk.limit > 0
    BY <1>1, <1>4 DEF Pag!Limits
  <1>6. Pag!Clamped \in Nat /\ Pag!Clamped > 0
    BY <1>1, <1>5 DEF Pag!Clamped
  <1>7. /\ stayed \in SUBSET Standing(place)
        /\ seen \in SUBSET Rows /\ twice \in SUBSET seen
        /\ writes \in Nat /\ writes <= MaxWrites
    BY <1>1, <1>2 DEF Pag!TypeOK
  <1>8. QED
    BY <1>1, <1>2, <1>3, <1>4, <1>5, <1>6, <1>7

LEMMA Product ==
  ASSUME NEW a, NEW c, a \in Nat, c \in Nat, a > 0
  PROVE  /\ (a - 1) * c \in Nat /\ a * c \in Nat
         /\ (a - 1) * c + c = a * c
         /\ (a + 1 - 1) * c = a * c
  <1>1. PICK b \in Nat : a = b + 1
    <2>1. a - 1 \in Nat /\ a = (a - 1) + 1
      OBVIOUS
    <2>2. QED
      BY <2>1
  <1>2. a - 1 = b /\ a + 1 - 1 = b + 1
    BY <1>1
  <1>3. b * c \in Nat /\ (b + 1) * c = b * c + c
    OBVIOUS
  <1>4. (a - 1) * c = b * c /\ a * c = (b + 1) * c /\ (a + 1 - 1) * c = (b + 1) * c
    BY <1>1, <1>2
  <1>5. QED
    BY <1>3, <1>4

LEMMA Times ==
  ASSUME NEW a, NEW b, NEW c, a \in Nat, b \in Nat, c \in Nat, a <= b
  PROVE  c * a <= b * c
  <1>1. PICK d \in Nat : b = a + d
    <2>1. b - a \in Nat /\ b = a + (b - a)
      OBVIOUS
    <2>2. QED
      BY <2>1
  <1>2. c * d \in Nat /\ c * a \in Nat /\ (a + d) * c = c * a + c * d
    OBVIOUS
  <1>3. QED
    BY <1>1, <1>2

LEMMA RoundsUp ==
  ASSUME NEW n, NEW c, n \in Nat, c \in Nat, c > 0
  PROVE  /\ (n + c - 1) \div c \in Nat
         /\ n <= c * ((n + c - 1) \div c)
  <1> DEFINE x == n + c - 1
  <1>1. x \in Nat
    OBVIOUS
  <1>2. x - c = n - 1
    OBVIOUS
  <1> HIDE DEF x
  <1> DEFINE q == x \div c
  <1>3. q \in Nat
    BY <1>1
  <1>4. x < c * q + c
    BY <1>1
  <1>5. c * q \in Nat
    BY <1>3
  <1> HIDE DEF q
  <1>6. n <= c * q
    BY <1>1, <1>2, <1>4, <1>5
  <1>7. QED
    BY <1>3, <1>6 DEF q, x

(* The last page leaves no row that was counted.                           *)
LEMMA LastPage ==
  ASSUME Pag!TypeOK, ~(walk.page < Pag!TotalPages)
  PROVE  walk.total <= walk.page * walk.limit
  <1> DEFINE n == walk.total
             c == walk.limit
             k == walk.page
             q == (n + c - 1) \div c
  <1>1. n \in Nat /\ c \in Nat /\ c > 0 /\ k \in Nat /\ k > 0
    BY PagesTypes
  <1>2. k * c \in Nat
    BY <1>1, Product
  <1>3. CASE n = 0
    BY <1>2, <1>3
  <1>4. CASE n # 0
    <2>1. ~(k < q)
      BY <1>4 DEF Pag!TotalPages
    <2> HIDE DEF n, c, k
    <2>2. q \in Nat /\ n <= c * q
      BY <1>1, RoundsUp
    <2> HIDE DEF q
    <2>3. q <= k
      BY <1>1, <2>1, <2>2
    <2>4. c * q <= k * c
      BY <1>1, <2>2, <2>3, Times
    <2>5. c * q \in Nat
      BY <1>1, <2>2
    <2>6. n <= k * c
      BY <1>1, <1>2, <2>2, <2>4, <2>5
    <2>7. QED
      BY <2>6 DEF n, c, k
  <1>5. QED
    BY <1>3, <1>4

LEMMA PageIs ==
  ASSUME Pag!TypeOK, ~Pag!Tied(place), NEW P \in Pag!Page,
         NEW x \in Standing(place)
  PROVE  x \in P <=> /\ Offset <= RankIn(place, x)
                     /\ RankIn(place, x) < Offset + Pag!Clamped
  <1> DEFINE n == Cardinality(Standing(place))
             c == Pag!Clamped
             L == Standing(place)
             o == Offset
             size == IF n < o THEN 0 ELSE IF n - o < c THEN n - o ELSE c
  <1>1. /\ place \in [Rows -> Nat] /\ Pag!Live = L /\ L \in SUBSET Rows
        /\ n \in Nat /\ c \in Nat /\ c > 0
    BY PagesTypes
  <1>2. o \in Nat
    BY PagesTypes, Product DEF Offset
  <1>3. /\ P \in SUBSET L /\ Cardinality(P) = size
        /\ size > 0 => \E before \in SUBSET (L \ P) :
                         /\ Cardinality(before) = o
                         /\ Pag!Ordered(before, L \ before)
                         /\ Pag!Ordered(P, L \ (before \union P))
    BY <1>1, PageCounted DEF Pag!Page, Offset
  <1>4. RankIn(place, x) \in Nat /\ RankIn(place, x) < n
    BY <1>1, Ranked
  <1>5. CASE size = 0
    <2>1. n <= o
      BY <1>1, <1>2, <1>5
    <2>2. Cardinality(P) = 0 /\ IsFiniteSet(P)
      BY <1>1, <1>3, <1>5, RowsCounted
    <2>3. P = {}
      BY <2>2, FS_EmptySet
    <2> HIDE DEF n, o, c
    <2>4. ~(o <= RankIn(place, x))
      BY <1>1, <1>2, <1>4, <2>1
    <2>5. QED
      BY <2>3, <2>4 DEF o
  <1>6. CASE size # 0
    <2>1. size \in Nat /\ size > 0 /\ size <= c /\ (size = c \/ size = n - o)
      BY <1>1, <1>2, <1>6
    <2>2. PICK B \in SUBSET (L \ P) :
                 /\ Cardinality(B) = o
                 /\ Pag!Ordered(B, L \ B)
                 /\ Pag!Ordered(P, L \ (B \union P))
      BY <1>3, <2>1
    <2>3. /\ \A u \in B, v \in L \ B : place[u] <= place[v]
          /\ \A u \in P, v \in L \ (B \union P) : place[u] <= place[v]
      BY <2>2 DEF Pag!Ordered
    <2>4. /\ Cardinality(P) <= c
          /\ Cardinality(P) = c \/ Cardinality(P) = n - o
      BY <1>3, <2>1
    <2> HIDE DEF o, c, size
    <2>5. x \in P <=> o <= RankIn(place, x) /\ RankIn(place, x) < o + c
      BY <1>1, <1>2, <1>3, <2>2, <2>3, <2>4, PageHolds
    <2>6. QED
      BY <2>5 DEF o, c
  <1>7. QED
    BY <1>5, <1>6

LEMMA OffsetIs ==
  ASSUME Pag!TypeOK
  PROVE  /\ Offset \in Nat /\ Offset + Pag!Clamped = walk.page * Pag!Clamped
         /\ walk.page = 1 => Offset = 0
         /\ (walk.page + 1 - 1) * Pag!Clamped = walk.page * Pag!Clamped
  <1> DEFINE c == Pag!Clamped
             k == walk.page
  <1>1. c \in Nat /\ k \in Nat /\ k > 0
    BY PagesTypes
  <1> HIDE DEF c, k
  <1>2. /\ (k - 1) * c \in Nat /\ (k - 1) * c + c = k * c
        /\ k = 1 => (k - 1) * c = 0
        /\ (k + 1 - 1) * c = k * c
    BY <1>1, Product
  <1>3. QED
    BY <1>2 DEF c, k, Offset

LEMMA PagesSets ==
  ASSUME Pag!TypeOK
  PROVE  \A S \in {Missed, Again, stayed, stayed \ seen, stayed \intersect twice} :
           /\ S \in SUBSET Rows /\ IsFiniteSet(S) /\ Cardinality(S) \in Nat
  <1>1. stayed \in SUBSET Rows
    BY PagesTypes DEF Standing
  <1>2. \A S \in {Missed, Again, stayed, stayed \ seen, stayed \intersect twice} :
          S \in SUBSET Rows
    BY <1>1 DEF Missed, Again
  <1> HIDE DEF Missed, Again
  <1>3. QED
    BY <1>2, RowsCounted

LEMMA PagesInvInit == Pag!Init => PagesInv
  <1> SUFFICES ASSUME Pag!Init
               PROVE  PagesInv
    OBVIOUS
  <1>1. /\ place \in [Rows -> Pag!Places \union {Pag!Absent}]
        /\ walk = [pc |-> "idle", page |-> 1, limit |-> 1, total |-> 0]
        /\ stayed = {} /\ seen = {} /\ twice = {} /\ writes = 0 /\ tied = FALSE
    BY DEF Pag!Init
  <1>2. 1 \in Pag!Limits /\ 0 \in 0 .. MaxWrites
    BY ReadersAssumption DEF Pag!Limits
  <1>3. Pag!TypeOK
    <2>1. walk \in [pc : {"idle", "count", "find", "done"}, page : Nat \ {0},
                    limit : Pag!Limits, total : Nat]
      BY <1>1, <1>2
    <2>2. QED
      BY <1>1, <1>2, <2>1 DEF Pag!TypeOK
  <1>4. walk.pc = "idle" /\ walk.page = 1
    BY <1>1
  <1>5. QED
    BY <1>1, <1>3, <1>4 DEF PagesInv

LEMMA PageStarts ==
  ASSUME PagesInv, NEW limit \in Pag!Limits, Pag!Start(limit)
  PROVE  PagesInv'
  <1>1. /\ walk.pc = "idle" /\ walk' = [walk EXCEPT !.pc = "count", !.limit = limit]
        /\ stayed' = Pag!Live /\ tied' = Pag!Tied(place)
        /\ place' = place /\ seen' = seen /\ twice' = twice /\ writes' = writes
    BY DEF Pag!Start
  <1>2. /\ Pag!TypeOK /\ walk.page = 1
        /\ seen = {} /\ twice = {} /\ writes = 0
    BY <1>1 DEF PagesInv
  <1>3. walk' = [pc |-> "count", page |-> 1, limit |-> limit, total |-> walk.total]
    BY <1>1, <1>2, PagesTypes
  <1>4. Pag!Tied(place) \in BOOLEAN
    BY DEF Pag!Tied
  <1>5. Pag!TypeOK'
    BY <1>1, <1>2, <1>3, <1>4, PagesTypes DEF Pag!TypeOK, Pag!Live
  <1>6. walk'.pc = "count" /\ walk'.page = 1
    BY <1>3
  <1>7. Offset' = 0
    <2>1. Pag!TypeOK' => (walk.page = 1 => Offset = 0)'
      BY OffsetIs, PTL
    <2>2. QED
      BY <1>5, <1>6, <2>1
  <1>8. ~tied' => ~Pag!Tied(place')
    BY <1>1
  <1>9. Missed' = {}
    <2>1. place' \in [Rows -> Nat] /\ stayed' \in SUBSET Standing(place')
      BY <1>1, <1>2, PagesTypes
    <2>2. \A x \in stayed' : RankIn(place', x) \in Nat
      BY <2>1, Ranked
    <2>3. QED
      BY <1>7, <2>2 DEF Missed
  <1>10. Again' = {}
    BY <1>1, <1>2 DEF Again
  <1>11. Cardinality(Missed') = 0 /\ Cardinality(Again') = 0
    BY <1>9, <1>10, FS_EmptySet
  <1> HIDE DEF Missed, Again
  <1>12. QED
    BY <1>1, <1>2, <1>5, <1>6, <1>8, <1>11 DEF PagesInv

(* A request that only counts, or fails.                                   *)
LEMMA NothingSeen ==
  ASSUME PagesInv, UNCHANGED <<place, stayed, seen, twice, writes, tied>>,
         walk'.page = walk.page, walk'.limit = walk.limit
  PROVE  Missed' = Missed /\ Again' = Again
  BY DEF Missed, Again, Offset, Pag!Clamped

LEMMA PageCounts == PagesInv /\ Pag!Count => PagesInv'
  <1> SUFFICES ASSUME PagesInv, Pag!Count
               PROVE  PagesInv'
    OBVIOUS
  <1> DEFINE n == Cardinality(Standing(place))
  <1>1. /\ walk.pc = "count"
        /\ walk' = [walk EXCEPT !.pc = "find", !.total = n]
        /\ UNCHANGED <<place, stayed, seen, twice, writes, tied>>
    BY PagesTypes, PageCounted DEF Pag!Count, Pag!ghosts, PagesInv
  <1>2. Pag!TypeOK /\ n \in Nat
    BY PagesTypes DEF PagesInv
  <1>3. walk' = [pc |-> "find", page |-> walk.page, limit |-> walk.limit, total |-> n]
    BY <1>1, <1>2, PagesTypes
  <1> HIDE DEF n
  <1>4. Pag!TypeOK'
    BY <1>1, <1>2, <1>3, PagesTypes DEF Pag!TypeOK, Pag!Live
  <1>5. /\ walk'.pc = "find" /\ walk'.page = walk.page /\ walk'.limit = walk.limit
        /\ walk'.total = n
    BY <1>3
  <1>6. Missed' = Missed /\ Again' = Again
    BY <1>1, <1>5, NothingSeen
  <1>7. Late' = 0
    BY <1>1, <1>2, <1>5 DEF Late, n
  <1>8. Cardinality(Missed) \in Nat
    BY <1>2, PagesSets
  <1>9. ~tied => /\ ~Pag!Tied(place)
                 /\ Cardinality(Missed) <= writes
                 /\ Cardinality(Again) <= writes
    BY <1>1 DEF PagesInv
  <1> HIDE DEF Missed, Again, Late
  <1>10. ~tied => /\ ~Pag!Tied(place')
                  /\ Cardinality(Missed') <= writes'
                  /\ Cardinality(Again') <= writes'
                  /\ Cardinality(Missed') + Late' <= writes'
    BY <1>1, <1>6, <1>7, <1>8, <1>9
  <1>11. QED
    BY <1>1, <1>4, <1>5, <1>10 DEF PagesInv

LEMMA PageRetries == PagesInv /\ Pag!Retry => PagesInv'
  <1> SUFFICES ASSUME PagesInv, Pag!Retry
               PROVE  PagesInv'
    OBVIOUS
  <1>1. /\ walk.pc = "find" /\ walk' = [walk EXCEPT !.pc = "count"]
        /\ UNCHANGED <<place, stayed, seen, twice, writes, tied>>
    BY DEF Pag!Retry, Pag!ghosts
  <1>2. Pag!TypeOK
    BY DEF PagesInv
  <1>3. walk' = [pc |-> "count", page |-> walk.page, limit |-> walk.limit,
                 total |-> walk.total]
    BY <1>1, <1>2, PagesTypes
  <1>4. Pag!TypeOK'
    BY <1>1, <1>2, <1>3, PagesTypes DEF Pag!TypeOK, Pag!Live
  <1>5. walk'.pc = "count" /\ walk'.page = walk.page /\ walk'.limit = walk.limit
    BY <1>3
  <1>6. Missed' = Missed /\ Again' = Again
    BY <1>1, <1>5, NothingSeen
  <1>7. ~tied => /\ ~Pag!Tied(place)
                 /\ Cardinality(Missed) <= writes
                 /\ Cardinality(Again) <= writes
    BY <1>1 DEF PagesInv
  <1> HIDE DEF Missed, Again
  <1>8. QED
    BY <1>1, <1>4, <1>5, <1>6, <1>7 DEF PagesInv

(* A page is found, the last one or not.                                   *)
LEMMA FoundTypes ==
  ASSUME Pag!TypeOK, NEW P \in Pag!Page,
         seen' = seen \union P, twice' = twice \union (seen \intersect P),
         UNCHANGED <<place, stayed, writes, tied>>,
         \/ walk' = [walk EXCEPT !.pc = "count", !.page = @ + 1]
         \/ walk' = [walk EXCEPT !.pc = "done"]
  PROVE  Pag!TypeOK'
  <1>1. P \in SUBSET Rows
    BY PagesTypes DEF Pag!Page
  <1>2. walk' \in [pc : {"idle", "count", "find", "done"}, page : Nat \ {0},
                   limit : Pag!Limits, total : Nat]
    <2>1. walk.page \in Nat /\ walk.page > 0 /\ walk.page + 1 \in Nat \ {0}
      BY PagesTypes
    <2>2. walk \in [pc : {"idle", "count", "find", "done"}, page : Nat \ {0},
                    limit : Pag!Limits, total : Nat]
      BY DEF Pag!TypeOK
    <2>3. QED
      BY <2>1, <2>2
  <1>3. seen' \in SUBSET Rows /\ twice' \in SUBSET seen'
    BY <1>1, PagesTypes
  <1>4. stayed' \subseteq Pag!Live'
    BY PagesTypes DEF Pag!Live, Pag!TypeOK
  <1>5. QED
    BY <1>2, <1>3, <1>4 DEF Pag!TypeOK

(* With the page, nothing more is missed before the next one, and nothing  *)
(* more comes again.                                                       *)
LEMMA FoundSets ==
  ASSUME Pag!TypeOK, ~Pag!Tied(place), NEW P \in Pag!Page,
         NEW o, o = Offset + Pag!Clamped
  PROVE  /\ {x \in stayed \ (seen \union P) : RankIn(place, x) < o} \subseteq Missed
         /\ {x \in stayed \intersect (seen \union P) : RankIn(place, x) >= o}
              \union (stayed \intersect (twice \union (seen \intersect P)))
              \subseteq Again
  <1>1. \A x \in stayed : x \in Standing(place) /\ RankIn(place, x) \in Nat
    BY PagesTypes, Ranked
  <1>2. Offset \in Nat /\ Pag!Clamped \in Nat
    BY PagesTypes, OffsetIs
  <1>3. \A x \in stayed :
          x \in P <=> Offset <= RankIn(place, x) /\ RankIn(place, x) < o
    BY <1>1, PageIs
  <1>4. twice \subseteq seen
    BY PagesTypes
  <1>5. ASSUME NEW x \in stayed, x \notin seen, x \notin P, RankIn(place, x) < o
        PROVE  x \in Missed
    <2>1. RankIn(place, x) < Offset
      BY <1>1, <1>2, <1>3, <1>5
    <2>2. QED
      BY <1>5, <2>1 DEF Missed
  <1>6. ASSUME NEW x \in stayed, x \in seen \union P, RankIn(place, x) >= o
        PROVE  x \in Again
    <2>1. x \notin P
      BY <1>1, <1>2, <1>3, <1>6
    <2>2. RankIn(place, x) >= Offset
      BY <1>1, <1>2, <1>6
    <2>3. QED
      BY <1>6, <2>1, <2>2 DEF Again
  <1>7. ASSUME NEW x \in stayed, x \in twice \/ x \in seen \intersect P
        PROVE  x \in Again
    <2>1. CASE x \in twice
      BY <2>1 DEF Again
    <2>2. CASE x \in seen \intersect P
      <3>1. RankIn(place, x) >= Offset
        BY <1>1, <1>2, <1>3, <2>2
      <3>2. QED
        BY <2>2, <3>1 DEF Again
    <2>3. QED
      BY <1>7, <2>1, <2>2
  <1> HIDE DEF Missed, Again
  <1>8. QED
    BY <1>5, <1>6, <1>7

(* Of the rows from place o on there are as many as there are rows beyond  *)
(* the o first ones.                                                       *)
LEMMA RanksBeyond ==
  ASSUME NEW at \in [Rows -> Nat], ~Pag!Tied(at), NEW o \in Nat,
         NEW S \in SUBSET Standing(at), \A x \in S : RankIn(at, x) >= o
  PROVE  /\ Cardinality(S) \in Nat /\ Cardinality(Standing(at)) \in Nat
         /\ \/ S = {} /\ Cardinality(S) = 0
            \/ Cardinality(S) <= Cardinality(Standing(at)) - o
  <1> DEFINE n == Cardinality(Standing(at))
             rank == [x \in S |-> RankIn(at, x)]
  <1>1. Standing(at) \in SUBSET Rows
    BY DEF Standing
  <1>2. IsFiniteSet(S) /\ Cardinality(S) \in Nat /\ n \in Nat
    BY <1>1, RowsCounted
  <1>3. \A x \in S : RankIn(at, x) \in Nat /\ RankIn(at, x) < n
    BY Ranked
  <1>4. rank \in [S -> o .. (n - 1)]
    BY <1>2, <1>3
  <1>5. \A x, y \in S : rank[x] = rank[y] => x = y
    BY RanksDiffer
  <1>6. rank \in Injection(S, o .. (n - 1))
    BY <1>4, <1>5 DEF Injection, IsInjective
  <1>7. /\ IsFiniteSet(o .. (n - 1))
        /\ Cardinality(o .. (n - 1)) = IF o > n - 1 THEN 0 ELSE n - o
    <2> HIDE DEF n
    <2>1. n - 1 \in Int /\ o \in Int
      BY <1>2
    <2>2. /\ IsFiniteSet(o .. (n - 1))
          /\ Cardinality(o .. (n - 1)) = IF o > n - 1 THEN 0 ELSE (n - 1) - o + 1
      BY <2>1, FS_Interval
    <2>3. QED
      BY <1>2, <2>2
  <1>8. Cardinality(S) <= Cardinality(o .. (n - 1))
    BY <1>6, <1>7, FS_Injection
  <1> HIDE DEF n
  <1>9. CASE S = {}
    BY <1>2, <1>9, FS_EmptySet DEF n
  <1>10. CASE S # {}
    <2>1. ~(o > n - 1)
      BY <1>2, <1>3, <1>10
    <2>2. QED
      BY <1>2, <1>7, <1>8, <2>1 DEF n
  <1>11. QED
    BY <1>9, <1>10

LEMMA PageFound == PagesInv /\ Pag!Find => PagesInv'
  <1> SUFFICES ASSUME PagesInv, Pag!Find
               PROVE  PagesInv'
    OBVIOUS
  <1> DEFINE k == walk.page
             c == Pag!Clamped
  <1>1. PICK P \in Pag!Page :
          seen' = seen \union P /\ twice' = twice \union (seen \intersect P)
    BY DEF Pag!Find
  <1>2. /\ walk.pc = "find" /\ UNCHANGED <<place, stayed, writes, tied>>
        /\ walk' = IF walk.page < Pag!TotalPages
                   THEN [walk EXCEPT !.pc = "count", !.page = @ + 1]
                   ELSE [walk EXCEPT !.pc = "done"]
    BY DEF Pag!Find
  <1>3. Pag!TypeOK
    BY DEF PagesInv
  <1>4. Pag!TypeOK'
    BY <1>1, <1>2, <1>3, FoundTypes
  <1>5. CASE tied
    <2>1. tied' /\ walk'.pc # "idle"
      BY <1>2, <1>3, <1>5, PagesTypes
    <2>2. QED
      BY <1>4, <2>1 DEF PagesInv
  <1>6. CASE ~tied
    <2> DEFINE o == Offset + c
               M == {x \in stayed \ seen' : RankIn(place, x) < o}
               A == {x \in stayed \intersect seen' : RankIn(place, x) >= o}
                      \union (stayed \intersect twice')
    <2>1. /\ ~Pag!Tied(place) /\ Cardinality(Missed) <= writes
          /\ Cardinality(Again) <= writes /\ Cardinality(Missed) + Late <= writes
      BY <1>2, <1>6 DEF PagesInv
    <2>2. M \in SUBSET Missed /\ A \in SUBSET Again
      BY <1>1, <1>3, <2>1, FoundSets
    <2>3. /\ IsFiniteSet(Missed) /\ Cardinality(Missed) \in Nat
          /\ IsFiniteSet(Again) /\ Cardinality(Again) \in Nat
      BY <1>3, PagesSets
    <2>4. o = k * c /\ (k + 1 - 1) * c = k * c /\ o \in Nat
      BY <1>3, OffsetIs, PagesTypes
    <2>5. writes \in Nat /\ walk.total \in Nat /\ Cardinality(Standing(place)) \in Nat
      BY <1>3, PagesTypes
    <2>6. CASE k < Pag!TotalPages
      <3>1. walk' = [pc |-> "count", page |-> k + 1, limit |-> walk.limit,
                     total |-> walk.total]
        BY <1>2, <1>3, <2>6, PagesTypes
      <3>2. walk'.pc = "count" /\ walk'.page = k + 1 /\ walk'.limit = walk.limit
        BY <3>1
      <3>3. Offset' = (k + 1 - 1) * c
        <4>1. Pag!Clamped' = c
          BY <3>2 DEF Pag!Clamped
        <4>2. Offset' = (walk'.page - 1) * Pag!Clamped'
          BY DEF Offset
        <4> DEFINE w == walk'.page
                   d == Pag!Clamped'
        <4>3. w = k + 1 /\ d = c /\ k \in Nat /\ c \in Nat
          BY <1>3, <3>2, <4>1, PagesTypes
        <4> HIDE DEF c, k, w, d
        <4>4. (w - 1) * d = (k + 1 - 1) * c
          BY <4>3
        <4>5. QED
          BY <4>2, <4>4 DEF w, d
      <3>4. Offset' = o
        BY <2>4, <3>3
      <3> HIDE DEF o, k, c
      <3>5. Missed' = M /\ Again' = A
        BY <1>2, <3>4 DEF Missed, Again
      <3> HIDE DEF M, A, Missed, Again
      <3>6. /\ IsFiniteSet(M) /\ Cardinality(M) <= Cardinality(Missed)
            /\ IsFiniteSet(A) /\ Cardinality(A) <= Cardinality(Again)
        BY <2>2, <2>3, FS_Subset
      <3>7. Cardinality(M) \in Nat /\ Cardinality(A) \in Nat
        BY <3>6, FS_CardinalityType
      <3>8. Cardinality(Missed') <= writes' /\ Cardinality(Again') <= writes'
        BY <1>2, <2>1, <2>3, <2>5, <3>5, <3>6, <3>7
      <3>9. QED
        BY <1>2, <1>4, <2>1, <3>2, <3>8 DEF PagesInv
    <2>7. CASE ~(k < Pag!TotalPages)
      <3> DEFINE S == stayed \ seen'
                 B == {x \in S : RankIn(place, x) >= o}
                 n == Cardinality(Standing(place))
                 T == stayed \intersect twice'
      <3>1. walk' = [pc |-> "done", page |-> k, limit |-> walk.limit,
                     total |-> walk.total]
        BY <1>2, <1>3, <2>7, PagesTypes
      <3>2. /\ walk'.pc = "done" /\ walk'.page = k /\ walk'.limit = walk.limit
            /\ walk'.total = walk.total
        BY <3>1
      <3>3. walk.total <= k * walk.limit
        BY <1>3, <2>7, LastPage
      <3>4. /\ Cardinality(B) \in Nat
            /\ Cardinality(B) = 0 \/ Cardinality(B) <= n - o
        <4>1. B \in SUBSET Standing(place) /\ place \in [Rows -> Nat]
          BY <1>3, PagesTypes
        <4>2. \A x \in B : RankIn(place, x) >= o
          OBVIOUS
        <4> HIDE DEF B, o
        <4>3. QED
          BY <2>1, <2>4, <4>1, <4>2, RanksBeyond
      <3>5. S \in SUBSET Rows /\ IsFiniteSet(S) /\ IsFiniteSet(B)
        <4>1. S \in SUBSET Rows /\ B \in SUBSET Rows
          BY <1>3, PagesTypes DEF Standing
        <4> HIDE DEF S, B
        <4>2. QED
          BY <4>1, RowsCounted
      <3>6. S \ Missed \subseteq B
        <4>1. \A x \in stayed : RankIn(place, x) \in Nat
          BY <1>3, PagesTypes, Ranked
        <4>2. \A x \in S : x \notin Missed => ~(RankIn(place, x) < o)
          BY <2>2
        <4> HIDE DEF o
        <4>3. QED
          BY <2>4, <4>1, <4>2
      <3>7. T \in SUBSET Again
        BY <2>2
      <3>8. Pag!BeyondPages' = IF walk.limit > MaxLimit /\ walk.total > k * MaxLimit
                               THEN walk.total - k * MaxLimit ELSE 0
        BY <3>2 DEF Pag!BeyondPages
      <3>9. /\ walk.limit > MaxLimit => c = MaxLimit
            /\ ~(walk.limit > MaxLimit) => c = walk.limit
            /\ k * MaxLimit \in Nat /\ k * walk.limit \in Nat
        BY <1>3, PagesTypes, Product DEF Pag!Clamped
      <3>10. Late = IF n > walk.total THEN n - walk.total ELSE 0
        BY DEF Late
      <3> HIDE DEF S, B, T, n
      <3>11. Cardinality(S) - Cardinality(Missed) <= Cardinality(B)
        BY <2>3, <3>5, <3>6, LargerBy
      <3>12. Cardinality(S) \in Nat
        BY <3>5, FS_CardinalityType
      <3>13. Cardinality(S) <= writes + Pag!BeyondPages'
        <4> HIDE DEF o
        <4>1. CASE walk.limit > MaxLimit
          <5>1. o = k * MaxLimit
            BY <2>4, <3>9, <4>1
          <5> DEFINE e == Pag!BeyondPages'
          <5>2. e = IF walk.total > o THEN walk.total - o ELSE 0
            BY <3>8, <4>1, <5>1
          <5> HIDE DEF e
          <5>3. Cardinality(S) <= writes + e
            BY <2>1, <2>3, <2>4, <2>5, <3>4, <3>10, <3>11, <3>12, <5>2 DEF n
          <5>4. QED
            BY <5>3 DEF e
        <4>2. CASE ~(walk.limit > MaxLimit)
          <5>1. walk.total <= o
            BY <2>4, <3>3, <3>9, <4>2
          <5>2. Pag!BeyondPages' = 0
            BY <3>8, <4>2
          <5>3. QED
            BY <2>1, <2>3, <2>4, <2>5, <3>4, <3>10, <3>11, <3>12, <5>1, <5>2 DEF n
        <4>3. QED
          BY <4>1, <4>2
      <3>14. Cardinality(T) <= writes
        <4>1. IsFiniteSet(T) /\ Cardinality(T) <= Cardinality(Again)
          BY <2>3, <3>7, FS_Subset
        <4>2. Cardinality(T) \in Nat
          BY <4>1, FS_CardinalityType
        <4>3. QED
          BY <2>1, <2>3, <2>5, <4>1, <4>2
      <3>15. /\ Cardinality(stayed' \ seen') <= writes' + Pag!BeyondPages'
             /\ Cardinality(stayed' \intersect twice') <= writes'
        BY <1>2, <3>13, <3>14 DEF S, T
      <3>16. QED
        BY <1>4, <3>2, <3>15 DEF PagesInv
    <2>8. QED
      BY <2>6, <2>7
  <1>7. QED
    BY <1>5, <1>6

(* A write: no more than one row moves over the border between the pages   *)
(* that were seen and those that were not, down to them only if no row     *)
(* comes, up from them only if none goes.                                  *)
LEMMA OneCrosses ==
  ASSUME NEW at \in [Rows -> Nat], ~Pag!Tied(at), NEW o \in Nat,
         NEW X \in SUBSET Standing(at), \A x \in X : RankIn(at, x) = o
  PROVE  IsFiniteSet(X) /\ Cardinality(X) \in Nat /\ Cardinality(X) <= 1
  <1>1. X \in SUBSET Rows
    BY DEF Standing
  <1>2. IsFiniteSet(X) /\ Cardinality(X) \in Nat
    BY <1>1, RowsCounted
  <1>3. \A x, y \in X : x = y
    BY RanksDiffer
  <1>4. CASE X = {}
    BY <1>2, <1>4, FS_EmptySet
  <1>5. CASE X # {}
    <2>1. PICK x \in X : TRUE
      BY <1>5
    <2>2. X = {x}
      BY <1>3, <2>1
    <2>3. Cardinality(X) = 1
      BY <2>2, FS_Singleton
    <2>4. QED
      BY <1>2, <2>3
  <1>6. QED
    BY <1>4, <1>5

PagesKnown ==
    /\ place \in [Rows -> Nat] /\ stayed \in SUBSET Standing(place)
    /\ IsFiniteSet(Missed) /\ Cardinality(Missed) \in Nat
    /\ IsFiniteSet(Again) /\ Cardinality(Again) \in Nat
    /\ Late \in Nat

LEMMA PagesAre == Pag!TypeOK => PagesKnown
  BY PagesTypes, PagesSets DEF PagesKnown, Late

LEMMA PagesNext == Pag!TypeOK' => PagesKnown'
  BY PagesAre, PTL

LEMMA WriteMoves ==
  ASSUME Pag!TypeOK, Pag!TypeOK', ~Pag!Tied(place), ~Pag!Tied(place'),
         NEW r \in Rows, \A y \in Rows : y # r => place'[y] = place[y],
         stayed' = stayed \ {r}, seen' = seen, twice' = twice, walk' = walk
  PROVE  /\ Cardinality(Missed') <= Cardinality(Missed) + 1
         /\ Cardinality(Again') <= Cardinality(Again) + 1
         /\ Cardinality(Missed') + Late' <= Cardinality(Missed) + Late + 1
  <1> DEFINE o == Offset
             D == {x \in stayed' : RankIn(place, x) >= o /\ RankIn(place', x) < o}
             U == {x \in stayed' : RankIn(place, x) < o /\ RankIn(place', x) >= o}
             n == Cardinality(Standing(place))
             m == Cardinality(Standing(place'))
  <1>1. /\ place \in [Rows -> Nat] /\ stayed \in SUBSET Standing(place)
        /\ walk.total \in Nat
    BY PagesTypes
  <1>2. place' \in [Rows -> Nat] /\ stayed' \in SUBSET Standing(place')
    BY PagesNext DEF PagesKnown
  <1>3. Offset' = o /\ o \in Nat
    BY OffsetIs DEF Offset, Pag!Clamped
  <1>4. \A x \in stayed' :
          /\ x \in Standing(place) /\ x \in Standing(place') /\ x \in stayed
          /\ RankIn(place, x) \in Nat /\ RankIn(place', x) \in Nat
          /\ RankIn(place, x) - RankIn(place', x) <= 1
          /\ RankIn(place', x) - RankIn(place, x) <= 1
          /\ place[r] = 0 => RankIn(place, x) <= RankIn(place', x)
    BY <1>1, <1>2, AheadMoves
  <1>5. /\ n \in Nat /\ m \in Nat /\ m <= n + 1 /\ (place[r] # 0 => m <= n)
    BY <1>1, <1>2, StandingMoves
  <1>6. \A S \in {Missed, Again} : IsFiniteSet(S) /\ Cardinality(S) \in Nat
    BY PagesSets
  <1>7. \A S \in {Missed', Again'} : IsFiniteSet(S) /\ Cardinality(S) \in Nat
    BY PagesNext DEF PagesKnown
  <1>8. Missed' \ Missed \subseteq D
    BY <1>3, <1>4 DEF Missed
  <1>9. Again' \ Again \subseteq U
    BY <1>3, <1>4 DEF Again
  <1>10. IsFiniteSet(D) /\ Cardinality(D) \in Nat /\ Cardinality(D) <= 1
    <2>1. D \in SUBSET Standing(place)
      BY <1>4
    <2>2. \A x \in D : RankIn(place, x) = o
      <3>1. \A x \in D : /\ RankIn(place, x) \in Nat /\ RankIn(place', x) \in Nat
                         /\ RankIn(place, x) - RankIn(place', x) <= 1
                         /\ RankIn(place, x) >= o /\ RankIn(place', x) < o
        BY <1>4
      <3> HIDE DEF D, o
      <3>2. QED
        BY <1>3, <3>1
    <2> HIDE DEF D, o
    <2>3. QED
      BY <1>1, <1>3, <2>1, <2>2, OneCrosses
  <1>11. IsFiniteSet(U) /\ Cardinality(U) \in Nat /\ Cardinality(U) <= 1
    <2>1. U \in SUBSET Standing(place')
      BY <1>4
    <2>2. \A x \in U : RankIn(place', x) = o
      <3>1. \A x \in U : /\ RankIn(place, x) \in Nat /\ RankIn(place', x) \in Nat
                         /\ RankIn(place', x) - RankIn(place, x) <= 1
                         /\ RankIn(place, x) < o /\ RankIn(place', x) >= o
        BY <1>4
      <3> HIDE DEF U, o
      <3>2. QED
        BY <1>3, <3>1
    <2> HIDE DEF U, o
    <2>3. QED
      BY <1>2, <1>3, <2>1, <2>2, OneCrosses
  <1>12. place[r] = 0 => Cardinality(D) = 0
    <2>1. ASSUME place[r] = 0, NEW x \in D
          PROVE  FALSE
      <3>1. /\ RankIn(place, x) \in Nat /\ RankIn(place', x) \in Nat
            /\ RankIn(place, x) <= RankIn(place', x)
            /\ RankIn(place, x) >= o /\ RankIn(place', x) < o
        BY <1>4, <2>1
      <3> HIDE DEF o
      <3>2. QED
        BY <1>3, <3>1
    <2> HIDE DEF D
    <2>2. place[r] = 0 => D = {}
      BY <2>1
    <2>3. QED
      BY <2>2, FS_EmptySet
  <1>13. Late = IF n > walk.total THEN n - walk.total ELSE 0
    BY DEF Late
  <1>14. Late' = IF m > walk.total THEN m - walk.total ELSE 0
    BY DEF Late
  <1> HIDE DEF D, U, o, n, m, Missed, Again, Late
  <1>15. Cardinality(Missed') - Cardinality(Missed) <= Cardinality(D)
    BY <1>6, <1>7, <1>8, <1>10, LargerBy
  <1>16. Cardinality(Again') - Cardinality(Again) <= Cardinality(U)
    BY <1>6, <1>7, <1>9, <1>11, LargerBy
  <1>17. /\ Cardinality(Missed) \in Nat /\ Cardinality(Missed') \in Nat
         /\ Cardinality(Again) \in Nat /\ Cardinality(Again') \in Nat
    BY <1>6, <1>7
  <1>18. Cardinality(Missed') <= Cardinality(Missed) + 1
    BY <1>10, <1>15, <1>17
  <1>19. Cardinality(Again') <= Cardinality(Again) + 1
    BY <1>11, <1>16, <1>17
  <1>20. Cardinality(Missed') + Late' <= Cardinality(Missed) + Late + 1
    <2>1. CASE place[r] = 0
      BY <1>1, <1>5, <1>12, <1>13, <1>14, <1>15, <1>17, <2>1
    <2>2. CASE place[r] # 0
      BY <1>1, <1>5, <1>10, <1>13, <1>14, <1>15, <1>17, <2>2
    <2>3. QED
      BY <2>1, <2>2
  <1>21. QED
    BY <1>18, <1>19, <1>20

LEMMA PageWritten ==
  ASSUME PagesInv, NEW r \in Rows, NEW p \in Pag!Places \union {Pag!Absent},
         Pag!Write(r, p)
  PROVE  PagesInv'
  <1> DEFINE to == [place EXCEPT ![r] = p]
  <1>1. /\ walk.pc \in {"count", "find"} /\ writes < MaxWrites
        /\ place' = to /\ writes' = writes + 1 /\ stayed' = stayed \ {r}
        /\ tied' = (tied \/ Pag!Tied(to))
        /\ walk' = walk /\ seen' = seen /\ twice' = twice
    BY DEF Pag!Write
  <1>2. Pag!TypeOK
    BY DEF PagesInv
  <1>3. /\ to \in [Rows -> Pag!Places \union {Pag!Absent}]
        /\ \A y \in Rows : y # r => to[y] = place[y]
    BY <1>2 DEF Pag!TypeOK
  <1>4. stayed' \subseteq Pag!Live'
    BY <1>1, <1>2, <1>3 DEF Pag!TypeOK, Pag!Live
  <1>5. writes' \in 0 .. MaxWrites
    BY <1>1, <1>2, PagesTypes, ReadersAssumption
  <1>6. tied' \in BOOLEAN /\ tied \in BOOLEAN
    BY <1>1, <1>2 DEF Pag!TypeOK, Pag!Tied
  <1> HIDE DEF to
  <1>7. Pag!TypeOK'
    BY <1>1, <1>2, <1>3, <1>4, <1>5, <1>6 DEF Pag!TypeOK
  <1>8. CASE tied'
    BY <1>1, <1>7, <1>8 DEF PagesInv
  <1>9. CASE ~tied'
    <2>1. ~tied /\ ~Pag!Tied(place')
      BY <1>1, <1>6, <1>9
    <2>2. /\ ~Pag!Tied(place) /\ Cardinality(Missed) <= writes
          /\ Cardinality(Again) <= writes
          /\ walk.pc = "find" => Cardinality(Missed) + Late <= writes
      BY <1>1, <2>1 DEF PagesInv
    <2>3. /\ Cardinality(Missed') <= Cardinality(Missed) + 1
          /\ Cardinality(Again') <= Cardinality(Again) + 1
          /\ Cardinality(Missed') + Late' <= Cardinality(Missed) + Late + 1
      BY <1>1, <1>2, <1>3, <1>7, <2>1, <2>2, WriteMoves
    <2>4. /\ Cardinality(Missed) \in Nat /\ Cardinality(Again) \in Nat
          /\ Late \in Nat /\ writes \in Nat
      BY <1>2, PagesSets, PagesTypes DEF Late
    <2>5. /\ Cardinality(Missed') \in Nat /\ Cardinality(Again') \in Nat
          /\ Late' \in Nat
      BY <1>7, PagesNext DEF PagesKnown
    <2> HIDE DEF Missed, Again, Late
    <2>6. /\ Cardinality(Missed') <= writes' /\ Cardinality(Again') <= writes'
          /\ walk.pc = "find" => Cardinality(Missed') + Late' <= writes'
      BY <1>1, <2>2, <2>3, <2>4, <2>5
    <2>7. QED
      BY <1>1, <1>7, <2>1, <2>6 DEF PagesInv
  <1>10. QED
    BY <1>8, <1>9

LEMMA PagesInvStep == PagesInv /\ [Pag!Next]_pagVars => PagesInv'
  <1> SUFFICES ASSUME PagesInv, [Pag!Next]_pagVars
               PROVE  PagesInv'
    OBVIOUS
  <1>1. CASE UNCHANGED pagVars
    <2>1. UNCHANGED <<place, walk, stayed, seen, twice, writes, tied>>
      BY <1>1 DEF pagVars
    <2>2. Pag!TypeOK'
      BY <2>1 DEF PagesInv, Pag!TypeOK, Pag!Live
    <2>3. Missed' = Missed /\ Again' = Again /\ Late' = Late
      BY <2>1 DEF Missed, Again, Late, Offset, Pag!Clamped
    <2>4. Pag!BeyondPages' = Pag!BeyondPages
      BY <2>1 DEF Pag!BeyondPages
    <2> HIDE DEF Missed, Again, Late
    <2>5. QED
      BY <2>1, <2>2, <2>3, <2>4 DEF PagesInv
  <1>2. QED
    BY <1>1, PageStarts, PageCounts, PageFound, PageRetries, PageWritten
       DEF Pag!Next

LEMMA PagesLeafed == PagesInv => Pag!PagesOffOnePerWrite
  <1> SUFFICES ASSUME PagesInv, ~tied
               PROVE  /\ walk.pc = "done" =>
                           Cardinality(stayed \ seen) <= writes + Pag!BeyondPages
                      /\ Cardinality(stayed \intersect twice) <= writes
    BY PageCounted DEF Pag!PagesOffOnePerWrite
  <1> DEFINE T == stayed \intersect twice
  <1>1. Pag!TypeOK
    BY DEF PagesInv
  <1>2. writes \in Nat /\ walk.pc \in {"idle", "count", "find", "done"}
    BY <1>1, PagesTypes
  <1>3. CASE walk.pc = "idle"
    <2>1. T = {}
      BY <1>3 DEF PagesInv
    <2>2. Cardinality(T) = 0
      BY <2>1, FS_EmptySet
    <2>3. QED
      BY <1>2, <1>3, <2>2
  <1>4. CASE walk.pc \in {"count", "find"}
    <2>1. Cardinality(Again) <= writes
      BY <1>4 DEF PagesInv
    <2>2. T \in SUBSET Again
      BY DEF Again
    <2>3. IsFiniteSet(Again) /\ Cardinality(Again) \in Nat
      BY <1>1, PagesSets
    <2>4. Cardinality(T) \in Nat
      BY <1>1, PagesSets
    <2> HIDE DEF T
    <2>5. Cardinality(T) <= Cardinality(Again)
      BY <2>2, <2>3, FS_Subset
    <2>6. Cardinality(T) <= writes
      BY <1>2, <2>1, <2>3, <2>4, <2>5
    <2>7. QED
      BY <1>4, <2>6 DEF T
  <1>5. CASE walk.pc = "done"
    BY <1>5 DEF PagesInv
  <1>6. QED
    BY <1>2, <1>3, <1>4, <1>5

(* For any number of rows and any largest page: a client who leafs through *)
(* the list misses no more rows that stayed than there were writes, beside *)
(* those that total_pages has no page for, and sees no more of them twice. *)
THEOREM PagesOff == MCSpec => []PagesOffOnePerWrite
  <1>1. MCInit => PagesInv
    BY PagesInvInit, ReadersStart
  <1>2. PagesInv /\ [MCNext]_allVars => PagesInv'
    BY SideBySide, PagesInvStep
  <1>3. PagesInv => PagesOffOnePerWrite
    BY PagesLeafed DEF PagesOffOnePerWrite
  <1>4. QED
    BY <1>1, <1>2, <1>3, PTL DEF MCSpec

=============================================================================
