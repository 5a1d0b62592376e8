----------------------------- MODULE SumsProofs -----------------------------
(***************************************************************************)
(* Theorems about what adds up, or nearly, for any number of rows and any  *)
(* bounds: balances in NUMERIC columns, the monthly summary and its        *)
(* shares, the trend beside the export.  What a reader says is near what   *)
(* the rows say at that time, and a write moves the sums over the rows by  *)
(* no more than what it writes; sums over finite sets come first.          *)
(***************************************************************************)
EXTENDS AlgorithmsProofs, FiniteSetsExt

-----------------------------------------------------------------------------
(* Sums over finite sets.                                                  *)

(* Among some subsets of a finite set one has no other of them inside it.  *)
LEMMA SmallestSet ==
  ASSUME NEW S, IsFiniteSet(S), NEW C, C \subseteq SUBSET S, C # {}
  PROVE  \E m \in C : \A s \in C : s \subseteq m => s = m
  <1>1. IsWellFoundedOn(StrictSubsetOrdering(S), FiniteSubsetsOf(S))
    BY FS_StrictSubsetOrderingWellFounded
  <1>2. FiniteSubsetsOf(S) = SUBSET S
    BY FS_FiniteSubsetsOfFinite
  <1>3. PICK m \in C : \A s \in C : ~(<<s, m>> \in StrictSubsetOrdering(S))
    BY <1>1, <1>2, WFMin
  <1>4. \A s \in C : s \subseteq m /\ s # m
                       => <<s, m>> \in StrictSubsetOrdering(S)
    BY DEF StrictSubsetOrdering
  <1>5. ASSUME NEW s \in C, s \subseteq m
        PROVE  s = m
    BY <1>3, <1>4, <1>5, Zenon
  <1>6. QED
    BY <1>5, Zenon

(* Induction over the subsets of a finite set.                             *)
LEMMA SetInduction ==
  ASSUME NEW S, IsFiniteSet(S), NEW C, {} \in C,
         \A s \in SUBSET S, x \in S : s \in C /\ x \notin s => s \union {x} \in C
  PROVE  S \in C
  <1> DEFINE Bad == {s \in SUBSET S : s \notin C}
  <1> SUFFICES ASSUME Bad # {} PROVE FALSE
    OBVIOUS
  <1>1. PICK m \in Bad : \A s \in Bad : s \subseteq m => s = m
    <2>1. Bad \subseteq SUBSET S
      OBVIOUS
    <2> HIDE DEF Bad
    <2>2. QED
      BY <2>1, SmallestSet
  <1>2. PICK x \in m : TRUE
    BY <1>1
  <1>3. m \ {x} \in C
    BY <1>1, <1>2
  <1>4. (m \ {x}) \union {x} = m /\ m \ {x} \in SUBSET S /\ x \in S /\ x \notin m \ {x}
    BY <1>1, <1>2
  <1>5. QED
    BY <1>1, <1>3, <1>4

(* What w gives for the members of S, added up.                            *)
Sum(w, S) == MapThenSumSet(LAMBDA x : w[x], S)

(* f adds up what w gives for the members of any subset of S, in whatever  *)
(* order.                                                                  *)
Additive(f, w, S) ==
    /\ f \in [SUBSET S -> Int]
    /\ f[{}] = 0
    /\ \A s \in SUBSET S : \A x \in s : f[s] = w[x] + f[s \ {x}]

LEMMA SomeAdditive ==
  ASSUME NEW S, IsFiniteSet(S), NEW w, \A x \in S : w[x] \in Int
  PROVE  \E f : Additive(f, w, S)
  <1> DEFINE C == {s \in SUBSET S : \E f : Additive(f, w, s)}
  <1>1. {} \in C
    <2> DEFINE f == [s \in SUBSET {} |-> 0]
    <2>1. Additive(f, w, {})
      BY DEF Additive
    <2> HIDE DEF f
    <2>2. QED
      BY <2>1
  <1>2. ASSUME NEW s \in SUBSET S, NEW z \in S, s \in C, z \notin s
        PROVE  s \union {z} \in C
    <2>1. PICK g : Additive(g, w, s)
      BY <1>2
    <2> DEFINE q == s \union {z}
               f == [t \in SUBSET q |-> IF z \in t THEN w[z] + g[t \ {z}]
                                        ELSE g[t]]
    <2>2. f \in [SUBSET q -> Int]
      <3>1. \A t \in SUBSET q : t \ {z} \in SUBSET s
        OBVIOUS
      <3>2. \A t \in SUBSET q : z \notin t => t \in SUBSET s
        OBVIOUS
      <3>3. \A t \in SUBSET s : g[t] \in Int
        BY <2>1 DEF Additive
      <3>4. QED
        BY <3>1, <3>2, <3>3
    <2>3. f[{}] = 0
      BY <2>1 DEF Additive
    <2>4. ASSUME NEW t \in SUBSET q, NEW x \in t
          PROVE  f[t] = w[x] + f[t \ {x}]
      <3>1. t \ {x} \in SUBSET q
        OBVIOUS
      <3>2. CASE x = z
        BY <3>1, <3>2
      <3>3. CASE x # z /\ z \notin t
        <4>1. t \in SUBSET s
          BY <3>3
        <4>2. g[t] = w[x] + g[t \ {x}]
          BY <2>1, <4>1 DEF Additive
        <4>3. f[t] = g[t] /\ f[t \ {x}] = g[t \ {x}]
          BY <3>1, <3>3
        <4>4. QED
          BY <4>2, <4>3
      <3>4. CASE x # z /\ z \in t
        <4> DEFINE u == t \ {z}
        <4>1. u \in SUBSET s /\ x \in u /\ u \ {x} \in SUBSET s
              /\ (t \ {x}) \ {z} = u \ {x}
          BY <3>4
        <4>2. g[u] = w[x] + g[u \ {x}]
          BY <2>1, <4>1 DEF Additive
        <4>3. f[t] = w[z] + g[u] /\ f[t \ {x}] = w[z] + g[u \ {x}]
          BY <3>1, <3>4, <4>1
        <4>4. w[z] \in Int /\ w[x] \in Int /\ g[u \ {x}] \in Int
          BY <2>1, <3>4, <4>1 DEF Additive
        <4>5. w[z] + (w[x] + g[u \ {x}]) = w[x] + (w[z] + g[u \ {x}])
          <5> DEFINE a == w[z]
                     b == w[x]
                     c == g[u \ {x}]
          <5> HIDE DEF a, b, c
          <5> SUFFICES a + (b + c) = b + (a + c)
            BY DEF a, b, c
          <5>1. a \in Int /\ b \in Int /\ c \in Int
            BY <4>4 DEF a, b, c
          <5>2. QED
            BY <5>1
        <4>6. QED
          <5> HIDE DEF f, u
          <5> QED BY <4>2, <4>3, <4>5
      <3>5. QED
        BY <3>2, <3>3, <3>4
    <2> HIDE DEF f
    <2>5. Additive(f, w, q)
      BY <2>2, <2>3, <2>4 DEF Additive
    <2>6. QED
      BY <2>5
  <1>3. S \in C
    <2> HIDE DEF C
    <2> QED BY <1>1, <1>2, SetInduction
  <1>4. QED
    BY <1>3

LEMMA SumIs ==
  ASSUME NEW w, NEW S
  PROVE  Sum(w, S) =
           (CHOOSE f : f = [s \in SUBSET S |->
              IF s = {} THEN 0
              ELSE w[CHOOSE x \in s : TRUE]
                     + f[s \ {CHOOSE x \in s : TRUE}]])[S]
  BY DEF Sum, MapThenSumSet, MapThenFoldSet

(* Whatever order MapThenSumSet takes, the sum is the same.                *)
LEMMA SumAdditive ==
  ASSUME NEW S, IsFiniteSet(S), NEW w, NEW f, Additive(f, w, S)
  PROVE  Sum(w, S) = f[S]
  <1> DEFINE P(g) == g = [s \in SUBSET S |->
                            IF s = {} THEN 0
                            ELSE w[CHOOSE x \in s : TRUE]
                                   + g[s \ {CHOOSE x \in s : TRUE}]]
             chosen == CHOOSE g : P(g)
  <1>1. P(f)
    <2>1. \A s \in SUBSET S : s # {} =>
            f[s] = w[CHOOSE x \in s : TRUE] + f[s \ {CHOOSE x \in s : TRUE}]
      BY DEF Additive
    <2>2. QED
      BY <2>1 DEF Additive
  <1>2. P(chosen)
    BY <1>1
  <1>3. Sum(w, S) = chosen[S]
    BY SumIs
  <1> HIDE DEF chosen
  <1> DEFINE Bad == {s \in SUBSET S : chosen[s] # f[s]}
  <1>4. CASE Bad = {}
    BY <1>3, <1>4
  <1>5. CASE Bad # {}
    <2>1. PICK m \in Bad : \A s \in Bad : s \subseteq m => s = m
      <3>1. Bad \subseteq SUBSET S
        OBVIOUS
      <3> HIDE DEF Bad
      <3>2. QED
        BY <1>5, <3>1, SmallestSet
    <2>2. m \in SUBSET S
      OBVIOUS
    <2>3. m # {}
      BY <1>2, <2>1 DEF Additive
    <2> DEFINE x == CHOOSE x \in m : TRUE
    <2>4. x \in m
      BY <2>3
    <2>5. chosen[m \ {x}] = f[m \ {x}]
      BY <2>1, <2>2, <2>4
    <2>6. chosen[m] = w[x] + chosen[m \ {x}]
      BY <1>2, <2>2, <2>3
    <2> HIDE DEF x
    <2>7. f[m] = w[x] + f[m \ {x}]
      BY <2>2, <2>4 DEF Additive
    <2>8. QED
      BY <2>1, <2>5, <2>6, <2>7
  <1>6. QED
    BY <1>4, <1>5

LEMMA SumEmpty ==
  ASSUME NEW w
  PROVE  Sum(w, {}) = 0
  <1>1. IsFiniteSet({})
    BY FS_EmptySet
  <1>2. PICK f : Additive(f, w, {})
    BY <1>1, SomeAdditive
  <1>3. Sum(w, {}) = f[{}]
    BY <1>1, <1>2, SumAdditive
  <1>4. QED
    BY <1>2, <1>3 DEF Additive

LEMMA AdditiveWithin ==
  ASSUME NEW S, NEW w, NEW f, Additive(f, w, S), NEW T \in SUBSET S
  PROVE  Additive([s \in SUBSET T |-> f[s]], w, T)
  <1>1. SUBSET T \subseteq SUBSET S
    OBVIOUS
  <1>2. QED
    BY <1>1 DEF Additive

(* One member's share of a sum.                                            *)
LEMMA SumParts ==
  ASSUME NEW S, IsFiniteSet(S), NEW w, \A x \in S : w[x] \in Int
  PROVE  /\ Sum(w, S) \in Int
         /\ \A x \in S : Sum(w, S) = w[x] + Sum(w, S \ {x})
  <1>1. PICK f : Additive(f, w, S)
    BY SomeAdditive
  <1>2. \A T \in SUBSET S : Sum(w, T) = f[T]
    <2> SUFFICES ASSUME NEW T \in SUBSET S
                 PROVE  Sum(w, T) = f[T]
      OBVIOUS
    <2> DEFINE g == [s \in SUBSET T |-> f[s]]
    <2>1. Additive(g, w, T)
      BY <1>1, AdditiveWithin, Zenon
    <2>2. IsFiniteSet(T) /\ g[T] = f[T]
      BY FS_Subset
    <2> HIDE DEF g
    <2>3. Sum(w, T) = g[T]
      BY <2>1, <2>2, SumAdditive
    <2>4. QED
      BY <2>2, <2>3, Zenon
  <1>3. \A x \in S : S \ {x} \in SUBSET S
    OBVIOUS
  <1>4. S \in SUBSET S
    OBVIOUS
  <1>5. QED
    BY <1>1, <1>2, <1>3, <1>4 DEF Additive

LEMMA SumAdd ==
  ASSUME NEW S, IsFiniteSet(S), NEW z, z \notin S, NEW w,
         \A x \in S \union {z} : w[x] \in Int
  PROVE  /\ Sum(w, S) \in Int
         /\ Sum(w, S \union {z}) = w[z] + Sum(w, S)
  <1>1. IsFiniteSet(S \union {z})
    BY FS_AddElement
  <1>2. (S \union {z}) \ {z} = S /\ z \in S \union {z}
    OBVIOUS
  <1>3. Sum(w, S) \in Int
    BY SumParts
  <1>4. Sum(w, S \union {z}) = w[z] + Sum(w, (S \union {z}) \ {z})
    BY <1>1, <1>2, SumParts
  <1>5. QED
    BY <1>2, <1>3, <1>4

LEMMA SumSame ==
  ASSUME NEW S, IsFiniteSet(S), NEW v, NEW w,
         \A x \in S : w[x] \in Int /\ v[x] = w[x]
  PROVE  Sum(v, S) = Sum(w, S)
  <1>1. PICK f : Additive(f, w, S)
    BY SomeAdditive
  <1>2. Additive(f, v, S)
    BY <1>1 DEF Additive
  <1>3. QED
    BY <1>1, <1>2, SumAdditive

LEMMA SumNat ==
  ASSUME NEW S, IsFiniteSet(S), NEW w, \A x \in S : w[x] \in Nat
  PROVE  Sum(w, S) \in Nat
  <1> DEFINE C == {s \in SUBSET S : Sum(w, s) \in Nat}
  <1>1. {} \in C
    BY SumEmpty
  <1>2. ASSUME NEW s \in SUBSET S, NEW x \in S, s \in C, x \notin s
        PROVE  s \union {x} \in C
    <2>1. IsFiniteSet(s) /\ \A y \in s \union {x} : w[y] \in Int
      BY FS_Subset
    <2>2. Sum(w, s \union {x}) = w[x] + Sum(w, s)
      BY <1>2, <2>1, SumAdd
    <2>3. QED
      BY <1>2, <2>2
  <1>3. S \in C
    <2> HIDE DEF C
    <2>1. QED
      BY <1>1, <1>2, SetInduction
  <1>4. QED
    BY <1>3

LEMMA SumExcept ==
  ASSUME NEW S, IsFiniteSet(S), NEW z \in S, NEW w, NEW v,
         \A x \in S : w[x] \in Int /\ v[x] \in Int,
         \A x \in S : x # z => v[x] = w[x]
  PROVE  /\ Sum(w, S) \in Int
         /\ Sum(v, S) = Sum(w, S) - w[z] + v[z]
  <1>1. IsFiniteSet(S \ {z})
    BY FS_Subset
  <1>2. Sum(v, S \ {z}) = Sum(w, S \ {z})
    BY <1>1, SumSame
  <1>3. Sum(w, S \ {z}) \in Int /\ Sum(w, S) \in Int
    BY <1>1, SumParts
  <1>4. Sum(v, S) = v[z] + Sum(v, S \ {z}) /\ Sum(w, S) = w[z] + Sum(w, S \ {z})
    BY SumParts
  <1>5. v[z] \in Int /\ w[z] \in Int
    OBVIOUS
  <1>6. QED
    BY <1>2, <1>3, <1>4, <1>5

-----------------------------------------------------------------------------
(* Rounding.                                                               *)

(* A number of tenths is q cents and r tenths: rounded, it is q cents, or  *)
(* one more.                                                               *)

(* Members that count for nothing can be left out.                         *)
LEMMA SumWithin ==
  ASSUME NEW S, IsFiniteSet(S), NEW T \in SUBSET S, NEW w,
         \A x \in S : w[x] \in Int, \A x \in S : x \notin T => w[x] = 0
  PROVE  Sum(w, S) = Sum(w, T)
  <1> DEFINE C == {s \in SUBSET (S \ T) : Sum(w, T \union s) = Sum(w, T)}
  <1>1. {} \in C
    <2>1. T \union {} = T
      OBVIOUS
    <2>2. QED
      BY <2>1
  <1>2. ASSUME NEW s \in SUBSET (S \ T), NEW x \in S \ T, s \in C, x \notin s
        PROVE  s \union {x} \in C
    <2> DEFINE q == T \union s
    <2>1. /\ q \in SUBSET S /\ x \notin q /\ T \union (s \union {x}) = q \union {x}
          /\ \A y \in q \union {x} : w[y] \in Int
          /\ w[x] = 0
      BY <1>2
    <2>2. Sum(w, q) = Sum(w, T)
      BY <1>2
    <2> HIDE DEF q
    <2>3. IsFiniteSet(q)
      BY <2>1, FS_Subset
    <2>4. Sum(w, q) \in Int /\ Sum(w, q \union {x}) = w[x] + Sum(w, q)
      BY <2>1, <2>3, SumAdd
    <2>5. Sum(w, q \union {x}) = Sum(w, T)
      BY <2>1, <2>2, <2>4
    <2>6. Sum(w, T \union (s \union {x})) = Sum(w, T)
      BY <2>1, <2>5
    <2>7. QED
      BY <2>6
  <1>3. S \ T \in C
    <2>1. IsFiniteSet(S \ T)
      BY FS_Subset
    <2> HIDE DEF C
    <2>2. QED
      BY <1>1, <1>2, <2>1, SetInduction
  <1>4. T \union (S \ T) = S
    OBVIOUS
  <1>5. Sum(w, T \union (S \ T)) = Sum(w, T)
    BY <1>3
  <1>6. QED
    BY <1>4, <1>5, Zenon

(* A sum of differences, and of sums.                                      *)
LEMMA SumMinus ==
  ASSUME NEW S, IsFiniteSet(S), NEW u, NEW v, NEW w,
         \A x \in S : v[x] \in Int /\ w[x] \in Int /\ u[x] = v[x] - w[x]
  PROVE  /\ Sum(v, S) \in Int /\ Sum(w, S) \in Int
         /\ Sum(u, S) = Sum(v, S) - Sum(w, S)
  <1> DEFINE C == {s \in SUBSET S : Sum(u, s) = Sum(v, s) - Sum(w, s)}
  <1>1. {} \in C
    BY SumEmpty
  <1>2. ASSUME NEW s \in SUBSET S, NEW x \in S, s \in C, x \notin s
        PROVE  s \union {x} \in C
    <2>1. /\ IsFiniteSet(s)
          /\ \A y \in s \union {x} : v[y] \in Int /\ w[y] \in Int /\ u[y] \in Int
          /\ v[x] \in Int /\ w[x] \in Int /\ u[x] = v[x] - w[x]
      BY FS_Subset
    <2>2. Sum(v, s) \in Int /\ Sum(v, s \union {x}) = v[x] + Sum(v, s)
      BY <1>2, <2>1, SumAdd
    <2>3. Sum(w, s) \in Int /\ Sum(w, s \union {x}) = w[x] + Sum(w, s)
      BY <1>2, <2>1, SumAdd
    <2>4. Sum(u, s \union {x}) = u[x] + Sum(u, s)
      BY <1>2, <2>1, SumAdd
    <2>5. Sum(u, s) = Sum(v, s) - Sum(w, s)
      BY <1>2
    <2>6. QED
      BY <2>1, <2>2, <2>3, <2>4, <2>5
  <1>3. S \in C
    <2> HIDE DEF C
    <2>1. QED
      BY <1>1, <1>2, SetInduction
  <1>4. Sum(v, S) \in Int /\ Sum(w, S) \in Int
    BY SumParts
  <1>5. QED
    BY <1>3, <1>4

(* Sums are no further apart than what they add up.                        *)
LEMMA SumApart ==
  ASSUME NEW S, IsFiniteSet(S), NEW v, NEW w, NEW d,
         \A x \in S : /\ v[x] \in Int /\ w[x] \in Int /\ d[x] \in Int
                      /\ v[x] - w[x] <= d[x] /\ w[x] - v[x] <= d[x]
  PROVE  /\ Sum(v, S) - Sum(w, S) <= Sum(d, S)
         /\ Sum(w, S) - Sum(v, S) <= Sum(d, S)
  <1> DEFINE C == {s \in SUBSET S : /\ Sum(v, s) - Sum(w, s) <= Sum(d, s)
                                    /\ Sum(w, s) - Sum(v, s) <= Sum(d, s)}
  <1>1. {} \in C
    BY SumEmpty
  <1>2. ASSUME NEW s \in SUBSET S, NEW x \in S, s \in C, x \notin s
        PROVE  s \union {x} \in C
    <2>1. /\ IsFiniteSet(s)
          /\ \A y \in s \union {x} : v[y] \in Int /\ w[y] \in Int /\ d[y] \in Int
          /\ v[x] \in Int /\ w[x] \in Int /\ d[x] \in Int
          /\ v[x] - w[x] <= d[x] /\ w[x] - v[x] <= d[x]
      BY FS_Subset
    <2>2. Sum(v, s) \in Int /\ Sum(v, s \union {x}) = v[x] + Sum(v, s)
      BY <1>2, <2>1, SumAdd
    <2>3. Sum(w, s) \in Int /\ Sum(w, s \union {x}) = w[x] + Sum(w, s)
      BY <1>2, <2>1, SumAdd
    <2>4. Sum(d, s) \in Int /\ Sum(d, s \union {x}) = d[x] + Sum(d, s)
      BY <1>2, <2>1, SumAdd
    <2>5. Sum(v, s) - Sum(w, s) <= Sum(d, s) /\ Sum(w, s) - Sum(v, s) <= Sum(d, s)
      BY <1>2
    <2>6. QED
      BY <2>1, <2>2, <2>3, <2>4, <2>5
  <1>3. S \in C
    <2> HIDE DEF C
    <2>1. QED
      BY <1>1, <1>2, SetInduction
  <1>4. QED
    BY <1>3

LEMMA SumPlus ==
  ASSUME NEW S, IsFiniteSet(S), NEW u, NEW v, NEW w,
         \A x \in S : v[x] \in Int /\ w[x] \in Int /\ u[x] = v[x] + w[x]
  PROVE  Sum(u, S) = Sum(v, S) + Sum(w, S)
  <1>1. \A x \in S : u[x] \in Int /\ w[x] \in Int /\ v[x] = u[x] - w[x]
    OBVIOUS
  <1>2. Sum(v, S) = Sum(u, S) - Sum(w, S)
    BY <1>1, SumMinus
  <1>3. Sum(u, S) \in Int /\ Sum(w, S) \in Int
    BY <1>1, SumParts
  <1>4. QED
    BY <1>2, <1>3

-----------------------------------------------------------------------------
(* The rounding of amounts.                                                *)

LEMMA RoundedIs ==
  ASSUME NEW q \in Int, NEW r \in 0 .. 9, NEW x \in Int, x = 10 * q + r
  PROVE  /\ x % 10 = r
         /\ Rou!Rounded(x) = IF r < 5 \/ (r = 5 /\ x < 0) THEN 10 * q
                             ELSE 10 * q + 10
  <1>1. x % 10 = r
    OBVIOUS
  <1>2. CASE x >= 0 /\ r < 5
    <2>1. (x + 5) \div 10 = q
      BY <1>2
    <2>2. QED
      BY <1>1, <1>2, <2>1 DEF Rou!Rounded, Rou!Magnitude, Rou!Cent
  <1>3. CASE x >= 0 /\ r >= 5
    <2>1. (x + 5) \div 10 = q + 1
      BY <1>3
    <2>2. QED
      BY <1>1, <1>3, <2>1 DEF Rou!Rounded, Rou!Magnitude, Rou!Cent
  <1>4. CASE x < 0 /\ r > 5
    <2>1. (0 - x + 5) \div 10 = 0 - q - 1
      BY <1>4
    <2>2. QED
      BY <1>1, <1>4, <2>1 DEF Rou!Rounded, Rou!Magnitude, Rou!Cent
  <1>5. CASE x < 0 /\ r <= 5
    <2>1. (0 - x + 5) \div 10 = 0 - q
      BY <1>5
    <2>2. QED
      BY <1>1, <1>5, <2>1 DEF Rou!Rounded, Rou!Magnitude, Rou!Cent
  <1>6. QED
    BY <1>2, <1>3, <1>4, <1>5

LEMMA Tenths ==
  ASSUME NEW x \in Int
  PROVE  \E q \in Int, r \in 0 .. 9 : x = 10 * q + r /\ x % 10 = r
  <1> DEFINE q == x \div 10
             r == x % 10
  <1>1. q \in Int /\ r \in 0 .. 9
    OBVIOUS
  <1>2. x = 10 * q + r
    OBVIOUS
  <1> HIDE DEF q
  <1>3. QED
    BY <1>1, <1>2

(* Whole cents added before rounding make no difference after it, unless   *)
(* half a cent is to be rounded: then the two may differ by a cent.        *)
LEMMA RoundedShift ==
  ASSUME NEW c \in Int, c % 10 = 0, NEW x \in Int
  PROVE  /\ Rou!Rounded(x) \in Int /\ Rou!Rounded(x) % 10 = 0
         /\ Rou!Rounded(c + x) \in Int /\ Rou!Rounded(c + x) % 10 = 0
         /\ x % 10 = 5 <=> (c + x) % 10 = 5
         /\ x % 10 # 5 => Rou!Rounded(c + x) = c + Rou!Rounded(x)
         /\ x % 10 = 5 => /\ Rou!Rounded(x) \in {x - 5, x + 5}
                          /\ Rou!Rounded(c + x) \in {c + x - 5, c + x + 5}
  <1>1. PICK q \in Int, r \in 0 .. 9 : x = 10 * q + r /\ x % 10 = r
    BY Tenths
  <1>2. PICK k \in Int : c = 10 * k
    <2>1. PICK k \in Int, m \in 0 .. 9 : c = 10 * k + m /\ c % 10 = m
      BY Tenths
    <2>2. QED
      BY <2>1
  <1>3. c + x \in Int /\ c + x = 10 * (k + q) + r /\ k + q \in Int
    BY <1>1, <1>2
  <1>4. Rou!Rounded(x) = IF r < 5 \/ (r = 5 /\ x < 0) THEN 10 * q
                         ELSE 10 * q + 10
    BY <1>1, RoundedIs
  <1>5. /\ (c + x) % 10 = r
        /\ Rou!Rounded(c + x) = IF r < 5 \/ (r = 5 /\ c + x < 0)
                                THEN 10 * (k + q) ELSE 10 * (k + q) + 10
    <2> DEFINE y == c + x
               p == k + q
    <2>1. y \in Int /\ p \in Int /\ y = 10 * p + r
      BY <1>3
    <2> HIDE DEF y, p
    <2>2. y % 10 = r /\ Rou!Rounded(y) = IF r < 5 \/ (r = 5 /\ y < 0)
                                          THEN 10 * p ELSE 10 * p + 10
      BY <2>1, RoundedIs
    <2>3. QED
      BY <2>2 DEF y, p
  <1>6. \A n \in Int : (10 * n) % 10 = 0 /\ (10 * n + 10) % 10 = 0
    OBVIOUS
  <1>7. QED
    BY <1>1, <1>2, <1>3, <1>4, <1>5, <1>6

Booked == Sum(booked, Bookings)

RoundingInv ==
    /\ Rou!TypeOK
    /\ balance - opening - Booked <= 10 * halves
    /\ opening + Booked - balance <= 10 * halves

LEMMA TotalIs == Rou!TypeOK => Rou!Total = Booked
  BY DEF Rou!TypeOK, Rou!Total, Rou!FoldFunction, Rou!FoldFunctionOnSet,
         Rou!MapThenFoldSet, Booked, Sum, MapThenSumSet, MapThenFoldSet

LEMMA BookedSum ==
  ASSUME Rou!TypeOK
  PROVE  /\ IsFiniteSet(Bookings) /\ booked \in [Bookings -> Int]
         /\ Booked \in Int
         /\ \A b \in Bookings : booked[b] \in Int
  <1>1. IsFiniteSet(Bookings) /\ booked \in [Bookings -> Int]
    BY ReadersAssumption DEF Rou!TypeOK
  <1>2. \A b \in Bookings : booked[b] \in Int
    BY <1>1
  <1>3. QED
    BY <1>1, <1>2, SumParts DEF Booked

LEMMA BookedDiffers ==
  ASSUME NEW b \in Bookings,
         \A x \in Bookings : booked[x] \in Int /\ booked'[x] \in Int,
         \A x \in Bookings : x # b => booked'[x] = booked[x]
  PROVE  Booked' = Booked - booked[b] + booked'[b]
  <1>1. IsFiniteSet(Bookings)
    BY ReadersAssumption
  <1>2. Sum(booked', Bookings) = Sum(booked, Bookings) - booked[b] + booked'[b]
    BY <1>1, SumExcept
  <1>3. QED
    BY <1>2 DEF Booked

LEMMA BookedStep ==
  ASSUME Rou!TypeOK, NEW b \in Bookings, NEW n \in Int,
         booked' = [booked EXCEPT ![b] = n]
  PROVE  Booked' = Booked - booked[b] + n
  <1>1. /\ \A x \in Bookings : booked[x] \in Int /\ booked'[x] \in Int
        /\ \A x \in Bookings : x # b => booked'[x] = booked[x]
        /\ booked'[b] = n
    BY BookedSum
  <1>2. Booked' = Booked - booked[b] + booked'[b]
    BY <1>1, BookedDiffers, Zenon
  <1>3. QED
    BY <1>1, <1>2

LEMMA RoundingInvInit == Rou!Init => RoundingInv
  <1> SUFFICES ASSUME Rou!Init
               PROVE  RoundingInv
    OBVIOUS
  <1>1. PICK o \in Openings : opening = Rou!Rounded(o)
    BY DEF Rou!Init
  <1>2. o \in Int /\ 0 \in Int /\ 0 % 10 = 0 /\ 0 + o = o
    BY ReadersAssumption
  <1>3. opening \in Int /\ opening % 10 = 0
    BY <1>1, <1>2, RoundedShift
  <1>4. Rou!TypeOK
    BY <1>2, <1>3, ReadersAssumption DEF Rou!Init, Rou!TypeOK, Rou!Cent
  <1>5. Booked = 0
    <2> DEFINE w == [b \in Bookings |-> 0]
    <2>1. \A S \in SUBSET Bookings : \A x \in S : w[x] = 0
      OBVIOUS
    <2>2. booked = w
      BY DEF Rou!Init
    <2> DEFINE C == {s \in SUBSET Bookings : Sum(w, s) = 0}
    <2>3. {} \in C
      BY SumEmpty
    <2>4. IsFiniteSet(Bookings)
      BY ReadersAssumption
    <2>5. ASSUME NEW s \in SUBSET Bookings, NEW x \in Bookings, s \in C, x \notin s
          PROVE  s \union {x} \in C
      <3>1. IsFiniteSet(s) /\ \A y \in s \union {x} : w[y] = 0 /\ w[y] \in Int
        BY <2>4, FS_Subset
      <3> HIDE DEF w
      <3>2. Sum(w, s \union {x}) = w[x] + Sum(w, s)
        BY <2>5, <3>1, SumAdd
      <3>3. QED
        BY <2>5, <3>1, <3>2
    <2> HIDE DEF C
    <2>6. Bookings \in C
      BY <2>3, <2>4, <2>5, SetInduction
    <2>7. QED
      BY <2>2, <2>6 DEF Booked, C
  <1>6. QED
    BY <1>3, <1>4, <1>5 DEF Rou!Init, RoundingInv

LEMMA RoundingDone == RoundingInv => Rou!DriftOnlyFromHalfCents
  <1> SUFFICES ASSUME RoundingInv
               PROVE  Rou!DriftOnlyFromHalfCents
    OBVIOUS
  <1>1. Rou!Total = Booked /\ Booked \in Int
    BY TotalIs, BookedSum DEF RoundingInv
  <1>2. QED
    BY <1>1 DEF RoundingInv, Rou!TypeOK, Rou!DriftOnlyFromHalfCents,
                Rou!Magnitude, Rou!Cent

(* The arithmetic of the steps.                                            *)
LEMMA HalfCents ==
  ASSUME NEW c \in Int, NEW d \in Int, NEW y \in Int, NEW r \in Int,
         NEW old \in Int, r = y - 5 \/ r = y + 5,
         d = c + y - old - 5 \/ d = c + y - old + 5
  PROVE  d - c <= r - old + 10 /\ r - old <= d - c + 10
  OBVIOUS

LEMMA OneCentMore ==
  ASSUME NEW c \in Int, NEW d \in Int, NEW o \in Int, NEW s \in Int,
         NEW r \in Int, NEW old \in Int, NEW h \in Int,
         c - o - s <= 10 * h, o + s - c <= 10 * h,
         d - c <= r - old + 10, r - old <= d - c + 10
  PROVE  /\ d - o - (s - old + r) <= 10 * (h + 1)
         /\ o + (s - old + r) - d <= 10 * (h + 1)
  OBVIOUS

LEMMA PostRounds ==
  ASSUME NEW c \in Int, c % 10 = 0, NEW x \in Int, NEW sign \in {-1, 1}
  PROVE  /\ sign * x \in Int
         /\ x % 10 = 5 <=> (sign * x) % 10 = 5
  <1>1. sign * x = x \/ sign * x = 0 - x
    OBVIOUS
  <1>2. x % 10 = 5 <=> (0 - x) % 10 = 5
    <2>1. PICK q \in Int, r \in 0 .. 9 : x = 10 * q + r /\ x % 10 = r
      BY Tenths
    <2> DEFINE y == 0 - x
    <2>2. y \in Int /\ x = 0 - y
      OBVIOUS
    <2> HIDE DEF y
    <2>3. PICK p \in Int, m \in 0 .. 9 : y = 10 * p + m /\ y % 10 = m
      BY <2>2, Tenths
    <2>4. x % 10 = 5 <=> y % 10 = 5
      BY <2>1, <2>2, <2>3
    <2>5. QED
      BY <2>4 DEF y
  <1>3. QED
    BY <1>1, <1>2

LEMMA Posted ==
  ASSUME RoundingInv, NEW b \in Bookings, NEW x \in SentAmounts,
         NEW sign \in {-1, 1}, Rou!Post(b, sign, x)
  PROVE  RoundingInv'
  <1> DEFINE y == sign * x
             r == Rou!Rounded(y)
  <1>1. x \in Int /\ y \in Int /\ (x % 10 = 5 <=> y % 10 = 5)
    BY PostRounds, ReadersAssumption DEF RoundingInv
  <1>2. /\ booked[b] = 0 /\ booked' = [booked EXCEPT ![b] = r]
        /\ balance' = Rou!Rounded(balance + y) /\ opening' = opening
        /\ sent < MaxSent /\ sent' = sent + 1
        /\ halves' = IF Rou!Half(x) THEN halves + 1 ELSE halves
    BY DEF Rou!Post, Rou!Sends, Rou!Stored
  <1> HIDE DEF y
  <1>3. balance \in Int /\ balance % 10 = 0 /\ opening \in Int
        /\ halves \in 0 .. sent /\ sent \in 0 .. MaxSent /\ MaxSent \in Nat
    BY ReadersAssumption DEF RoundingInv, Rou!TypeOK, Rou!Cent
  <1>4. /\ r \in Int /\ r % 10 = 0 /\ balance' \in Int /\ balance' % 10 = 0
        /\ y % 10 # 5 => balance' = balance + r
        /\ y % 10 = 5 => r \in {y - 5, y + 5}
                         /\ balance' \in {balance + y - 5, balance + y + 5}
    BY <1>1, <1>2, <1>3, RoundedShift
  <1>5. halves' = IF y % 10 = 5 THEN halves + 1 ELSE halves
    BY <1>1, <1>2 DEF Rou!Half, Rou!Cent
  <1> HIDE DEF r
  <1>6. Booked \in Int /\ Booked' = Booked + r
    <2>1. Booked' = Booked - booked[b] + r
      BY <1>2, <1>4, BookedStep DEF RoundingInv
    <2>2. QED
      BY <1>2, <1>4, <2>1, BookedSum DEF RoundingInv
  <1>7. Rou!TypeOK'
    BY <1>2, <1>3, <1>4, <1>5 DEF RoundingInv, Rou!TypeOK, Rou!Cent
  <1>8. QED
    BY <1>1, <1>2, <1>3, <1>4, <1>5, <1>6, <1>7 DEF RoundingInv

LEMMA Edited ==
  ASSUME RoundingInv, NEW b \in Bookings, NEW x \in SentAmounts, Rou!Edit(b, x)
  PROVE  RoundingInv'
  <1> DEFINE y == IF booked[b] < 0 THEN -x ELSE x
             r == Rou!Rounded(y)
             old == booked[b]
  <1>1. x \in Int /\ y \in Int /\ (x % 10 = 5 <=> y % 10 = 5)
    <2>1. y = -1 * x \/ y = 1 * x
      BY ReadersAssumption
    <2>2. QED
      BY <2>1, PostRounds, ReadersAssumption
  <1>2. /\ booked' = [booked EXCEPT ![b] = r]
        /\ IF y = old THEN balance' = balance
           ELSE balance' \in Rou!Corrected(y - old)
        /\ opening' = opening
        /\ sent < MaxSent /\ sent' = sent + 1
        /\ halves' = IF Rou!Half(x) THEN halves + 1 ELSE halves
    BY DEF Rou!Edit, Rou!Sends, Rou!Stored
  <1>3. balance \in Int /\ balance % 10 = 0 /\ opening \in Int
        /\ halves \in 0 .. sent /\ sent \in 0 .. MaxSent /\ MaxSent \in Nat
        /\ old \in Int /\ old % 10 = 0
    BY ReadersAssumption DEF RoundingInv, Rou!TypeOK, Rou!Cent
  <1> HIDE DEF y, old
  <1>4. /\ balance - old \in Int /\ (balance - old) % 10 = 0
        /\ balance + (y - old) = (balance - old) + y
        /\ y = old => y % 10 # 5
    BY <1>1, <1>3
  <1>5. /\ r \in Int /\ r % 10 = 0
        /\ Rou!Rounded(balance + (y - old)) \in Int
        /\ Rou!Rounded(balance + (y - old)) % 10 = 0
        /\ y % 10 = 5 <=> (balance + (y - old)) % 10 = 5
        /\ y % 10 # 5 => Rou!Rounded(balance + (y - old)) = balance - old + r
        /\ y % 10 = 5 => r \in {y - 5, y + 5}
    <2> DEFINE c == balance - old
    <2>1. c \in Int /\ c % 10 = 0 /\ balance + (y - old) = c + y
      BY <1>4
    <2> HIDE DEF c
    <2>2. /\ Rou!Rounded(y) \in Int /\ Rou!Rounded(y) % 10 = 0
          /\ Rou!Rounded(c + y) \in Int /\ Rou!Rounded(c + y) % 10 = 0
          /\ y % 10 = 5 <=> (c + y) % 10 = 5
          /\ y % 10 # 5 => Rou!Rounded(c + y) = c + Rou!Rounded(y)
          /\ y % 10 = 5 => Rou!Rounded(y) \in {y - 5, y + 5}
      BY <1>1, <2>1, RoundedShift
    <2>3. QED
      BY <2>1, <2>2 DEF c
  <1>6. y = old => r = old
    <2>1. PICK q \in Int, m \in 0 .. 9 : old = 10 * q + m /\ old % 10 = m
      BY <1>3, Tenths
    <2>2. QED
      BY <1>3, <2>1, RoundedIs
  <1> HIDE DEF r
  <1>7. /\ balance' \in Int /\ balance' % 10 = 0
        /\ y % 10 # 5 => balance' = balance - old + r
        /\ y % 10 = 5 => balance' \in {balance + y - old - 5, balance + y - old + 5}
    <2>1. CASE y = old
      BY <1>1, <1>2, <1>3, <1>4, <1>6, <2>1
    <2>2. CASE y # old /\ y % 10 # 5
      BY <1>1, <1>2, <1>3, <1>4, <1>5, <2>2
        DEF Rou!Corrected, Rou!Half, Rou!Cent
    <2>3. CASE y # old /\ y % 10 = 5
      <3>1. balance' \in {balance + (y - old) - 5, balance + (y - old) + 5}
        BY <1>2, <1>5, <2>3 DEF Rou!Corrected, Rou!Half, Rou!Cent
      <3>2. PICK q \in Int : y = 10 * q + 5
        <4>1. PICK q \in Int, m \in 0 .. 9 : y = 10 * q + m /\ y % 10 = m
          BY <1>1, Tenths
        <4>2. QED
          BY <2>3, <4>1
      <3>3. PICK k \in Int : balance - old = 10 * k
        <4>1. PICK p \in Int, m \in 0 .. 9 : balance - old = 10 * p + m
                                             /\ (balance - old) % 10 = m
          BY <1>4, Tenths
        <4>2. QED
          BY <1>4, <4>1
      <3>4. balance' = 10 * (k + q) \/ balance' = 10 * (k + q) + 10
        BY <1>3, <3>1, <3>2, <3>3
      <3>5. balance' \in Int /\ balance' % 10 = 0
        <4> DEFINE p == k + q
        <4>1. p \in Int /\ (balance' = 10 * p \/ balance' = 10 * p + 10)
          BY <3>4
        <4> HIDE DEF p
        <4>2. QED
          BY <4>1
      <3>6. QED
        BY <1>1, <1>3, <2>3, <3>1, <3>5
    <2>4. QED
      BY <2>1, <2>2, <2>3
  <1>8. halves' = IF y % 10 = 5 THEN halves + 1 ELSE halves
    BY <1>1, <1>2 DEF Rou!Half, Rou!Cent
  <1>9. Booked \in Int /\ Booked' = Booked - old + r
    BY <1>2, <1>5, BookedSum, BookedStep DEF RoundingInv, old
  <1>10. /\ r \in Int /\ r % 10 = 0
         /\ y % 10 = 5 => r \in {y - 5, y + 5}
         /\ balance' \in Int /\ balance' % 10 = 0
    BY <1>5, <1>7
  <1>11. /\ booked' = [booked EXCEPT ![b] = r] /\ opening' = opening
         /\ sent < MaxSent /\ sent' = sent + 1
    BY <1>2
  <1>12. Rou!TypeOK'
    <2>1. halves' \in 0 .. sent' /\ sent' \in 0 .. MaxSent
      BY <1>3, <1>8, <1>11
    <2>2. QED
      BY <1>3, <1>10, <1>11, <2>1 DEF RoundingInv, Rou!TypeOK, Rou!Cent
  <1>13. QED
    <2>0. /\ y \in Int /\ r \in Int /\ old \in Int /\ balance \in Int
          /\ balance' \in Int /\ opening \in Int /\ halves \in Int
          /\ Booked \in Int /\ Booked' = Booked - old + r
      BY <1>1, <1>3, <1>9, <1>10
    <2>1. CASE y % 10 # 5
      <3>1. balance' = balance - old + r /\ halves' = halves
        BY <1>7, <1>8, <2>1
      <3>2. QED
        BY <1>3, <1>9, <1>10, <1>11, <1>12, <3>1 DEF RoundingInv
    <2>2. CASE y % 10 = 5
      <3>1. /\ r = y - 5 \/ r = y + 5
            /\ \/ balance' = balance + y - old - 5
               \/ balance' = balance + y - old + 5
            /\ halves' = halves + 1
        BY <1>7, <1>8, <1>10, <2>2
      <3>2. balance' - balance <= r - old + 10 /\ r - old <= balance' - balance + 10
        BY <2>0, <3>1, HalfCents
      <3>3. opening' = opening
        BY <1>11
      <3>4. QED
        <4>1. /\ balance - opening - Booked <= 10 * halves
              /\ opening + Booked - balance <= 10 * halves
          BY DEF RoundingInv
        <4>2. /\ balance' - opening - (Booked - old + r) <= 10 * (halves + 1)
              /\ opening + (Booked - old + r) - balance' <= 10 * (halves + 1)
          BY <2>0, <3>2, <4>1, OneCentMore
        <4>3. QED
          BY <2>0, <1>12, <3>1, <3>3, <4>2 DEF RoundingInv
    <2>3. QED
      BY <2>1, <2>2

LEMMA Deleted ==
  ASSUME RoundingInv, NEW b \in Bookings, Rou!Delete(b)
  PROVE  RoundingInv'
  <1> DEFINE old == booked[b]
  <1>1. balance \in Int /\ balance % 10 = 0 /\ opening \in Int
        /\ halves \in 0 .. sent /\ sent \in 0 .. MaxSent
        /\ old \in Int /\ old % 10 = 0
    BY DEF RoundingInv, Rou!TypeOK, Rou!Cent
  <1>2. /\ booked' = [booked EXCEPT ![b] = 0]
        /\ balance' = Rou!Rounded(balance - old)
        /\ UNCHANGED <<opening, sent, halves>>
    BY DEF Rou!Delete
  <1> HIDE DEF old
  <1>3. balance' = balance - old /\ balance' % 10 = 0
    <2> DEFINE c == balance - old
    <2>0. c \in Int /\ c % 10 = 0
      BY <1>1
    <2> HIDE DEF c
    <2>1. PICK q \in Int, m \in 0 .. 9 : c = 10 * q + m /\ c % 10 = m
      BY <2>0, Tenths
    <2>2. Rou!Rounded(c) = c
      BY <2>0, <2>1, RoundedIs
    <2>3. QED
      BY <1>2, <2>0, <2>2 DEF c
  <1>4. Booked \in Int /\ Booked' = Booked - old
    <2> DEFINE zero == 0
    <2>0. zero \in Int /\ booked' = [booked EXCEPT ![b] = zero]
      BY <1>2
    <2> HIDE DEF zero
    <2>1. Booked' = Booked - booked[b] + zero
      BY <2>0, BookedStep DEF RoundingInv
    <2>2. Booked \in Int /\ booked[b] \in Int
      BY BookedSum DEF RoundingInv
    <2>3. QED
      BY <2>1, <2>2 DEF old, zero
  <1>5. Rou!TypeOK'
    <2>1. 0 % 10 = 0
      OBVIOUS
    <2>2. QED
      BY <1>1, <1>2, <1>3, <2>1 DEF RoundingInv, Rou!TypeOK, Rou!Cent
  <1>6. QED
    BY <1>1, <1>2, <1>3, <1>4, <1>5 DEF RoundingInv

LEMMA RoundingInvStep == RoundingInv /\ [Rou!Next]_rouVars => RoundingInv'
  <1> SUFFICES ASSUME RoundingInv, [Rou!Next]_rouVars
               PROVE  RoundingInv'
    OBVIOUS
  <1>1. CASE UNCHANGED rouVars
    BY <1>1 DEF rouVars, RoundingInv, Rou!TypeOK, Booked
  <1>2. QED
    BY <1>1, Posted, Edited, Deleted DEF Rou!Next

(* For any number of transactions of any amounts in any order of postings, *)
(* edits and deletions: the balance is off by no more than a cent for each *)
(* amount that was sent with half a cent.                                  *)
THEOREM OnlyHalfCentsDrift == MCSpec => []DriftOnlyFromHalfCents
  <1>1. MCInit => RoundingInv
    BY RoundingInvInit DEF MCInit
  <1>2. RoundingInv /\ [MCNext]_allVars => RoundingInv'
    <2>1. [MCNext]_allVars => [Rou!Next]_rouVars
      BY DEF MCNext, allVars, rouVars
    <2>2. QED
      BY <2>1, RoundingInvStep
  <1>3. RoundingInv => DriftOnlyFromHalfCents
    BY RoundingDone DEF DriftOnlyFromHalfCents
  <1>4. QED
    BY <1>1, <1>2, <1>3, PTL DEF MCSpec

-----------------------------------------------------------------------------
(* The monthly summary.                                                    *)

(* What a row adds to a sum over S.                                        *)
AmountWithin(S) == [r \in Rows |-> IF r \in S THEN table[r].amount ELSE 0]

LEMMA ReportSum ==
  ASSUME NEW S
  PROVE  Rep!SumOf(S) = Sum([r \in S |-> table[r].amount], S)
  <1> DEFINE w == [r \in S |-> table[r].amount]
             some(s) == CHOOSE x \in s : TRUE
             P(f) == f = [s \in SUBSET S |->
                            IF s = {} THEN 0 ELSE w[some(s)] + f[s \ {some(s)}]]
             Q(f) == f = [s \in SUBSET S |->
                            IF s = {} THEN 0
                            ELSE table[some(s)].amount + f[s \ {some(s)}]]
  <1>1. \A s \in SUBSET S : s # {} => some(s) \in S
    OBVIOUS
  <1> HIDE DEF some
  <1>2. \A s \in SUBSET S : s # {} => w[some(s)] = table[some(s)].amount
    BY <1>1
  <1> HIDE DEF w
  <1>3. \A f : P(f) <=> Q(f)
    BY <1>2
  <1> HIDE DEF P, Q
  <1>4. (CHOOSE f : P(f)) = (CHOOSE f : Q(f))
    BY <1>3, Zenon
  <1>5. Sum(w, S) = (CHOOSE f : P(f))[S]
    BY SumIs DEF P, some
  <1>6. Rep!SumOf(S) = (CHOOSE f : Q(f))[S]
    BY DEF Rep!SumOf, Rep!MapThenSumSet, Rep!MapThenFoldSet, Q, some
  <1>7. QED
    BY <1>4, <1>5, <1>6, Zenon DEF w

LEMMA ReportsFinite == IsFiniteSet(Rows) /\ IsFiniteSet(Rep!Groups)
  BY ReadersAssumption, FS_AddElement DEF Rep!Groups

LEMMA TableTypes ==
  ASSUME Rep!TypeOK, NEW S \in SUBSET Rep!Live
  PROVE  /\ \A r \in S : table[r] \in Rep!Row /\ table[r].amount \in Nat
         /\ IsFiniteSet(S) /\ S \in SUBSET Rows
         /\ \A r \in Rows : AmountWithin(S)[r] \in Nat
  BY ReportsFinite, FS_Subset, ReadersAssumption
     DEF Rep!TypeOK, Rep!Live, Rep!Row, AmountWithin

LEMMA SumOfIs ==
  ASSUME Rep!TypeOK, NEW S \in SUBSET Rep!Live
  PROVE  /\ Rep!SumOf(S) = Sum(AmountWithin(S), Rows)
         /\ Rep!SumOf(S) \in Nat
  <1> DEFINE v == [r \in S |-> table[r].amount]
             w == AmountWithin(S)
  <1>1. Rep!SumOf(S) = Sum(v, S)
    BY ReportSum
  <1>2. /\ \A r \in S : w[r] \in Nat /\ v[r] = w[r]
        /\ \A r \in Rows : w[r] \in Nat
        /\ \A r \in Rows : r \notin S => w[r] = 0
    BY TableTypes DEF AmountWithin
  <1>3. IsFiniteSet(S) /\ S \in SUBSET Rows /\ IsFiniteSet(Rows)
    BY TableTypes, ReportsFinite
  <1> HIDE DEF v, w
  <1>4. Sum(v, S) = Sum(w, S)
    BY <1>2, <1>3, SumSame
  <1>5. Sum(w, Rows) = Sum(w, S)
    BY <1>2, <1>3, SumWithin
  <1>6. Sum(w, S) \in Nat
    BY <1>2, <1>3, SumNat
  <1>7. QED
    BY <1>1, <1>4, <1>5, <1>6 DEF w

Income == Rep!SumOf(Rep!Of("income"))

Expense == Rep!SumOf(Rep!Of("expense"))

(* The amounts of all rows with their signs.                               *)
Signed ==
    [r \in Rows |-> AmountWithin(Rep!Of("income"))[r]
                      - AmountWithin(Rep!Of("expense"))[r]]

LEMMA OfLive ==
  /\ \A t : Rep!Of(t) \in SUBSET Rep!Live
  /\ \A g : Rep!InGroup(g) \in SUBSET Rep!Live
  BY DEF Rep!Of, Rep!InGroup

LEMMA SumsAre ==
  ASSUME Rep!TypeOK
  PROVE  /\ Income \in Nat /\ Expense \in Nat
         /\ Income = Sum(AmountWithin(Rep!Of("income")), Rows)
         /\ Expense = Sum(AmountWithin(Rep!Of("expense")), Rows)
         /\ Income - Expense = Sum(Signed, Rows)
  <1>1. /\ Rep!Of("income") \in SUBSET Rep!Live
        /\ Rep!Of("expense") \in SUBSET Rep!Live
    BY OfLive
  <1>2. /\ Income \in Nat /\ Expense \in Nat
        /\ Income = Sum(AmountWithin(Rep!Of("income")), Rows)
        /\ Expense = Sum(AmountWithin(Rep!Of("expense")), Rows)
    BY <1>1, SumOfIs DEF Income, Expense
  <1>3. \A r \in Rows : /\ AmountWithin(Rep!Of("income"))[r] \in Int
                        /\ AmountWithin(Rep!Of("expense"))[r] \in Int
    BY <1>1, TableTypes
  <1>4. Income - Expense = Sum(Signed, Rows)
    <2> DEFINE v == AmountWithin(Rep!Of("income"))
               w == AmountWithin(Rep!Of("expense"))
               u == Signed
    <2>1. \A r \in Rows : v[r] \in Int /\ w[r] \in Int /\ u[r] = v[r] - w[r]
      BY <1>3 DEF Signed
    <2> HIDE DEF u, v, w
    <2>2. Sum(u, Rows) = Sum(v, Rows) - Sum(w, Rows)
      BY <2>1, ReportsFinite, SumMinus
    <2>3. QED
      BY <1>2, <2>2 DEF u, v, w
  <1>5. QED
    BY <1>2, <1>4

-----------------------------------------------------------------------------
(* The breakdown adds up.                                                  *)
BrokenBy == [g \in Rep!Groups |-> Rep!SumOf(Rep!InGroup(g))]

InGroups(G) == {r \in Rep!Of("expense") : table[r].cat \in G}

LEMMA GroupsAddUp ==
  ASSUME Rep!TypeOK
  PROVE  Sum(BrokenBy, Rep!Groups) = Expense
  <1> DEFINE W(G) == AmountWithin(InGroups(G))
             C == {G \in SUBSET Rep!Groups : Sum(BrokenBy, G) = Sum(W(G), Rows)}
  <1>1. \A G : InGroups(G) \in SUBSET Rep!Live
    BY OfLive DEF InGroups
  <1>2. {} \in C
    <2>1. \A r \in Rows : W({})[r] = 0
      BY DEF InGroups, AmountWithin
    <2> DEFINE w == W({})
    <2>2. \A r \in Rows : w[r] \in Int /\ w[r] = 0
      BY <2>1
    <2> HIDE DEF w
    <2>3. Sum(w, Rows) = Sum(w, {})
      BY <2>2, ReportsFinite, SumWithin
    <2>4. Sum(w, Rows) = 0 /\ Sum(BrokenBy, {}) = 0
      BY <2>3, SumEmpty
    <2>5. QED
      BY <2>4 DEF w
  <1>3. ASSUME NEW G \in SUBSET Rep!Groups, NEW g \in Rep!Groups, G \in C, g \notin G
        PROVE  G \union {g} \in C
    <2>1. IsFiniteSet(G) /\ \A h \in G \union {g} : BrokenBy[h] \in Int
      BY ReportsFinite, FS_Subset, OfLive, SumOfIs DEF BrokenBy
    <2>2. Sum(BrokenBy, G \union {g}) = BrokenBy[g] + Sum(BrokenBy, G)
      BY <1>3, <2>1, SumAdd
    <2>3. Rep!InGroup(g) \in SUBSET Rep!Live
      BY OfLive
    <2>4. BrokenBy[g] = Sum(AmountWithin(Rep!InGroup(g)), Rows)
      BY <2>3, SumOfIs DEF BrokenBy
    <2> DEFINE u == W(G)
               v == W(G \union {g})
               w == AmountWithin(Rep!InGroup(g))
    <2>5. \A r \in Rows : v[r] \in Int /\ w[r] \in Int /\ u[r] = v[r] - w[r]
      <3>1. \A r \in Rows : v[r] \in Nat /\ w[r] \in Nat
        BY <1>1, <2>3, TableTypes
      <3>2. \A r \in Rows : /\ r \in InGroups(G) => r \notin Rep!InGroup(g)
                            /\ r \in InGroups(G \union {g})
                                 <=> r \in InGroups(G) \/ r \in Rep!InGroup(g)
        BY <1>3 DEF InGroups, Rep!InGroup
      <3>3. ASSUME NEW r \in Rows
            PROVE  u[r] = v[r] - w[r]
        <4> DEFINE n == table[r].amount
        <4>1. /\ u[r] = IF r \in InGroups(G) THEN n ELSE 0
              /\ v[r] = IF r \in InGroups(G \union {g}) THEN n ELSE 0
              /\ w[r] = IF r \in Rep!InGroup(g) THEN n ELSE 0
          BY DEF AmountWithin
        <4>2. v[r] \in Int
          BY <3>1
        <4> HIDE DEF n, u, v, w
        <4>3. \/ u[r] = v[r] /\ w[r] = 0
              \/ u[r] = 0 /\ v[r] = w[r]
          BY <3>2, <4>1
        <4>4. QED
          BY <4>2, <4>3
      <3>4. QED
        BY <3>1, <3>3
    <2> HIDE DEF u, v, w
    <2>6. /\ Sum(u, Rows) = Sum(v, Rows) - Sum(w, Rows)
          /\ Sum(v, Rows) \in Int /\ Sum(w, Rows) \in Int
      <3>1. Sum(v, Rows) \in Int /\ Sum(w, Rows) \in Int
        BY <2>5, ReportsFinite, SumParts
      <3>2. Sum(u, Rows) = Sum(v, Rows) - Sum(w, Rows)
        BY <2>5, ReportsFinite, SumMinus
      <3>3. QED
        BY <3>1, <3>2
    <2>7. Sum(BrokenBy, G) = Sum(u, Rows)
      BY <1>3 DEF u
    <2>8. Sum(BrokenBy, G \union {g}) = Sum(v, Rows)
      BY <2>2, <2>4, <2>6, <2>7 DEF w
    <2>9. QED
      BY <2>8 DEF v
  <1>4. Rep!Groups \in C
    <2> HIDE DEF C
    <2>1. QED
      BY <1>2, <1>3, ReportsFinite, SetInduction
  <1>5. InGroups(Rep!Groups) = Rep!Of("expense")
    BY DEF InGroups, Rep!Of, Rep!Live, Rep!TypeOK, Rep!Row
  <1>6. QED
    BY <1>4, <1>5, SumsAre

-----------------------------------------------------------------------------
(* What a write moves.                                                     *)
InAmounts == AmountWithin(Rep!Of("income"))

OutAmounts == AmountWithin(Rep!Of("expense"))

SumsKnown ==
    /\ Income \in Nat /\ Expense \in Nat
    /\ Income = Sum(InAmounts, Rows)
    /\ Expense = Sum(OutAmounts, Rows)
    /\ Income - Expense = Sum(Signed, Rows)

LEMMA SumsOfAmounts == Rep!TypeOK => SumsKnown
  BY SumsAre DEF SumsKnown, InAmounts, OutAmounts

(* What a row says of its amount, whether it is one or none.               *)
AmountsKnown ==
    \A r \in Rows :
        /\ Rep!AmountIn(table, r) \in Nat
        /\ \/ InAmounts[r] = 0 /\ OutAmounts[r] = 0
           \/ InAmounts[r] = Rep!AmountIn(table, r) /\ OutAmounts[r] = 0
           \/ InAmounts[r] = 0 /\ OutAmounts[r] = Rep!AmountIn(table, r)
        /\ Signed[r] = InAmounts[r] - OutAmounts[r]

LEMMA AmountsAre == Rep!TypeOK => AmountsKnown
  BY ReadersAssumption
     DEF Rep!TypeOK, AmountsKnown, InAmounts, OutAmounts, AmountWithin, Rep!Of,
         Rep!Live, Rep!AmountIn, Rep!Row, Signed

LEMMA KnownNext == Rep!TypeOK' => SumsKnown' /\ AmountsKnown'
  BY SumsOfAmounts, AmountsAre, PTL

(* One row: how far what it adds can move.                                 *)
LEMMA RowMoves ==
  ASSUME NEW a, NEW b, NEW u, NEW o, NEW j, NEW p, a \in Nat, b \in Nat,
         (u = 0 /\ o = 0) \/ (u = a /\ o = 0) \/ (u = 0 /\ o = a),
         (j = 0 /\ p = 0) \/ (j = b /\ p = 0) \/ (j = 0 /\ p = b)
  PROVE  /\ u \in Int /\ o \in Int /\ j \in Int /\ p \in Int
         /\ j - u <= a + b /\ u - j <= a + b
         /\ p - o <= a + b /\ o - p <= a + b
         /\ (j - p) - (u - o) <= a + b /\ (u - o) - (j - p) <= a + b
  OBVIOUS

LEMMA ReportWritten ==
  ASSUME NEW S, NEW to
  PROVE  Rep!MapThenSumSet(LAMBDA r : Rep!AmountIn(table, r) + Rep!AmountIn(to, r), S)
           = Sum([r \in S |-> Rep!AmountIn(table, r) + Rep!AmountIn(to, r)], S)
  <1> DEFINE w == [r \in S |-> Rep!AmountIn(table, r) + Rep!AmountIn(to, r)]
             some(s) == CHOOSE x \in s : TRUE
             P(f) == f = [s \in SUBSET S |->
                            IF s = {} THEN 0 ELSE w[some(s)] + f[s \ {some(s)}]]
             Q(f) == f = [s \in SUBSET S |->
                            IF s = {} THEN 0
                            ELSE (Rep!AmountIn(table, some(s))
                                    + Rep!AmountIn(to, some(s)))
                                   + f[s \ {some(s)}]]
  <1>1. \A s \in SUBSET S : s # {} => some(s) \in S
    OBVIOUS
  <1> HIDE DEF some
  <1>2. \A s \in SUBSET S : s # {} =>
          w[some(s)] = Rep!AmountIn(table, some(s)) + Rep!AmountIn(to, some(s))
    BY <1>1
  <1> HIDE DEF w
  <1>3. \A f : P(f) <=> Q(f)
    BY <1>2
  <1> HIDE DEF P, Q
  <1>4. (CHOOSE f : P(f)) = (CHOOSE f : Q(f))
    BY <1>3, Zenon
  <1>5. Sum(w, S) = (CHOOSE f : P(f))[S]
    BY SumIs DEF P, some
  <1>6. Rep!MapThenSumSet(LAMBDA r : Rep!AmountIn(table, r) + Rep!AmountIn(to, r), S)
          = (CHOOSE f : Q(f))[S]
    BY DEF Rep!MapThenSumSet, Rep!MapThenFoldSet, Q, some
  <1>7. QED
    BY <1>4, <1>5, <1>6, Zenon DEF w

Written(S) ==
    Sum([r \in S |-> Rep!AmountIn(table, r) + Rep!AmountIn(table', r)], S)

LEMMA WritesMove ==
  ASSUME Rep!TypeOK, Rep!TypeOK', NEW S \in SUBSET Rows,
         \A r \in Rows : r \notin S => table'[r] = table[r]
  PROVE  /\ Written(S) \in Nat
         /\ Income' - Income <= Written(S) /\ Income - Income' <= Written(S)
         /\ Expense' - Expense <= Written(S) /\ Expense - Expense' <= Written(S)
         /\ Income' - Expense' - (Income - Expense) <= Written(S)
         /\ Income - Expense - (Income' - Expense') <= Written(S)
         /\ Income' \in Nat /\ Expense' \in Nat
  <1> DEFINE v == [r \in S |-> Rep!AmountIn(table, r) + Rep!AmountIn(table', r)]
             d == [r \in Rows |-> IF r \in S THEN v[r] ELSE 0]
  <1>1. /\ \A r \in Rows :
             /\ Rep!AmountIn(table, r) \in Nat
             /\ \/ InAmounts[r] = 0 /\ OutAmounts[r] = 0
                \/ InAmounts[r] = Rep!AmountIn(table, r) /\ OutAmounts[r] = 0
                \/ InAmounts[r] = 0 /\ OutAmounts[r] = Rep!AmountIn(table, r)
             /\ Signed[r] = InAmounts[r] - OutAmounts[r]
        /\ \A r \in Rows :
             /\ Rep!AmountIn(table', r) \in Nat
             /\ \/ InAmounts'[r] = 0 /\ OutAmounts'[r] = 0
                \/ InAmounts'[r] = Rep!AmountIn(table', r) /\ OutAmounts'[r] = 0
                \/ InAmounts'[r] = 0 /\ OutAmounts'[r] = Rep!AmountIn(table', r)
             /\ Signed'[r] = InAmounts'[r] - OutAmounts'[r]
    BY AmountsAre, KnownNext DEF AmountsKnown
  <1>2. \A r \in Rows : r \notin S => /\ InAmounts'[r] = InAmounts[r]
                                      /\ OutAmounts'[r] = OutAmounts[r]
    BY DEF InAmounts, OutAmounts, AmountWithin, Rep!Of, Rep!Live
  <1>3. \A r \in Rows : d[r] = IF r \in S THEN Rep!AmountIn(table, r)
                                                 + Rep!AmountIn(table', r)
                               ELSE 0
    OBVIOUS
  <1>4. Written(S) = Sum(d, Rows) /\ Sum(d, Rows) \in Nat
    <2>1. \A r \in S : d[r] = v[r] /\ v[r] \in Nat
      BY <1>1
    <2>2. \A r \in Rows : d[r] \in Nat /\ (r \notin S => d[r] = 0)
      BY <1>1, <1>3
    <2>3. IsFiniteSet(S) /\ IsFiniteSet(Rows)
      BY ReportsFinite, FS_Subset
    <2>4. Written(S) = Sum(v, S)
      BY DEF Written
    <2> HIDE DEF d, v
    <2>5. Sum(d, Rows) \in Nat
      BY <2>2, <2>3, SumNat
    <2>6. Sum(v, S) = Sum(d, S)
      BY <2>1, <2>3, SumSame
    <2>7. Sum(d, Rows) = Sum(d, S)
      BY <2>2, <2>3, SumWithin
    <2>8. QED
      BY <2>4, <2>5, <2>6, <2>7
  <1> HIDE DEF d, v
  <1>5. \A r \in Rows :
          /\ InAmounts[r] \in Int /\ InAmounts'[r] \in Int
          /\ OutAmounts[r] \in Int /\ OutAmounts'[r] \in Int
          /\ Signed[r] \in Int /\ Signed'[r] \in Int /\ d[r] \in Int
          /\ InAmounts'[r] - InAmounts[r] <= d[r]
          /\ InAmounts[r] - InAmounts'[r] <= d[r]
          /\ OutAmounts'[r] - OutAmounts[r] <= d[r]
          /\ OutAmounts[r] - OutAmounts'[r] <= d[r]
          /\ Signed'[r] - Signed[r] <= d[r]
          /\ Signed[r] - Signed'[r] <= d[r]
    <2> SUFFICES ASSUME NEW r \in Rows
                 PROVE  /\ InAmounts[r] \in Int /\ InAmounts'[r] \in Int
                        /\ OutAmounts[r] \in Int /\ OutAmounts'[r] \in Int
                        /\ Signed[r] \in Int /\ Signed'[r] \in Int /\ d[r] \in Int
                        /\ InAmounts'[r] - InAmounts[r] <= d[r]
                        /\ InAmounts[r] - InAmounts'[r] <= d[r]
                        /\ OutAmounts'[r] - OutAmounts[r] <= d[r]
                        /\ OutAmounts[r] - OutAmounts'[r] <= d[r]
                        /\ Signed'[r] - Signed[r] <= d[r]
                        /\ Signed[r] - Signed'[r] <= d[r]
      OBVIOUS
    <2> DEFINE a == Rep!AmountIn(table, r)
               b == Rep!AmountIn(table', r)
               u == InAmounts[r]
               o == OutAmounts[r]
               j == InAmounts'[r]
               p == OutAmounts'[r]
               e == d[r]
               m == Signed[r]
               n == Signed'[r]
    <2>1. /\ a \in Nat /\ b \in Nat /\ m = u - o /\ n = j - p
          /\ (u = 0 /\ o = 0) \/ (u = a /\ o = 0) \/ (u = 0 /\ o = a)
          /\ (j = 0 /\ p = 0) \/ (j = b /\ p = 0) \/ (j = 0 /\ p = b)
      BY <1>1
    <2>2. IF r \in S THEN e = a + b ELSE j = u /\ p = o /\ e = 0
      BY <1>2, <1>3
    <2> HIDE DEF a, b, u, j, o, p, e, m, n
    <2>3. /\ u \in Int /\ o \in Int /\ j \in Int /\ p \in Int
          /\ j - u <= a + b /\ u - j <= a + b
          /\ p - o <= a + b /\ o - p <= a + b
          /\ (j - p) - (u - o) <= a + b /\ (u - o) - (j - p) <= a + b
      BY <2>1, RowMoves
    <2>4. /\ u \in Int /\ j \in Int /\ o \in Int /\ p \in Int
          /\ m \in Int /\ n \in Int /\ e \in Int
          /\ j - u <= e /\ u - j <= e /\ p - o <= e /\ o - p <= e
          /\ n - m <= e /\ m - n <= e
      BY <2>1, <2>2, <2>3
    <2>5. QED
      BY <2>4 DEF a, b, u, j, o, p, e, m, n
  <1>6. /\ Sum(InAmounts', Rows) - Sum(InAmounts, Rows) <= Sum(d, Rows)
        /\ Sum(InAmounts, Rows) - Sum(InAmounts', Rows) <= Sum(d, Rows)
    BY <1>5, ReportsFinite, SumApart
  <1>7. /\ Sum(OutAmounts', Rows) - Sum(OutAmounts, Rows) <= Sum(d, Rows)
        /\ Sum(OutAmounts, Rows) - Sum(OutAmounts', Rows) <= Sum(d, Rows)
    BY <1>5, ReportsFinite, SumApart
  <1>8. /\ Sum(Signed', Rows) - Sum(Signed, Rows) <= Sum(d, Rows)
        /\ Sum(Signed, Rows) - Sum(Signed', Rows) <= Sum(d, Rows)
    BY <1>5, ReportsFinite, SumApart
  <1>9. /\ Income = Sum(InAmounts, Rows) /\ Expense = Sum(OutAmounts, Rows)
        /\ Income - Expense = Sum(Signed, Rows)
    BY SumsOfAmounts DEF SumsKnown
  <1>10. /\ Income' = Sum(InAmounts', Rows) /\ Expense' = Sum(OutAmounts', Rows)
         /\ Income' - Expense' = Sum(Signed', Rows)
         /\ Income' \in Nat /\ Expense' \in Nat
    BY KnownNext DEF SumsKnown
  <1>11. QED
    BY <1>4, <1>6, <1>7, <1>8, <1>9, <1>10

(* No further apart than what was written.                                 *)
Near(a, b) == a - b <= moved /\ b - a <= moved

(* What the statements found is near what they would find now, and what    *)
(* the last one found is near what the one before it did.                  *)
SummaryInv ==
    /\ Rep!TypeOK /\ DOMAIN table = Rows
    /\ summary.pc = "expense" => Near(summary.income, Income)
    /\ summary.pc = "category" => Near(summary.expense, Expense)
    /\ summary.pc \in {"category", "done"} =>
         Near(summary.income - summary.expense, Income - Expense)
    /\ summary.pc = "done" =>
         Near(Sum(summary.by, Rep!Groups), summary.expense)

LEMMA BrokenDownIs == Rep!BrokenDown = Sum(summary.by, Rep!Groups)
  BY DEF Rep!BrokenDown, Rep!MapThenSumSet, Rep!MapThenFoldSet, Sum,
         MapThenSumSet, MapThenFoldSet

LEMMA SummaryTypes ==
  ASSUME Rep!TypeOK
  PROVE  /\ summary.pc \in {"idle", "expense", "category", "done"}
         /\ summary.income \in Nat /\ summary.expense \in Nat
         /\ summary.by \in [Rep!Groups -> Nat]
         /\ moved \in Nat /\ moved <= MaxMoved /\ MaxMoved \in Nat
         /\ summary = [pc |-> summary.pc, income |-> summary.income,
                       expense |-> summary.expense, by |-> summary.by]
         /\ Sum(summary.by, Rep!Groups) \in Nat
  <1>1. /\ summary.pc \in {"idle", "expense", "category", "done"}
        /\ summary.income \in Nat /\ summary.expense \in Nat
        /\ summary.by \in [Rep!Groups -> Nat]
        /\ moved \in Nat /\ moved <= MaxMoved /\ MaxMoved \in Nat
        /\ summary = [pc |-> summary.pc, income |-> summary.income,
                      expense |-> summary.expense, by |-> summary.by]
    BY ReadersAssumption DEF Rep!TypeOK
  <1>2. Sum(summary.by, Rep!Groups) \in Nat
    <2>1. \A g \in Rep!Groups : summary.by[g] \in Nat
      BY <1>1
    <2>2. QED
      BY <2>1, ReportsFinite, SumNat
  <1>3. QED
    BY <1>1, <1>2

LEMMA SummaryInvInit == Rep!Init => SummaryInv
  <1> SUFFICES ASSUME Rep!Init
               PROVE  SummaryInv
    OBVIOUS
  <1>1. /\ table = [r \in Rows |-> None] /\ moved = 0
        /\ summary = [pc |-> "idle", income |-> 0, expense |-> 0,
                      by |-> [g \in Rep!Groups |-> 0]]
    BY DEF Rep!Init, Rep!Nothing
  <1>2. Rep!TypeOK
    BY <1>1, ReadersAssumption DEF Rep!TypeOK
  <1>3. summary.pc = "idle" /\ DOMAIN table = Rows
    BY <1>1
  <1>4. QED
    BY <1>2, <1>3 DEF SummaryInv

(* The statements.                                                         *)
LEMMA Reading ==
  ASSUME SummaryInv, Rep!TypeOK', UNCHANGED <<table, moved>>
  PROVE  Income' = Income /\ Expense' = Expense
  <1>1. InAmounts' = InAmounts /\ OutAmounts' = OutAmounts
    BY DEF InAmounts, OutAmounts, AmountWithin, Rep!Of, Rep!Live
  <1>2. SumsKnown /\ SumsKnown'
    BY SumsOfAmounts, KnownNext DEF SummaryInv
  <1>3. /\ Income = Sum(InAmounts, Rows) /\ Expense = Sum(OutAmounts, Rows)
        /\ Income' = Sum(InAmounts', Rows) /\ Expense' = Sum(OutAmounts', Rows)
    BY <1>2 DEF SumsKnown
  <1>4. QED
    BY <1>1, <1>3

LEMMA IncomeRead == SummaryInv /\ Rep!SumIncome => SummaryInv'
  <1> SUFFICES ASSUME SummaryInv, Rep!SumIncome
               PROVE  SummaryInv'
    OBVIOUS
  <1>1. /\ summary' = [summary EXCEPT !.pc = "expense", !.income = Income]
        /\ UNCHANGED <<table, moved>>
    BY DEF Rep!SumIncome, Income
  <1>2. Income \in Nat /\ Expense \in Nat
    BY SumsAre DEF SummaryInv
  <1>3. summary' = [pc |-> "expense", income |-> Income,
                    expense |-> summary.expense, by |-> summary.by]
    BY <1>1, SummaryTypes DEF SummaryInv
  <1>4. Rep!TypeOK'
    BY <1>1, <1>2, <1>3, SummaryTypes DEF SummaryInv, Rep!TypeOK
  <1>5. Income' = Income /\ Expense' = Expense
    BY <1>1, <1>4, Reading
  <1>6. summary'.pc = "expense" /\ summary'.income = Income'
    BY <1>5, <1>3
  <1>7. moved' = moved /\ moved \in Nat
    BY <1>1, SummaryTypes DEF SummaryInv
  <1>8. QED
    BY <1>1, <1>2, <1>4, <1>5, <1>6, <1>7 DEF SummaryInv, Near

LEMMA ExpenseRead == SummaryInv /\ Rep!SumExpense => SummaryInv'
  <1> SUFFICES ASSUME SummaryInv, Rep!SumExpense
               PROVE  SummaryInv'
    OBVIOUS
  <1>1. /\ summary.pc = "expense"
        /\ summary' = [summary EXCEPT !.pc = "category", !.expense = Expense]
        /\ UNCHANGED <<table, moved>>
    BY DEF Rep!SumExpense, Expense
  <1>2. Income \in Nat /\ Expense \in Nat
    BY SumsAre DEF SummaryInv
  <1>3. summary' = [pc |-> "category", income |-> summary.income,
                    expense |-> Expense, by |-> summary.by]
    BY <1>1, SummaryTypes DEF SummaryInv
  <1>4. Rep!TypeOK'
    BY <1>1, <1>2, <1>3, SummaryTypes DEF SummaryInv, Rep!TypeOK
  <1>5. Income' = Income /\ Expense' = Expense
    BY <1>1, <1>4, Reading
  <1>6. /\ summary'.pc = "category" /\ summary'.expense = Expense'
        /\ summary'.income = summary.income
    BY <1>5, <1>3
  <1>7. moved' = moved /\ moved \in Nat /\ summary.income \in Nat
    BY <1>1, SummaryTypes DEF SummaryInv
  <1>8. Near(summary.income, Income)
    BY <1>1 DEF SummaryInv
  <1>9. QED
    BY <1>1, <1>2, <1>4, <1>5, <1>6, <1>7, <1>8 DEF SummaryInv, Near

LEMMA BreakdownRead == SummaryInv /\ Rep!SumByCategory => SummaryInv'
  <1> SUFFICES ASSUME SummaryInv, Rep!SumByCategory
               PROVE  SummaryInv'
    OBVIOUS
  <1>1. /\ summary.pc = "category"
        /\ summary' = [summary EXCEPT !.pc = "done", !.by = BrokenBy]
        /\ UNCHANGED <<table, moved>>
    BY DEF Rep!SumByCategory, BrokenBy
  <1>2. Income \in Nat /\ Expense \in Nat
    BY SumsAre DEF SummaryInv
  <1>3. summary' = [pc |-> "done", income |-> summary.income,
                    expense |-> summary.expense, by |-> BrokenBy]
    BY <1>1, SummaryTypes DEF SummaryInv
  <1>4. BrokenBy \in [Rep!Groups -> Nat] /\ Sum(BrokenBy, Rep!Groups) = Expense
    <2>1. \A g \in Rep!Groups : Rep!SumOf(Rep!InGroup(g)) \in Nat
      BY OfLive, SumOfIs DEF SummaryInv
    <2>2. QED
      BY <2>1, GroupsAddUp DEF SummaryInv, BrokenBy
  <1> HIDE DEF BrokenBy
  <1>5. Rep!TypeOK'
    BY <1>1, <1>3, <1>4, SummaryTypes DEF SummaryInv, Rep!TypeOK, Rep!Groups
  <1>6. Income' = Income /\ Expense' = Expense
    BY <1>1, <1>5, Reading
  <1>7. /\ summary'.pc = "done" /\ summary'.expense = summary.expense
        /\ summary'.income = summary.income /\ summary'.by = BrokenBy
    BY <1>3
  <1>8. moved' = moved /\ moved \in Nat /\ summary.income \in Nat
        /\ summary.expense \in Nat
    BY <1>1, SummaryTypes DEF SummaryInv
  <1>9. /\ Near(summary.expense, Expense)
        /\ Near(summary.income - summary.expense, Income - Expense)
    BY <1>1 DEF SummaryInv
  <1>10. Sum(summary.by, Rep!Groups)' = Expense
    BY <1>4, <1>7
  <1>11. QED
    BY <1>1, <1>2, <1>5, <1>6, <1>7, <1>8, <1>9, <1>10 DEF SummaryInv, Near, Rep!Groups

(* The writes.                                                             *)
LEMMA CommittedIs ==
  ASSUME NEW to, NEW S, Rep!Committed(to, S)
  PROVE  /\ table' = to /\ summary' = summary
         /\ moved' = IF summary.pc = "idle" THEN 0 ELSE moved + Written(S)
         /\ moved' <= MaxMoved
  <1>1. /\ table' = to /\ summary' = summary /\ moved' <= MaxMoved
        /\ moved' = IF summary.pc = "idle" THEN 0
                    ELSE moved + Rep!MapThenSumSet(LAMBDA r :
                                   Rep!AmountIn(table, r) + Rep!AmountIn(to, r), S)
    BY DEF Rep!Committed
  <1>2. Rep!MapThenSumSet(LAMBDA r : Rep!AmountIn(table, r) + Rep!AmountIn(to, r), S)
          = Sum([r \in S |-> Rep!AmountIn(table, r) + Rep!AmountIn(to, r)], S)
    BY ReportWritten
  <1>3. Written(S)
          = Sum([r \in S |-> Rep!AmountIn(table, r) + Rep!AmountIn(to, r)], S)
    BY <1>1 DEF Written
  <1>4. QED
    BY <1>1, <1>2, <1>3, Zenon

LEMMA RowsWritten ==
  ASSUME SummaryInv, NEW to, NEW S \in SUBSET Rows, Rep!Committed(to, S),
         \A r \in Rows : to[r] = None \/ to[r] \in Rep!Row, DOMAIN to = Rows,
         \A r \in Rows : r \notin S => to[r] = table[r]
  PROVE  SummaryInv'
  <1>1. /\ table' = to /\ summary' = summary
        /\ moved' = IF summary.pc = "idle" THEN 0 ELSE moved + Written(S)
        /\ moved' <= MaxMoved
    BY CommittedIs
  <1>2. /\ moved \in Nat /\ MaxMoved \in Nat
        /\ summary.income \in Nat /\ summary.expense \in Nat
        /\ Sum(summary.by, Rep!Groups) \in Nat
    BY SummaryTypes DEF SummaryInv
  <1>3. Written(S) \in Nat
    <2>1. \A r \in S : Rep!AmountIn(table, r) \in Nat /\ Rep!AmountIn(to, r) \in Nat
      BY ReadersAssumption DEF SummaryInv, Rep!TypeOK, Rep!AmountIn, Rep!Row
    <2> DEFINE w == [r \in S |-> Rep!AmountIn(table, r) + Rep!AmountIn(to, r)]
    <2>2. Written(S) = Sum(w, S)
      BY <1>1 DEF Written
    <2>3. \A r \in S : w[r] \in Nat
      BY <2>1
    <2>4. IsFiniteSet(S)
      BY ReportsFinite, FS_Subset
    <2> HIDE DEF w
    <2>5. QED
      BY <2>2, <2>3, <2>4, SumNat
  <1>4. moved' \in 0 .. MaxMoved
    BY <1>1, <1>2, <1>3
  <1>5. Rep!TypeOK'
    BY <1>1, <1>4 DEF SummaryInv, Rep!TypeOK
  <1>6. /\ Income \in Nat /\ Expense \in Nat /\ Income' \in Nat /\ Expense' \in Nat
        /\ Income' - Income <= Written(S) /\ Income - Income' <= Written(S)
        /\ Expense' - Expense <= Written(S) /\ Expense - Expense' <= Written(S)
        /\ Income' - Expense' - (Income - Expense) <= Written(S)
        /\ Income - Expense - (Income' - Expense') <= Written(S)
    BY <1>1, <1>5, WritesMove, SumsAre DEF SummaryInv
  <1>7. CASE summary.pc = "idle"
    BY <1>1, <1>5, <1>7 DEF SummaryInv
  <1>8. CASE summary.pc # "idle"
    <2>1. moved' = moved + Written(S)
      BY <1>1, <1>8
    <2>2. ASSUME NEW a, NEW b, NEW c, a \in Int, b \in Int, c \in Int, Near(a, b),
                 c - b <= Written(S), b - c <= Written(S)
          PROVE  a - c <= moved + Written(S) /\ c - a <= moved + Written(S)
      BY <1>2, <1>3, <2>2 DEF Near
    <2> DEFINE u == summary.income
               e == summary.expense
               k == Sum(summary.by, Rep!Groups)
    <2>3. summary.pc = "expense" =>
            u - Income' <= moved + Written(S) /\ Income' - u <= moved + Written(S)
      BY <1>2, <1>6, <2>2 DEF SummaryInv
    <2>4. summary.pc = "category" =>
            e - Expense' <= moved + Written(S) /\ Expense' - e <= moved + Written(S)
      BY <1>2, <1>6, <2>2 DEF SummaryInv
    <2>5. summary.pc \in {"category", "done"} =>
            /\ u - e - (Income' - Expense') <= moved + Written(S)
            /\ Income' - Expense' - (u - e) <= moved + Written(S)
      <3>1. u - e \in Int /\ Income - Expense \in Int /\ Income' - Expense' \in Int
        BY <1>2, <1>6
      <3>2. QED
        BY <1>6, <2>2, <3>1 DEF SummaryInv
    <2>6. summary.pc = "done" =>
            k - e <= moved + Written(S) /\ e - k <= moved + Written(S)
      <3>1. e - e <= Written(S)
        BY <1>2, <1>3
      <3>2. QED
        BY <1>2, <2>2, <3>1 DEF SummaryInv
    <2>7. /\ summary'.pc = summary.pc /\ summary'.income = u
          /\ summary'.expense = e /\ Sum(summary.by, Rep!Groups)' = k
      BY <1>1 DEF Rep!Groups
    <2> HIDE DEF u, e, k
    <2>8. QED
      BY <1>1, <1>5, <2>1, <2>3, <2>4, <2>5, <2>6, <2>7 DEF SummaryInv, Near
  <1>9. QED
    BY <1>7, <1>8

LEMMA SummaryInvStep == SummaryInv /\ [Rep!Next]_repVars => SummaryInv'
  <1> SUFFICES ASSUME SummaryInv, [Rep!Next]_repVars
               PROVE  SummaryInv'
    OBVIOUS
  <1>1. CASE Rep!Ends
    <2>1. /\ summary' = Rep!Nothing /\ moved' = 0 /\ table' = table
      BY <1>1 DEF Rep!Ends
    <2>2. Rep!TypeOK'
      BY <2>1, SummaryTypes DEF SummaryInv, Rep!TypeOK, Rep!Nothing
    <2>3. summary'.pc = "idle"
      BY <2>1 DEF Rep!Nothing
    <2>4. QED
      BY <2>1, <2>2, <2>3 DEF SummaryInv
  <1>2. ASSUME NEW r \in Rows, Rep!Write(r)
        PROVE  SummaryInv'
    <2>1. PICK row \in Rep!Row \union {None} :
            Rep!Committed([table EXCEPT ![r] = row], {r})
      BY <1>2 DEF Rep!Write
    <2> DEFINE to == [table EXCEPT ![r] = row]
    <2>2. /\ \A q \in Rows : to[q] = None \/ to[q] \in Rep!Row
          /\ \A q \in Rows : q \notin {r} => to[q] = table[q]
          /\ DOMAIN to = Rows
      BY DEF SummaryInv, Rep!TypeOK
    <2>3. Rep!Committed(to, {r})
      BY <2>1
    <2> HIDE DEF to
    <2>4. QED
      BY <2>2, <2>3, RowsWritten
  <1>3. ASSUME NEW r \in Rows, NEW q \in Rows, Rep!Transfer(r, q)
        PROVE  SummaryInv'
    <2> DEFINE leg(t, a) == [type |-> t, amount |-> a, cat |-> NoCat]
    <2>1. PICK a \in Amounts :
            Rep!Committed([table EXCEPT ![r] = leg("expense", a),
                                        ![q] = leg("income", a)], {r, q})
      BY <1>3 DEF Rep!Transfer
    <2> DEFINE to == [table EXCEPT ![r] = leg("expense", a),
                                   ![q] = leg("income", a)]
    <2>2. leg("expense", a) \in Rep!Row /\ leg("income", a) \in Rep!Row
      BY DEF Rep!Row, Rep!Groups
    <2> HIDE DEF leg
    <2>3. /\ \A p \in Rows : to[p] = None \/ to[p] \in Rep!Row
          /\ \A p \in Rows : p \notin {r, q} => to[p] = table[p]
          /\ DOMAIN to = Rows
      <3>1. \A p \in Rows : to[p] = IF p = q THEN leg("income", a)
                                    ELSE IF p = r THEN leg("expense", a)
                                    ELSE table[p]
        BY DEF SummaryInv
      <3>2. DOMAIN to = Rows
        BY DEF SummaryInv
      <3> HIDE DEF to
      <3>3. QED
        BY <2>2, <3>1, <3>2 DEF SummaryInv, Rep!TypeOK
    <2>4. Rep!Committed(to, {r, q})
      BY <2>1
    <2> HIDE DEF to
    <2>5. QED
      BY <2>3, <2>4, RowsWritten
  <1>4. CASE UNCHANGED repVars
    <2>1. UNCHANGED <<table, summary, moved>>
      BY <1>4 DEF repVars
    <2>2. Rep!TypeOK'
      BY <2>1 DEF SummaryInv, Rep!TypeOK
    <2>3. Income' = Income /\ Expense' = Expense
      BY <2>1, <2>2, Reading
    <2>4. Sum(summary.by, Rep!Groups)' = Sum(summary.by, Rep!Groups)
      BY <2>1 DEF Rep!Groups
    <2>5. QED
      BY <2>1, <2>2, <2>3, <2>4 DEF SummaryInv, Near
  <1>5. QED
    BY <1>1, <1>2, <1>3, <1>4, IncomeRead, ExpenseRead, BreakdownRead DEF Rep!Next

LEMMA SummaryDone == SummaryInv => Rep!TornOnlyByWrites
  <1> SUFFICES ASSUME SummaryInv, summary.pc = "done"
               PROVE  Rep!TornOnlyByWrites
    BY DEF Rep!TornOnlyByWrites, Rep!Answered
  <1>1. /\ moved \in Nat /\ summary.income \in Nat /\ summary.expense \in Nat
        /\ Sum(summary.by, Rep!Groups) \in Nat
        /\ Income \in Nat /\ Expense \in Nat
    BY SummaryTypes, SumsAre DEF SummaryInv
  <1>2. /\ Near(summary.income - summary.expense, Income - Expense)
        /\ Near(Sum(summary.by, Rep!Groups), summary.expense)
    BY DEF SummaryInv
  <1>3. /\ Rep!Apart(Rep!BrokenDown, summary.expense) <= moved
        /\ Rep!Apart(Rep!NetSavings, Income - Expense) <= moved
    <2> DEFINE k == Sum(summary.by, Rep!Groups)
    <2>1. Rep!BrokenDown = k
      BY BrokenDownIs
    <2> HIDE DEF k
    <2>2. QED
      BY <1>1, <1>2, <2>1 DEF Rep!Apart, Rep!NetSavings, Near, k
  <1>4. QED
    BY <1>3 DEF Rep!TornOnlyByWrites, Income, Expense

(* For any number of rows and categories: a summary disagrees with itself, *)
(* and its savings with the rows, by no more than was written since it     *)
(* began.                                                                  *)
THEOREM SummaryTornOnlyByWrites == MCSpec => []TornOnlyByWrites
  <1>1. MCInit => SummaryInv
    BY SummaryInvInit DEF MCInit
  <1>2. SummaryInv /\ [MCNext]_allVars => SummaryInv'
    <2>1. [MCNext]_allVars => [Rep!Next]_repVars
      BY DEF MCNext, allVars, repVars
    <2>2. QED
      BY <2>1, SummaryInvStep
  <1>3. SummaryInv => TornOnlyByWrites
    BY SummaryDone DEF TornOnlyByWrites
  <1>4. QED
    BY <1>1, <1>2, <1>3, PTL DEF MCSpec

-----------------------------------------------------------------------------
(* The shares of the categories in the expenses.                           *)

LEMMA Spreads ==
  ASSUME NEW c, NEW a, NEW b, a \in Int, b \in Int, c \in Int
  PROVE  /\ c * a \in Int /\ c * b \in Int
         /\ c * (a + b) = c * a + c * b
  OBVIOUS

LEMMA SumScaled ==
  ASSUME NEW S, IsFiniteSet(S), NEW c, c \in Int, NEW w, NEW v,
         \A x \in S : w[x] \in Int /\ v[x] = c * w[x]
  PROVE  /\ Sum(w, S) \in Int
         /\ Sum(v, S) = c * Sum(w, S)
  <1> DEFINE C == {s \in SUBSET S : Sum(v, s) = c * Sum(w, s)}
  <1>1. {} \in C
    <2>1. c * 0 = 0
      OBVIOUS
    <2>2. Sum(v, {}) = 0 /\ Sum(w, {}) = 0
      BY SumEmpty
    <2>3. QED
      BY <2>1, <2>2
  <1>2. ASSUME NEW s \in SUBSET S, NEW x \in S, s \in C, x \notin s
        PROVE  s \union {x} \in C
    <2>1. \A y \in S : v[y] \in Int
      BY Spreads
    <2>2. /\ IsFiniteSet(s)
          /\ \A y \in s \union {x} : w[y] \in Int /\ v[y] \in Int
          /\ w[x] \in Int /\ v[x] = c * w[x]
      BY <2>1, FS_Subset
    <2>3. Sum(w, s) \in Int /\ Sum(w, s \union {x}) = w[x] + Sum(w, s)
      BY <1>2, <2>2, SumAdd
    <2>4. Sum(v, s \union {x}) = v[x] + Sum(v, s)
      BY <1>2, <2>2, SumAdd
    <2>5. Sum(v, s) = c * Sum(w, s)
      BY <1>2
    <2>6. c * (w[x] + Sum(w, s)) = c * w[x] + c * Sum(w, s)
      BY <2>2, <2>3, Spreads
    <2>7. Sum(v, s \union {x}) = c * Sum(w, s \union {x})
      BY <2>2, <2>3, <2>4, <2>5, <2>6
    <2>8. QED
      BY <2>7
  <1>3. S \in C
    <2> HIDE DEF C
    <2>1. QED
      BY <1>1, <1>2, SetInduction
  <1>4. QED
    BY <1>3, SumParts

LEMMA SumOnes ==
  ASSUME NEW S, IsFiniteSet(S), NEW w, \A x \in S : w[x] = 1
  PROVE  Sum(w, S) = Cardinality(S)
  <1> DEFINE C == {s \in SUBSET S : Sum(w, s) = Cardinality(s)}
  <1>1. {} \in C
    BY SumEmpty, FS_EmptySet
  <1>2. ASSUME NEW s \in SUBSET S, NEW x \in S, s \in C, x \notin s
        PROVE  s \union {x} \in C
    <2>1. IsFiniteSet(s) /\ w[x] = 1 /\ \A y \in s \union {x} : w[y] \in Int
      BY FS_Subset
    <2>2. Sum(w, s) \in Int /\ Sum(w, s \union {x}) = w[x] + Sum(w, s)
      BY <1>2, <2>1, SumAdd
    <2>3. Cardinality(s \union {x}) = Cardinality(s) + 1
      BY <1>2, <2>1, FS_AddElement
    <2>4. Sum(w, s) = Cardinality(s)
      BY <1>2
    <2>5. Sum(w, s \union {x}) = Cardinality(s \union {x})
      BY <2>1, <2>2, <2>3, <2>4
    <2>6. QED
      BY <2>5
  <1>3. S \in C
    <2> HIDE DEF C
    <2>1. QED
      BY <1>1, <1>2, SetInduction
  <1>4. QED
    BY <1>3

(* Rounding to the nearest, and back.                                      *)
LEMMA RoundsDown ==
  ASSUME NEW x \in Int, NEW d \in Int, d > 0
  PROVE  /\ x \div d \in Int
         /\ d * (x \div d) <= x /\ x < d * (x \div d) + d
  OBVIOUS

LEMMA Nearest ==
  ASSUME NEW b, NEW e, b \in Int, e \in Int, e > 0
  PROVE  LET p == (20000 * b + e) \div (2 * e)
         IN  /\ p \in Int
             /\ (2 * e) * p - 20000 * b <= e
             /\ 20000 * b - (2 * e) * p <= e
  <1> DEFINE x == 20000 * b + e
             d == 2 * e
             p == x \div d
  <1>1. x \in Int /\ d \in Int /\ d > 0 /\ d = e + e /\ x - e = 20000 * b
    OBVIOUS
  <1> HIDE DEF x, d
  <1>2. p \in Int /\ d * p <= x /\ x < d * p + d /\ d * p \in Int
    BY <1>1, RoundsDown
  <1> HIDE DEF p
  <1>3. p \in Int /\ d * p - (x - e) <= e /\ (x - e) - d * p <= e
    BY <1>1, <1>2
  <1>4. QED
    BY <1>1, <1>3 DEF x, d, p

LEMMA Cancels ==
  ASSUME NEW e, NEW a, NEW b, e \in Int, e > 0, a \in Int, b \in Int,
         e * a <= e * b
  PROVE  a <= b
  <1> SUFFICES ASSUME a >= b + 1
               PROVE  FALSE
    OBVIOUS
  <1>1. PICK k \in Nat : a = b + 1 + k
    <2>1. a - b - 1 \in Nat /\ a = b + 1 + (a - b - 1)
      OBVIOUS
    <2>2. QED
      BY <2>1
  <1>2. e * a = e * b + e + e * k
    BY <1>1
  <1>3. e * k >= 0 /\ e * k \in Int /\ e * b \in Int
    OBVIOUS
  <1>4. QED
    BY <1>2, <1>3

LEMMA SharesSum ==
  Rep!MapThenSumSet(Rep!Percentage, Rep!Groups)
    = Sum([g \in Rep!Groups |-> Rep!Percentage(g)], Rep!Groups)
  <1> DEFINE S == Rep!Groups
             w == [g \in S |-> Rep!Percentage(g)]
             some(s) == CHOOSE x \in s : TRUE
             P(f) == f = [s \in SUBSET S |->
                            IF s = {} THEN 0 ELSE w[some(s)] + f[s \ {some(s)}]]
             Q(f) == f = [s \in SUBSET S |->
                            IF s = {} THEN 0
                            ELSE Rep!Percentage(some(s)) + f[s \ {some(s)}]]
  <1>1. \A s \in SUBSET S : s # {} => some(s) \in S
    OBVIOUS
  <1> HIDE DEF some
  <1>2. \A s \in SUBSET S : s # {} => w[some(s)] = Rep!Percentage(some(s))
    BY <1>1
  <1> HIDE DEF w, S
  <1>3. \A f : P(f) <=> Q(f)
    BY <1>2
  <1> HIDE DEF P, Q
  <1>4. (CHOOSE f : P(f)) = (CHOOSE f : Q(f))
    BY <1>3, Zenon
  <1>5. Sum(w, S) = (CHOOSE f : P(f))[S]
    BY SumIs DEF P, some
  <1>6. Rep!MapThenSumSet(Rep!Percentage, S) = (CHOOSE f : Q(f))[S]
    BY DEF Rep!MapThenSumSet, Rep!MapThenFoldSet, Q, some
  <1>7. QED
    BY <1>4, <1>5, <1>6, Zenon DEF w, S

LEMMA SharesDone == Rep!TypeOK => Rep!SharesAddUp
  <1> SUFFICES ASSUME Rep!TypeOK, summary.expense > 0,
                      Rep!BrokenDown = summary.expense
               PROVE  2 * Rep!Apart(Rep!MapThenSumSet(Rep!Percentage, Rep!Groups),
                                    10000) <= Rep!Cardinality(Rep!Groups)
    BY DEF Rep!SharesAddUp
  <1> DEFINE e == summary.expense
             S == Rep!Groups
             p == [g \in S |-> Rep!Percentage(g)]
             b == summary.by
             v == [g \in S |-> (2 * e) * p[g]]
             w == [g \in S |-> 20000 * b[g]]
             one == [g \in S |-> 1]
             d == [g \in S |-> e * one[g]]
  <1>1. e \in Int /\ e > 0 /\ b \in [S -> Nat] /\ Sum(b, S) = e
        /\ IsFiniteSet(S)
    BY SummaryTypes, BrokenDownIs, ReportsFinite
  <1>2. \A g \in S : /\ p[g] \in Int
                     /\ (2 * e) * p[g] - 20000 * b[g] <= e
                     /\ 20000 * b[g] - (2 * e) * p[g] <= e
    <2> SUFFICES ASSUME NEW g \in S
                 PROVE  /\ p[g] \in Int
                        /\ (2 * e) * p[g] - 20000 * b[g] <= e
                        /\ 20000 * b[g] - (2 * e) * p[g] <= e
      OBVIOUS
    <2>1. p[g] = (20000 * b[g] + e) \div (2 * e)
      BY <1>1 DEF Rep!Percentage
    <2>2. b[g] \in Int
      BY <1>1
    <2> HIDE DEF p, b, e
    <2>3. QED
      BY <1>1, <2>1, <2>2, Nearest
  <1> HIDE DEF p, e, b, S
  <1>3. \A g \in S : /\ v[g] = (2 * e) * p[g] /\ w[g] = 20000 * b[g]
                     /\ one[g] = 1 /\ d[g] = e * one[g] /\ d[g] = e
                     /\ p[g] \in Int /\ b[g] \in Int
                     /\ v[g] \in Int /\ w[g] \in Int /\ d[g] \in Int
    BY <1>1, <1>2
  <1>4. \A g \in S : v[g] - w[g] <= d[g] /\ w[g] - v[g] <= d[g]
    BY <1>2, <1>3
  <1> HIDE DEF v, w, d, one
  <1>5. /\ Sum(v, S) - Sum(w, S) <= Sum(d, S)
        /\ Sum(w, S) - Sum(v, S) <= Sum(d, S)
    BY <1>1, <1>3, <1>4, SumApart
  <1>6. Sum(p, S) \in Int /\ Sum(v, S) = (2 * e) * Sum(p, S)
    <2> DEFINE k == 2 * e
    <2>1. k \in Int
      BY <1>1
    <2>2. \A g \in S : p[g] \in Int /\ v[g] = k * p[g]
      BY <1>3
    <2> HIDE DEF k
    <2>3. Sum(p, S) \in Int /\ Sum(v, S) = k * Sum(p, S)
      BY <1>1, <2>1, <2>2, SumScaled
    <2>4. QED
      BY <2>3 DEF k
  <1>7. Sum(w, S) = 20000 * Sum(b, S)
    <2> DEFINE k == 20000
    <2>1. k \in Int /\ \A g \in S : b[g] \in Int /\ w[g] = k * b[g]
      BY <1>3
    <2> HIDE DEF k
    <2>2. Sum(w, S) = k * Sum(b, S)
      BY <1>1, <2>1, SumScaled
    <2>3. QED
      BY <2>2 DEF k
  <1>8. Sum(d, S) = e * Cardinality(S) /\ Cardinality(S) \in Nat
    <2>1. \A g \in S : one[g] \in Int /\ d[g] = e * one[g]
      BY <1>3
    <2>2. Sum(d, S) = e * Sum(one, S)
      BY <1>1, <2>1, SumScaled
    <2>3. Sum(one, S) = Cardinality(S)
      BY <1>1, <1>3, SumOnes
    <2>4. QED
      BY <1>1, <2>2, <2>3, FS_CardinalityType
  <1> DEFINE q == Sum(p, S)
             n == Cardinality(S)
  <1>9. 2 * q - 20000 <= n /\ 20000 - 2 * q <= n
    <2>1. q \in Int /\ n \in Int
      BY <1>6, <1>8
    <2>2. (2 * e) * q - 20000 * e <= e * n /\ 20000 * e - (2 * e) * q <= e * n
      BY <1>1, <1>5, <1>6, <1>7, <1>8
    <2> HIDE DEF q, n
    <2>3. /\ e * (2 * q - 20000) = (2 * e) * q - 20000 * e
          /\ e * (20000 - 2 * q) = 20000 * e - (2 * e) * q
          /\ 2 * q - 20000 \in Int /\ 20000 - 2 * q \in Int
      BY <1>1, <2>1
    <2>4. e * (2 * q - 20000) <= e * n /\ e * (20000 - 2 * q) <= e * n
      BY <2>2, <2>3
    <2>5. QED
      BY <1>1, <2>1, <2>3, <2>4, Cancels
  <1>10. /\ Rep!MapThenSumSet(Rep!Percentage, Rep!Groups) = q
         /\ Rep!Cardinality(Rep!Groups) = n
    BY SharesSum DEF p, S, Rep!Cardinality, Cardinality
  <1>11. q \in Int /\ n \in Int
    BY <1>6, <1>8
  <1> HIDE DEF q, n
  <1>12. QED
    BY <1>9, <1>10, <1>11 DEF Rep!Apart

(* For any categories and amounts: the shares of a breakdown that adds up  *)
(* come to 100 percent, to within half a hundredth for each category.      *)
THEOREM SharesAreWhole == MCSpec => []SharesAddUp
  <1>1. MCInit => SummaryInv
    BY SummaryInvInit DEF MCInit
  <1>2. SummaryInv /\ [MCNext]_allVars => SummaryInv'
    <2>1. [MCNext]_allVars => [Rep!Next]_repVars
      BY DEF MCNext, allVars, repVars
    <2>2. QED
      BY <2>1, SummaryInvStep
  <1>3. SummaryInv => SharesAddUp
    BY SharesDone DEF SharesAddUp, SummaryInv
  <1>4. QED
    BY <1>1, <1>2, <1>3, PTL DEF MCSpec

-----------------------------------------------------------------------------
(* The trend beside the export.                                            *)
LEMMA TrendSum ==
  ASSUME NEW S, NEW t, NEW type, DOMAIN t = S
  PROVE  Tre!SumOver(t, type)
           = Sum([e \in S |-> IF t[e].type = type THEN t[e].amount ELSE 0], S)
  <1> DEFINE part(e) == IF t[e].type = type THEN t[e].amount ELSE 0
             w == [e \in S |-> part(e)]
             some(s) == CHOOSE x \in s : TRUE
             P(f) == f = [s \in SUBSET S |->
                            IF s = {} THEN 0 ELSE w[some(s)] + f[s \ {some(s)}]]
             Q(f) == f = [s \in SUBSET S |->
                            IF s = {} THEN 0
                            ELSE part(some(s)) + f[s \ {some(s)}]]
  <1>1. \A s \in SUBSET S : s # {} => some(s) \in S
    OBVIOUS
  <1> HIDE DEF some, part
  <1>2. \A s \in SUBSET S : s # {} => w[some(s)] = part(some(s))
    BY <1>1
  <1> HIDE DEF w
  <1>3. \A f : P(f) <=> Q(f)
    BY <1>2
  <1> HIDE DEF P, Q
  <1>4. (CHOOSE f : P(f)) = (CHOOSE f : Q(f))
    BY <1>3, Zenon
  <1>5. Sum(w, S) = (CHOOSE f : P(f))[S]
    BY SumIs DEF P, some
  <1>6. Tre!SumOver(t, type) = (CHOOSE f : Q(f))[S]
    BY DEF Tre!SumOver, Tre!MapThenSumSet, Tre!MapThenFoldSet, Q, some, part
  <1>7. QED
    BY <1>4, <1>5, <1>6, Zenon DEF w, part

LEMMA TrendWritten ==
  ASSUME NEW S, NEW to
  PROVE  Tre!MapThenSumSet(LAMBDA e : Tre!AmountIn(rows, e) + Tre!AmountIn(to, e), S)
           = Sum([e \in S |-> Tre!AmountIn(rows, e) + Tre!AmountIn(to, e)], S)
  <1> DEFINE w == [e \in S |-> Tre!AmountIn(rows, e) + Tre!AmountIn(to, e)]
             some(s) == CHOOSE x \in s : TRUE
             P(f) == f = [s \in SUBSET S |->
                            IF s = {} THEN 0 ELSE w[some(s)] + f[s \ {some(s)}]]
             Q(f) == f = [s \in SUBSET S |->
                            IF s = {} THEN 0
                            ELSE (Tre!AmountIn(rows, some(s))
                                    + Tre!AmountIn(to, some(s)))
                                   + f[s \ {some(s)}]]
  <1>1. \A s \in SUBSET S : s # {} => some(s) \in S
    OBVIOUS
  <1> HIDE DEF some
  <1>2. \A s \in SUBSET S : s # {} =>
          w[some(s)] = Tre!AmountIn(rows, some(s)) + Tre!AmountIn(to, some(s))
    BY <1>1
  <1> HIDE DEF w
  <1>3. \A f : P(f) <=> Q(f)
    BY <1>2
  <1> HIDE DEF P, Q
  <1>4. (CHOOSE f : P(f)) = (CHOOSE f : Q(f))
    BY <1>3, Zenon
  <1>5. Sum(w, S) = (CHOOSE f : P(f))[S]
    BY SumIs DEF P, some
  <1>6. Tre!MapThenSumSet(LAMBDA e : Tre!AmountIn(rows, e) + Tre!AmountIn(to, e), S)
          = (CHOOSE f : Q(f))[S]
    BY DEF Tre!MapThenSumSet, Tre!MapThenFoldSet, Q, some
  <1>7. QED
    BY <1>4, <1>5, <1>6, Zenon DEF w

(* What the table says of each month now.                                  *)
MonthIncome == [m \in Nat |-> Tre!SumOver(Tre!OfMonth(m), "income")]

MonthExpense == [m \in Nat |-> Tre!SumOver(Tre!OfMonth(m), "expense")]

(* What a row adds to either, to both, and with its sign.                  *)
Adds(m, e, type) ==
    IF rows[e] # None /\ rows[e].month = m /\ rows[e].type = type
    THEN rows[e].amount ELSE 0

IncomeRows == [m \in Nat |-> [e \in Entries |-> Adds(m, e, "income")]]

ExpenseRows == [m \in Nat |-> [e \in Entries |-> Adds(m, e, "expense")]]

BothRows == [m \in Nat |-> [e \in Entries |-> IncomeRows[m][e] + ExpenseRows[m][e]]]

NetRows == [m \in Nat |-> [e \in Entries |-> IncomeRows[m][e] - ExpenseRows[m][e]]]

EntriesKnown ==
    \A m \in Nat, e \in Entries :
        /\ Tre!AmountIn(rows, e) \in Nat
        /\ \/ IncomeRows[m][e] = 0 /\ ExpenseRows[m][e] = 0
           \/ /\ IncomeRows[m][e] = Tre!AmountIn(rows, e)
              /\ ExpenseRows[m][e] = 0
           \/ /\ IncomeRows[m][e] = 0
              /\ ExpenseRows[m][e] = Tre!AmountIn(rows, e)
        /\ BothRows[m][e] = IncomeRows[m][e] + ExpenseRows[m][e]
        /\ NetRows[m][e] = IncomeRows[m][e] - ExpenseRows[m][e]

LEMMA EntriesAre == Tre!TypeOK => EntriesKnown
  <1> SUFFICES ASSUME Tre!TypeOK, NEW m \in Nat, NEW e \in Entries
      PROVE  /\ Tre!AmountIn(rows, e) \in Nat
             /\ \/ IncomeRows[m][e] = 0 /\ ExpenseRows[m][e] = 0
                \/ /\ IncomeRows[m][e] = Tre!AmountIn(rows, e)
                   /\ ExpenseRows[m][e] = 0
                \/ /\ IncomeRows[m][e] = 0
                   /\ ExpenseRows[m][e] = Tre!AmountIn(rows, e)
             /\ BothRows[m][e] = IncomeRows[m][e] + ExpenseRows[m][e]
             /\ NetRows[m][e] = IncomeRows[m][e] - ExpenseRows[m][e]
    BY DEF EntriesKnown
  <1>1. /\ IncomeRows[m][e] = Adds(m, e, "income")
        /\ ExpenseRows[m][e] = Adds(m, e, "expense")
    BY DEF IncomeRows, ExpenseRows
  <1>2. /\ BothRows[m][e] = IncomeRows[m][e] + ExpenseRows[m][e]
        /\ NetRows[m][e] = IncomeRows[m][e] - ExpenseRows[m][e]
    BY DEF BothRows, NetRows
  <1>3. rows[e] = None \/ /\ rows[e].type \in {"income", "expense"}
                          /\ rows[e].amount \in Nat
    BY ReadersAssumption DEF Tre!TypeOK, Tre!Row
  <1>4. QED
    BY <1>1, <1>2, <1>3 DEF Adds, Tre!AmountIn

MonthsKnown ==
    \A m \in Nat :
        /\ MonthIncome[m] \in Nat /\ MonthExpense[m] \in Nat
        /\ MonthIncome[m] + MonthExpense[m] = Sum(BothRows[m], Entries)
        /\ MonthIncome[m] - MonthExpense[m] = Sum(NetRows[m], Entries)

LEMMA MonthSum ==
  ASSUME Tre!TypeOK, NEW m \in Nat, NEW type \in {"income", "expense"}
  PROVE  /\ Tre!SumOver(Tre!OfMonth(m), type) \in Nat
         /\ Tre!SumOver(Tre!OfMonth(m), type)
              = Sum([e \in Entries |-> Adds(m, e, type)], Entries)
  <1> DEFINE S == {e \in Tre!Live : rows[e].month = m}
             t == Tre!OfMonth(m)
             v == [e \in S |-> IF t[e].type = type THEN t[e].amount ELSE 0]
             w == [e \in Entries |-> Adds(m, e, type)]
  <1>1. t = [e \in S |-> rows[e]]
    BY DEF Tre!OfMonth, Tre!Restrict
  <1>2. S \in SUBSET Entries /\ IsFiniteSet(S) /\ IsFiniteSet(Entries)
    BY ReadersAssumption, FS_Subset DEF Tre!Live
  <1>3. \A e \in Entries : rows[e] = None \/ rows[e].amount \in Nat
    BY ReadersAssumption DEF Tre!TypeOK, Tre!Row
  <1>4. /\ \A e \in S : v[e] = w[e]
        /\ \A e \in Entries : w[e] \in Nat
        /\ \A e \in Entries : e \notin S => w[e] = 0
    BY <1>1, <1>3 DEF Adds, Tre!Live
  <1>5. Tre!SumOver(t, type) = Sum(v, S)
    <2>1. DOMAIN t = S
      BY <1>1
    <2> HIDE DEF S, t
    <2>2. QED
      BY <2>1, TrendSum
  <1> HIDE DEF S, v, w
  <1>6. Sum(v, S) = Sum(w, S)
    BY <1>2, <1>4, SumSame
  <1>7. Sum(w, Entries) = Sum(w, S)
    BY <1>2, <1>4, SumWithin
  <1>8. Sum(w, S) \in Nat
    BY <1>2, <1>4, SumNat
  <1>9. QED
    BY <1>5, <1>6, <1>7, <1>8 DEF w

LEMMA MonthsAre == Tre!TypeOK => MonthsKnown
  <1> SUFFICES ASSUME Tre!TypeOK, NEW m \in Nat
      PROVE  /\ MonthIncome[m] \in Nat /\ MonthExpense[m] \in Nat
             /\ MonthIncome[m] + MonthExpense[m] = Sum(BothRows[m], Entries)
             /\ MonthIncome[m] - MonthExpense[m] = Sum(NetRows[m], Entries)
    BY DEF MonthsKnown
  <1> DEFINE v == IncomeRows[m]
             w == ExpenseRows[m]
  <1>1. MonthIncome[m] \in Nat /\ MonthIncome[m] = Sum(v, Entries)
    BY MonthSum DEF MonthIncome, IncomeRows
  <1>2. MonthExpense[m] \in Nat /\ MonthExpense[m] = Sum(w, Entries)
    BY MonthSum DEF MonthExpense, ExpenseRows
  <1>3. IsFiniteSet(Entries)
    BY ReadersAssumption
  <1>4. \A e \in Entries :
          /\ v[e] \in Int /\ w[e] \in Int
          /\ BothRows[m][e] = v[e] + w[e] /\ NetRows[m][e] = v[e] - w[e]
    BY EntriesAre DEF EntriesKnown
  <1> HIDE DEF v, w
  <1>5. Sum(BothRows[m], Entries) = Sum(v, Entries) + Sum(w, Entries)
    <2> DEFINE u == BothRows[m]
    <2>1. \A e \in Entries : v[e] \in Int /\ w[e] \in Int /\ u[e] = v[e] + w[e]
      BY <1>4
    <2> HIDE DEF u
    <2>2. Sum(u, Entries) = Sum(v, Entries) + Sum(w, Entries)
      BY <1>3, <2>1, SumPlus
    <2>3. QED
      BY <2>2 DEF u
  <1>6. Sum(NetRows[m], Entries) = Sum(v, Entries) - Sum(w, Entries)
    <2> DEFINE u == NetRows[m]
    <2>1. \A e \in Entries : v[e] \in Int /\ w[e] \in Int /\ u[e] = v[e] - w[e]
      BY <1>4
    <2> HIDE DEF u
    <2>2. Sum(u, Entries) = Sum(v, Entries) - Sum(w, Entries)
      BY <1>3, <2>1, SumMinus
    <2>3. QED
      BY <2>2 DEF u
  <1>7. QED
    BY <1>1, <1>2, <1>5, <1>6

LEMMA TrendNext == Tre!TypeOK' => MonthsKnown' /\ EntriesKnown'
  BY MonthsAre, EntriesAre, PTL

(* What a write enters.                                                    *)
Entered(S) ==
    Sum([e \in S |-> Tre!AmountIn(rows, e) + Tre!AmountIn(rows', e)], S)

LEMMA EntryMoves ==
  ASSUME NEW a, NEW b, NEW u, NEW o, NEW j, NEW p, a \in Nat, b \in Nat,
         (u = 0 /\ o = 0) \/ (u = a /\ o = 0) \/ (u = 0 /\ o = a),
         (j = 0 /\ p = 0) \/ (j = b /\ p = 0) \/ (j = 0 /\ p = b)
  PROVE  /\ (j + p) - (u + o) <= a + b /\ (u + o) - (j + p) <= a + b
         /\ (j - p) - (u - o) <= a + b /\ (u - o) - (j - p) <= a + b
  OBVIOUS

LEMMA EnteredIs ==
  ASSUME Tre!TypeOK, Tre!TypeOK', NEW S \in SUBSET Entries, NEW d,
         \A e \in S : d[e] = Tre!AmountIn(rows, e) + Tre!AmountIn(rows', e),
         \A e \in Entries : e \notin S => d[e] = 0
  PROVE  /\ Entered(S) \in Nat /\ Entered(S) = Sum(d, Entries)
         /\ \A e \in Entries : d[e] \in Nat
  <1> DEFINE v == [e \in S |-> Tre!AmountIn(rows, e) + Tre!AmountIn(rows', e)]
  <1>1. \A e \in Entries : /\ Tre!AmountIn(rows, e) \in Nat
                           /\ Tre!AmountIn(rows', e) \in Nat
    BY ReadersAssumption DEF Tre!TypeOK, Tre!AmountIn, Tre!Row
  <1>2. \A e \in S : d[e] = v[e] /\ v[e] \in Nat
    BY <1>1
  <1>3. \A e \in Entries : d[e] \in Nat /\ (e \notin S => d[e] = 0)
    BY <1>2
  <1>4. IsFiniteSet(S) /\ IsFiniteSet(Entries)
    BY ReadersAssumption, FS_Subset
  <1>5. Entered(S) = Sum(v, S)
    BY DEF Entered
  <1> HIDE DEF v
  <1>6. Sum(d, Entries) \in Nat
    BY <1>3, <1>4, SumNat
  <1>7. Sum(v, S) = Sum(d, S)
    BY <1>2, <1>4, SumSame
  <1>8. Sum(d, Entries) = Sum(d, S)
    BY <1>3, <1>4, SumWithin
  <1>9. QED
    BY <1>3, <1>5, <1>6, <1>7, <1>8

(* The income and the expenses of a month, side by side, are no further    *)
(* apart than this: both differences together.                             *)
Within(a, b, c, d, w) ==
    /\ (a + b) - (c + d) <= w /\ (c + d) - (a + b) <= w
    /\ (a - b) - (c - d) <= w /\ (c - d) - (a - b) <= w

LEMMA MonthMoves ==
  ASSUME Tre!TypeOK, Tre!TypeOK', NEW S \in SUBSET Entries, NEW m \in Nat,
         \A e \in Entries : e \notin S => rows'[e] = rows[e]
  PROVE  /\ Entered(S) \in Nat
         /\ MonthIncome[m] \in Nat /\ MonthExpense[m] \in Nat
         /\ MonthIncome'[m] \in Nat /\ MonthExpense'[m] \in Nat
         /\ Within(MonthIncome[m], MonthExpense[m],
                   MonthIncome'[m], MonthExpense'[m], Entered(S))
  <1> DEFINE d == [e \in Entries |->
                     IF e \in S
                     THEN Tre!AmountIn(rows, e) + Tre!AmountIn(rows', e) ELSE 0]
             B == BothRows[m]
             C == BothRows'[m]
             N == NetRows[m]
             M == NetRows'[m]
  <1>1. \A e \in Entries :
          /\ Tre!AmountIn(rows, e) \in Nat
          /\ \/ IncomeRows[m][e] = 0 /\ ExpenseRows[m][e] = 0
             \/ /\ IncomeRows[m][e] = Tre!AmountIn(rows, e)
                /\ ExpenseRows[m][e] = 0
             \/ /\ IncomeRows[m][e] = 0
                /\ ExpenseRows[m][e] = Tre!AmountIn(rows, e)
          /\ B[e] = IncomeRows[m][e] + ExpenseRows[m][e]
          /\ N[e] = IncomeRows[m][e] - ExpenseRows[m][e]
    BY EntriesAre DEF EntriesKnown
  <1>2. \A e \in Entries :
          /\ Tre!AmountIn(rows', e) \in Nat
          /\ \/ IncomeRows'[m][e] = 0 /\ ExpenseRows'[m][e] = 0
             \/ /\ IncomeRows'[m][e] = Tre!AmountIn(rows', e)
                /\ ExpenseRows'[m][e] = 0
             \/ /\ IncomeRows'[m][e] = 0
                /\ ExpenseRows'[m][e] = Tre!AmountIn(rows', e)
          /\ C[e] = IncomeRows'[m][e] + ExpenseRows'[m][e]
          /\ M[e] = IncomeRows'[m][e] - ExpenseRows'[m][e]
    BY TrendNext DEF EntriesKnown
  <1>3. \A e \in Entries : e \notin S => /\ IncomeRows'[m][e] = IncomeRows[m][e]
                                         /\ ExpenseRows'[m][e] = ExpenseRows[m][e]
    BY DEF IncomeRows, ExpenseRows, Adds
  <1>4. /\ \A e \in S : d[e] = Tre!AmountIn(rows, e) + Tre!AmountIn(rows', e)
        /\ \A e \in Entries : e \notin S => d[e] = 0
    OBVIOUS
  <1> HIDE DEF d, B, C, N, M
  <1>5. /\ Entered(S) \in Nat /\ Entered(S) = Sum(d, Entries)
        /\ \A e \in Entries : d[e] \in Nat
    BY <1>4, EnteredIs
  <1>6. \A e \in Entries :
          /\ B[e] \in Int /\ C[e] \in Int /\ N[e] \in Int /\ M[e] \in Int
          /\ d[e] \in Int
          /\ B[e] - C[e] <= d[e] /\ C[e] - B[e] <= d[e]
          /\ N[e] - M[e] <= d[e] /\ M[e] - N[e] <= d[e]
    <2> SUFFICES ASSUME NEW e \in Entries
                 PROVE  /\ B[e] \in Int /\ C[e] \in Int /\ N[e] \in Int
                        /\ M[e] \in Int /\ d[e] \in Int
                        /\ B[e] - C[e] <= d[e] /\ C[e] - B[e] <= d[e]
                        /\ N[e] - M[e] <= d[e] /\ M[e] - N[e] <= d[e]
      OBVIOUS
    <2> DEFINE a == Tre!AmountIn(rows, e)
               b == Tre!AmountIn(rows', e)
               inc == IncomeRows[m][e]
               out == ExpenseRows[m][e]
               jnc == IncomeRows'[m][e]
               put == ExpenseRows'[m][e]
    <2>1. /\ a \in Nat /\ b \in Nat
          /\ (inc = 0 /\ out = 0) \/ (inc = a /\ out = 0) \/ (inc = 0 /\ out = a)
          /\ (jnc = 0 /\ put = 0) \/ (jnc = b /\ put = 0) \/ (jnc = 0 /\ put = b)
          /\ B[e] = inc + out /\ N[e] = inc - out
          /\ C[e] = jnc + put /\ M[e] = jnc - put
      BY <1>1, <1>2
    <2>2. IF e \in S THEN d[e] = a + b ELSE jnc = inc /\ put = out /\ d[e] = 0
      BY <1>3, <1>4
    <2> HIDE DEF a, b, inc, out, jnc, put
    <2>3. /\ (jnc + put) - (inc + out) <= a + b
          /\ (inc + out) - (jnc + put) <= a + b
          /\ (jnc - put) - (inc - out) <= a + b
          /\ (inc - out) - (jnc - put) <= a + b
      BY <2>1, EntryMoves
    <2>4. inc \in Int /\ out \in Int /\ jnc \in Int /\ put \in Int
      BY <2>1
    <2>5. QED
      BY <2>1, <2>2, <2>3, <2>4
  <1>7. IsFiniteSet(Entries)
    BY ReadersAssumption
  <1>8. /\ Sum(B, Entries) - Sum(C, Entries) <= Sum(d, Entries)
        /\ Sum(C, Entries) - Sum(B, Entries) <= Sum(d, Entries)
    BY <1>6, <1>7, SumApart
  <1>9. /\ Sum(N, Entries) - Sum(M, Entries) <= Sum(d, Entries)
        /\ Sum(M, Entries) - Sum(N, Entries) <= Sum(d, Entries)
    BY <1>6, <1>7, SumApart
  <1>10. /\ MonthIncome[m] \in Nat /\ MonthExpense[m] \in Nat
         /\ MonthIncome[m] + MonthExpense[m] = Sum(B, Entries)
         /\ MonthIncome[m] - MonthExpense[m] = Sum(N, Entries)
    BY MonthsAre DEF MonthsKnown, B, N
  <1>11. /\ MonthIncome'[m] \in Nat /\ MonthExpense'[m] \in Nat
         /\ MonthIncome'[m] + MonthExpense'[m] = Sum(C, Entries)
         /\ MonthIncome'[m] - MonthExpense'[m] = Sum(M, Entries)
    BY TrendNext DEF MonthsKnown, C, M
  <1>12. QED
    BY <1>5, <1>8, <1>9, <1>10, <1>11 DEF Within

(* What the two answers say.                                               *)
PointIncome == [m \in Nat |-> Tre!Point(m).income]

PointExpense == [m \in Nat |-> Tre!Point(m).expense]

FileIncome == Tre!SumOver(export.rows, "income")

FileExpense == Tre!SumOver(export.rows, "expense")

(* An answer is near what the table says; with both, they are near each    *)
(* other.                                                                  *)
TrendInv ==
    /\ Tre!TypeOK /\ DOMAIN rows = Entries
    /\ trend # None =>
         \A m \in Nat : PointIncome[m] \in Nat /\ PointExpense[m] \in Nat
    /\ export # None => FileIncome \in Nat /\ FileExpense \in Nat
    /\ trend # None /\ export = None =>
         \A m \in Nat : m >= trend.first =>
           Within(PointIncome[m], PointExpense[m],
                  MonthIncome[m], MonthExpense[m], written)
    /\ export # None /\ trend = None =>
         Within(FileIncome, FileExpense,
                MonthIncome[export.month], MonthExpense[export.month], written)
    /\ export # None /\ trend # None /\ export.month >= trend.first =>
         Within(PointIncome[export.month], PointExpense[export.month],
                FileIncome, FileExpense, written)

LEMMA TrendInvInit == Tre!Init => TrendInv
  <1> SUFFICES ASSUME Tre!Init
               PROVE  TrendInv
    OBVIOUS
  <1>1. Tre!TypeOK
    BY ReadersAssumption DEF Tre!TypeOK, Tre!Init
  <1>2. QED
    BY <1>1 DEF TrendInv, Tre!Init

(* What stays the same.                                                    *)
LEMMA SameAnswers ==
  /\ trend' = trend => PointIncome' = PointIncome /\ PointExpense' = PointExpense
  /\ export' = export => FileIncome' = FileIncome /\ FileExpense' = FileExpense
  /\ rows' = rows => MonthIncome' = MonthIncome /\ MonthExpense' = MonthExpense
  <1>1. trend' = trend => PointIncome' = PointIncome /\ PointExpense' = PointExpense
    BY DEF PointIncome, PointExpense, Tre!Point
  <1>2. export' = export => FileIncome' = FileIncome /\ FileExpense' = FileExpense
    BY DEF FileIncome, FileExpense
  <1>3. rows' = rows => MonthIncome' = MonthIncome /\ MonthExpense' = MonthExpense
    BY DEF MonthIncome, MonthExpense, Tre!OfMonth, Tre!Live
  <1>4. QED
    BY <1>1, <1>2, <1>3

(* A month without live rows has no income and no expenses.                *)
LEMMA NoRowsNothing ==
  ASSUME Tre!TypeOK, NEW m \in Nat, \A e \in Tre!Live : rows[e].month # m
  PROVE  MonthIncome[m] = 0 /\ MonthExpense[m] = 0
  <1> DEFINE v == BothRows[m]
  <1>1. \A e \in Entries : v[e] \in Int /\ v[e] = 0
    BY DEF BothRows, IncomeRows, ExpenseRows, Adds, Tre!Live
  <1>2. IsFiniteSet(Entries) /\ {} \in SUBSET Entries
    BY ReadersAssumption
  <1>3. /\ MonthIncome[m] \in Nat /\ MonthExpense[m] \in Nat
        /\ MonthIncome[m] + MonthExpense[m] = Sum(v, Entries)
    BY MonthsAre DEF MonthsKnown
  <1> HIDE DEF v
  <1>4. Sum(v, Entries) = Sum(v, {})
    BY <1>1, <1>2, SumWithin
  <1>5. Sum(v, {}) = 0
    BY SumEmpty
  <1>6. QED
    BY <1>3, <1>4, <1>5

LEMMA TrendTypes ==
  ASSUME Tre!TypeOK
  PROVE  /\ written \in Nat /\ written <= MaxWritten
         /\ LastMonth \in Nat /\ ThisMonth \in Nat /\ MaxWritten \in Nat
         /\ trend # None => trend.first \in 1 .. ThisMonth /\ trend.first \in Nat
         /\ export # None => export.month \in 1 .. ThisMonth /\ export.month \in Nat
         /\ \A e \in Tre!Live : rows[e].month \in 1 .. LastMonth
  BY ReadersAssumption DEF Tre!TypeOK, Tre!Live, Tre!Row, Tre!Months

LEMMA SelfWithin ==
  ASSUME NEW a, NEW b, NEW w, a \in Nat, b \in Nat, w \in Nat
  PROVE  Within(a, b, a, b, w)
  BY DEF Within

LEMMA WithinTurned ==
  ASSUME NEW a, NEW b, NEW c, NEW d, NEW w, Within(a, b, c, d, w)
  PROVE  Within(c, d, a, b, w)
  BY DEF Within

LEMMA WithinSum ==
  ASSUME NEW a, NEW b, NEW c, NEW d, NEW u, NEW y, NEW v, NEW w,
         a \in Nat, b \in Nat, c \in Nat, d \in Nat, u \in Nat, y \in Nat,
         v \in Nat, w \in Nat,
         Within(a, b, c, d, v), Within(c, d, u, y, w)
  PROVE  Within(a, b, u, y, v + w)
  BY DEF Within

LEMMA TrendGot ==
  ASSUME TrendInv, NEW first \in 1 .. ThisMonth, Tre!GetTrend(first)
  PROVE  TrendInv'
  <1> DEFINE found == {m \in {rows[e].month : e \in Tre!Live} :
                         Tre!InWindow(m, first)}
             p == [m \in found |->
                     [income |-> Tre!SumOver(Tre!OfMonth(m), "income"),
                      expense |-> Tre!SumOver(Tre!OfMonth(m), "expense")]]
  <1>1. /\ trend = None /\ trend' = [first |-> first, points |-> p]
        /\ rows' = rows /\ export' = export /\ written' = written
    BY DEF Tre!GetTrend
  <1>2. Tre!TypeOK
    BY DEF TrendInv
  <1>3. first \in Nat /\ LastMonth \in Nat /\ ThisMonth \in Nat /\ written \in Nat
    BY <1>2, TrendTypes
  <1>4. found \subseteq first .. LastMonth
    BY <1>2, <1>3, TrendTypes DEF Tre!InWindow
  <1>5. found \subseteq Nat
    BY <1>3, <1>4
  <1>6. trend'.first = first /\ trend'.points = p /\ DOMAIN p = found
    BY <1>1
  <1>7. Tre!TypeOK'
    BY <1>1, <1>2, <1>4, <1>6 DEF Tre!TypeOK
  <1>8. ASSUME NEW m \in Nat, m \in found
        PROVE  PointIncome'[m] = MonthIncome[m] /\ PointExpense'[m] = MonthExpense[m]
    BY <1>6, <1>8 DEF PointIncome, PointExpense, Tre!Point, MonthIncome, MonthExpense
  <1>9. ASSUME NEW m \in Nat, m \notin found
        PROVE  /\ PointIncome'[m] = 0 /\ PointExpense'[m] = 0
               /\ m >= first => MonthIncome[m] = 0 /\ MonthExpense[m] = 0
    <2>1. PointIncome'[m] = 0 /\ PointExpense'[m] = 0
      BY <1>6, <1>9 DEF PointIncome, PointExpense, Tre!Point
    <2>2. m >= first => \A e \in Tre!Live : rows[e].month # m
      BY <1>9 DEF Tre!InWindow
    <2>3. QED
      BY <1>2, <2>1, <2>2, NoRowsNothing
  <1>10. \A m \in Nat : MonthIncome[m] \in Nat /\ MonthExpense[m] \in Nat
    BY <1>2, MonthsAre DEF MonthsKnown
  <1> HIDE DEF found, p
  <1>11. \A m \in Nat : /\ PointIncome'[m] \in Nat /\ PointExpense'[m] \in Nat
                        /\ m >= first => /\ PointIncome'[m] = MonthIncome[m]
                                         /\ PointExpense'[m] = MonthExpense[m]
    BY <1>8, <1>9, <1>10
  <1>12. /\ FileIncome' = FileIncome /\ FileExpense' = FileExpense
         /\ MonthIncome' = MonthIncome /\ MonthExpense' = MonthExpense
    BY <1>1, SameAnswers
  <1>13. \A m \in Nat : m >= first =>
           Within(PointIncome'[m], PointExpense'[m],
                  MonthIncome[m], MonthExpense[m], written)
    BY <1>3, <1>10, <1>11, SelfWithin
  <1>14. ASSUME export # None, export.month >= first
         PROVE  Within(PointIncome'[export.month], PointExpense'[export.month],
                       FileIncome, FileExpense, written)
    <2> DEFINE m == export.month
    <2>1. m \in Nat
      BY <1>2, <1>14, TrendTypes
    <2>2. Within(FileIncome, FileExpense, MonthIncome[m], MonthExpense[m], written)
      BY <1>1, <1>14 DEF TrendInv
    <2>3. PointIncome'[m] = MonthIncome[m] /\ PointExpense'[m] = MonthExpense[m]
      BY <1>11, <1>14, <2>1
    <2> HIDE DEF m
    <2>4. Within(PointIncome'[m], PointExpense'[m], FileIncome, FileExpense, written)
      BY <2>2, <2>3, WithinTurned
    <2>5. QED
      BY <2>4 DEF m
  <1>15. trend' # None \/ trend' = None
    OBVIOUS
  <1>16. DOMAIN rows' = Entries /\ (export' # None => FileIncome' \in Nat /\ FileExpense' \in Nat)
    BY <1>1, <1>12 DEF TrendInv
  <1>17. export' # None /\ trend' = None =>
           Within(FileIncome', FileExpense',
                  MonthIncome'[export'.month], MonthExpense'[export'.month], written')
    BY <1>1, <1>12 DEF TrendInv
  <1>18. QED
    BY <1>1, <1>6, <1>7, <1>11, <1>12, <1>13, <1>14, <1>16, <1>17 DEF TrendInv

LEMMA ExportGot ==
  ASSUME TrendInv, NEW month \in Tre!Months, Tre!GetExportRows(month)
  PROVE  TrendInv'
  <1> DEFINE t == Tre!OfMonth(month)
  <1>1. /\ export = None /\ export' = [month |-> month, rows |-> t]
        /\ ~(month > ThisMonth)
        /\ rows' = rows /\ trend' = trend /\ written' = written
    BY DEF Tre!GetExportRows, Tre!ErrFutureMonth
  <1>2. Tre!TypeOK
    BY DEF TrendInv
  <1>3. /\ LastMonth \in Nat /\ ThisMonth \in Nat /\ written \in Nat
        /\ month \in Nat /\ month \in 1 .. ThisMonth
    BY <1>1, <1>2, TrendTypes DEF Tre!Months
  <1>4. Tre!Range(t) \subseteq Tre!Row
    BY <1>2 DEF Tre!Range, Tre!OfMonth, Tre!Restrict, Tre!TypeOK, Tre!Live
  <1>5. export'.month = month /\ export'.rows = t
    BY <1>1
  <1>6. FileIncome' = MonthIncome[month] /\ FileExpense' = MonthExpense[month]
    BY <1>3, <1>5 DEF FileIncome, FileExpense, MonthIncome, MonthExpense
  <1> HIDE DEF t
  <1>7. Tre!TypeOK'
    BY <1>1, <1>2, <1>3, <1>4, <1>5 DEF Tre!TypeOK, Tre!Range
  <1>8. /\ MonthIncome[month] \in Nat /\ MonthExpense[month] \in Nat
    BY <1>2, <1>3, MonthsAre DEF MonthsKnown
  <1>9. /\ PointIncome' = PointIncome /\ PointExpense' = PointExpense
        /\ MonthIncome' = MonthIncome /\ MonthExpense' = MonthExpense
    BY <1>1, SameAnswers
  <1>10. Within(FileIncome', FileExpense', MonthIncome[month], MonthExpense[month], written)
    BY <1>3, <1>6, <1>8, SelfWithin
  <1>11. trend # None /\ month >= trend.first =>
           Within(PointIncome[month], PointExpense[month],
                  FileIncome', FileExpense', written)
    BY <1>1, <1>3, <1>6 DEF TrendInv
  <1>12. DOMAIN rows' = Entries /\ FileIncome' \in Nat /\ FileExpense' \in Nat
    BY <1>1, <1>6, <1>8 DEF TrendInv
  <1>13. trend # None => \A m \in Nat : PointIncome[m] \in Nat /\ PointExpense[m] \in Nat
    BY DEF TrendInv
  <1>14. trend # None => \A m \in Nat : m >= trend.first =>
           Within(PointIncome[m], PointExpense[m],
                  MonthIncome[m], MonthExpense[m], written)
    BY <1>1 DEF TrendInv
  <1>15. QED
    BY <1>1, <1>5, <1>7, <1>9, <1>10, <1>11, <1>12, <1>13, <1>14 DEF TrendInv

LEMMA ReadsEnd == TrendInv /\ Tre!Ends => TrendInv'
  <1> SUFFICES ASSUME TrendInv, Tre!Ends
               PROVE  TrendInv'
    OBVIOUS
  <1>1. trend' = None /\ export' = None /\ written' = 0 /\ rows' = rows
    BY DEF Tre!Ends
  <1>2. Tre!TypeOK'
    BY <1>1, TrendTypes DEF TrendInv, Tre!TypeOK
  <1>3. QED
    BY <1>1, <1>2 DEF TrendInv

LEMMA TrendCommitted ==
  ASSUME NEW to, NEW S, Tre!Committed(to, S)
  PROVE  /\ rows' = to /\ trend' = trend /\ export' = export
         /\ written' = IF trend = None /\ export = None THEN 0
                       ELSE written + Entered(S)
         /\ written' <= MaxWritten
  <1>1. /\ rows' = to /\ trend' = trend /\ export' = export
        /\ written' <= MaxWritten
        /\ written' = IF trend = None /\ export = None THEN 0
                      ELSE written + Tre!MapThenSumSet(LAMBDA e :
                             Tre!AmountIn(rows, e) + Tre!AmountIn(to, e), S)
    BY DEF Tre!Committed
  <1>2. Tre!MapThenSumSet(LAMBDA e : Tre!AmountIn(rows, e) + Tre!AmountIn(to, e), S)
          = Sum([e \in S |-> Tre!AmountIn(rows, e) + Tre!AmountIn(to, e)], S)
    BY TrendWritten
  <1>3. Entered(S)
          = Sum([e \in S |-> Tre!AmountIn(rows, e) + Tre!AmountIn(to, e)], S)
    BY <1>1 DEF Entered
  <1>4. QED
    BY <1>1, <1>2, <1>3, Zenon

LEMMA EntriesWritten ==
  ASSUME TrendInv, NEW to, NEW S \in SUBSET Entries, Tre!Committed(to, S),
         \A e \in Entries : to[e] = None \/ to[e] \in Tre!Row,
         DOMAIN to = Entries,
         \A e \in Entries : e \notin S => to[e] = rows[e]
  PROVE  TrendInv'
  <1> DEFINE by == Entered(S)
             new == written'
  <1>1. /\ rows' = to /\ trend' = trend /\ export' = export
        /\ written' = IF trend = None /\ export = None THEN 0 ELSE written + by
        /\ written' <= MaxWritten
    BY TrendCommitted
  <1>2. Tre!TypeOK
    BY DEF TrendInv
  <1>3. written \in Nat /\ MaxWritten \in Nat
    BY <1>2, TrendTypes
  <1>4. by \in Nat
    <2>1. \A e \in S : Tre!AmountIn(rows, e) \in Nat /\ Tre!AmountIn(to, e) \in Nat
      BY <1>2, ReadersAssumption DEF Tre!TypeOK, Tre!AmountIn, Tre!Row
    <2> DEFINE w == [e \in S |-> Tre!AmountIn(rows, e) + Tre!AmountIn(to, e)]
    <2>2. by = Sum(w, S)
      BY <1>1 DEF Entered
    <2>3. \A e \in S : w[e] \in Nat
      BY <2>1
    <2>4. IsFiniteSet(S)
      BY ReadersAssumption, FS_Subset
    <2> HIDE DEF w, by
    <2>5. QED
      BY <2>2, <2>3, <2>4, SumNat
  <1>5. Tre!TypeOK'
    <2>1. written' \in 0 .. MaxWritten
      BY <1>1, <1>3, <1>4
    <2>2. QED
      BY <1>1, <1>2, <2>1 DEF Tre!TypeOK
  <1>6. \A m \in Nat :
          /\ MonthIncome[m] \in Nat /\ MonthExpense[m] \in Nat
          /\ MonthIncome'[m] \in Nat /\ MonthExpense'[m] \in Nat
          /\ Within(MonthIncome[m], MonthExpense[m],
                    MonthIncome'[m], MonthExpense'[m], by)
    BY <1>1, <1>2, <1>5, MonthMoves
  <1>7. /\ PointIncome' = PointIncome /\ PointExpense' = PointExpense
        /\ FileIncome' = FileIncome /\ FileExpense' = FileExpense
    BY <1>1, SameAnswers
  <1> HIDE DEF by, new
  <1>8. ASSUME trend # None /\ export = None, NEW m \in Nat, m >= trend.first
        PROVE  Within(PointIncome[m], PointExpense[m],
                      MonthIncome'[m], MonthExpense'[m], new)
    <2>1. /\ Within(PointIncome[m], PointExpense[m],
                    MonthIncome[m], MonthExpense[m], written)
          /\ PointIncome[m] \in Nat /\ PointExpense[m] \in Nat
      BY <1>8 DEF TrendInv
    <2>2. new = written + by
      BY <1>1, <1>8 DEF new
    <2>3. Within(PointIncome[m], PointExpense[m],
                 MonthIncome'[m], MonthExpense'[m], written + by)
      BY <1>3, <1>4, <1>6, <2>1, WithinSum
    <2>4. QED
      BY <2>2, <2>3
  <1>9. ASSUME export # None /\ trend = None
        PROVE  Within(FileIncome, FileExpense,
                      MonthIncome'[export.month], MonthExpense'[export.month], new)
    <2> DEFINE m == export.month
    <2>1. /\ Within(FileIncome, FileExpense, MonthIncome[m], MonthExpense[m], written)
          /\ FileIncome \in Nat /\ FileExpense \in Nat
      BY <1>9 DEF TrendInv
    <2>2. new = written + by /\ m \in Nat
      BY <1>1, <1>2, <1>9, TrendTypes DEF new
    <2> HIDE DEF m
    <2>3. Within(FileIncome, FileExpense, MonthIncome'[m], MonthExpense'[m],
                 written + by)
      BY <1>3, <1>4, <1>6, <2>1, <2>2, WithinSum
    <2>4. QED
      BY <2>2, <2>3 DEF m
  <1>10. ASSUME export # None, trend # None, export.month >= trend.first
         PROVE  Within(PointIncome[export.month], PointExpense[export.month],
                       FileIncome, FileExpense, new)
    <2> DEFINE m == export.month
    <2>1. Within(PointIncome[m], PointExpense[m], FileIncome, FileExpense, written)
      BY <1>10 DEF TrendInv
    <2>2. /\ new = written + by /\ m \in Nat
          /\ FileIncome \in Nat /\ FileExpense \in Nat
      BY <1>1, <1>2, <1>10, TrendTypes DEF new, TrendInv
    <2>3. PointIncome[m] \in Nat /\ PointExpense[m] \in Nat
      BY <1>10, <2>2 DEF TrendInv
    <2> HIDE DEF m
    <2>4. Within(FileIncome, FileExpense, FileIncome, FileExpense, by)
      BY <1>4, <2>2, SelfWithin
    <2>5. Within(PointIncome[m], PointExpense[m], FileIncome, FileExpense, written + by)
      BY <1>3, <1>4, <2>1, <2>2, <2>3, <2>4, WithinSum
    <2>6. QED
      BY <2>2, <2>5 DEF m
  <1>11. DOMAIN rows' = Entries
    BY <1>1
  <1>12. QED
    BY <1>1, <1>5, <1>7, <1>8, <1>9, <1>10, <1>11 DEF TrendInv, new

LEMMA TrendInvStep == TrendInv /\ [Tre!Next]_treVars => TrendInv'
  <1> SUFFICES ASSUME TrendInv, [Tre!Next]_treVars
               PROVE  TrendInv'
    OBVIOUS
  <1>1. ASSUME NEW e \in Entries, Tre!Write(e)
        PROVE  TrendInv'
    <2>1. PICK row \in Tre!Row \union {None} :
            Tre!Committed([rows EXCEPT ![e] = row], {e})
      BY <1>1 DEF Tre!Write
    <2> DEFINE to == [rows EXCEPT ![e] = row]
    <2>2. /\ \A q \in Entries : to[q] = None \/ to[q] \in Tre!Row
          /\ \A q \in Entries : q \notin {e} => to[q] = rows[q]
          /\ DOMAIN to = Entries
      BY DEF TrendInv, Tre!TypeOK
    <2>3. Tre!Committed(to, {e})
      BY <2>1
    <2> HIDE DEF to
    <2>4. QED
      BY <2>2, <2>3, EntriesWritten
  <1>2. ASSUME NEW e \in Entries, NEW f \in Entries, Tre!Transfer(e, f)
        PROVE  TrendInv'
    <2> DEFINE leg(type, m, a) == [month |-> m, type |-> type, amount |-> a]
    <2>1. PICK m \in Tre!Months, a \in Amounts :
            Tre!Committed([rows EXCEPT ![e] = leg("expense", m, a),
                                       ![f] = leg("income", m, a)], {e, f})
      BY <1>2 DEF Tre!Transfer
    <2> DEFINE to == [rows EXCEPT ![e] = leg("expense", m, a),
                                  ![f] = leg("income", m, a)]
    <2>2. leg("expense", m, a) \in Tre!Row /\ leg("income", m, a) \in Tre!Row
      BY DEF Tre!Row
    <2> HIDE DEF leg
    <2>3. /\ \A p \in Entries : to[p] = None \/ to[p] \in Tre!Row
          /\ \A p \in Entries : p \notin {e, f} => to[p] = rows[p]
          /\ DOMAIN to = Entries
      <3>1. \A p \in Entries : to[p] = IF p = f THEN leg("income", m, a)
                                       ELSE IF p = e THEN leg("expense", m, a)
                                       ELSE rows[p]
        BY DEF TrendInv
      <3>2. DOMAIN to = Entries
        BY DEF TrendInv
      <3> HIDE DEF to
      <3>3. QED
        BY <2>2, <3>1, <3>2 DEF TrendInv, Tre!TypeOK
    <2>4. Tre!Committed(to, {e, f})
      BY <2>1
    <2> HIDE DEF to
    <2>5. QED
      BY <2>3, <2>4, EntriesWritten
  <1>3. CASE UNCHANGED treVars
    <2>1. rows' = rows /\ trend' = trend /\ export' = export /\ written' = written
      BY <1>3 DEF treVars
    <2>2. Tre!TypeOK'
      BY <2>1 DEF TrendInv, Tre!TypeOK
    <2>3. /\ PointIncome' = PointIncome /\ PointExpense' = PointExpense
          /\ FileIncome' = FileIncome /\ FileExpense' = FileExpense
          /\ MonthIncome' = MonthIncome /\ MonthExpense' = MonthExpense
      BY <2>1, SameAnswers
    <2>4. QED
      BY <2>1, <2>2, <2>3 DEF TrendInv
  <1>4. QED
    BY <1>1, <1>2, <1>3, TrendGot, ExportGot, ReadsEnd DEF Tre!Next

LEMMA TrendTold == TrendInv => Tre!TrendAgreesWithExport
  <1> SUFFICES ASSUME TrendInv, trend # None, export # None,
                      export.month >= trend.first
               PROVE  Tre!Apart(Tre!Point(export.month).income, FileIncome)
                        + Tre!Apart(Tre!Point(export.month).expense, FileExpense)
                        <= written
    BY DEF Tre!TrendAgreesWithExport, FileIncome, FileExpense
  <1> DEFINE m == export.month
             p == PointIncome[m]
             q == PointExpense[m]
  <1>1. m \in Nat /\ written \in Nat
    BY TrendTypes DEF TrendInv
  <1>2. /\ Within(p, q, FileIncome, FileExpense, written)
        /\ p \in Nat /\ q \in Nat /\ FileIncome \in Nat /\ FileExpense \in Nat
    BY <1>1 DEF TrendInv
  <1>3. Tre!Point(m).income = p /\ Tre!Point(m).expense = q
    BY <1>1 DEF PointIncome, PointExpense
  <1> HIDE DEF p, q
  <1>4. Tre!Apart(p, FileIncome) + Tre!Apart(q, FileExpense) <= written
    BY <1>1, <1>2 DEF Tre!Apart, Within
  <1>5. QED
    BY <1>3, <1>4

(* For any number of rows and months: a trend and a file of a month of its *)
(* window, asked for in either order, add up to the same income and the    *)
(* same expenses, but for what was written between the two.                *)
THEOREM TrendAndExportAgree == MCSpec => []TrendAgreesWithExport
  <1>1. MCInit => TrendInv
    BY TrendInvInit DEF MCInit
  <1>2. TrendInv /\ [MCNext]_allVars => TrendInv'
    <2>1. [MCNext]_allVars => [Tre!Next]_treVars
      BY DEF MCNext, allVars, treVars
    <2>2. QED
      BY <2>1, TrendInvStep
  <1>3. TrendInv => TrendAgreesWithExport
    BY TrendTold DEF TrendAgreesWithExport
  <1>4. QED
    BY <1>1, <1>2, <1>3, PTL DEF MCSpec

-----------------------------------------------------------------------------
(* All of them together.                                                   *)

LEMMA ReadersTyped ==
  /\ PagesInv => Pag!TypeOK
  /\ SummaryInv => Rep!TypeOK
  /\ TrendInv => Tre!TypeOK
  /\ ListInv => Ale!TypeOK
  /\ RoundingInv => Rou!TypeOK
  BY DEF PagesInv, SummaryInv, TrendInv, ListInv, RoundingInv

(* The variables of every reader keep to their types, whichever runs.      *)
THEOREM ReadersTypes == MCSpec => []TypesOK
  <1> DEFINE I == PagesInv /\ SummaryInv /\ TrendInv /\ ListInv /\ RoundingInv
  <1>1. MCInit => I
    BY ReadersStart, PagesInvInit, SummaryInvInit, TrendInvInit, ListInvInit,
       RoundingInvInit
  <1>2. I /\ [MCNext]_allVars => I'
    BY SideBySide, PagesInvStep, SummaryInvStep, TrendInvStep, ListInvStep,
       RoundingInvStep
  <1>3. I => TypesOK
    BY ReadersTyped DEF TypesOK
  <1>4. QED
    BY <1>1, <1>2, <1>3, PTL DEF MCSpec

=============================================================================
