------------------------- MODULE BudgetAlertsProofs -------------------------
(***************************************************************************)
(* The types of BudgetAlerts, and how far the deduplication of alerts can  *)
(* be trusted when requests overlap, for any number of requests, budgets   *)
(* and alerts.                                                             *)
(***************************************************************************)
EXTENDS BudgetAlerts, FiniteSetTheorems, TLAPS

-----------------------------------------------------------------------------
(* Types.                                                                  *)

(* Answering a sequence of copies leaves a slot well-typed.                *)
LEMMA AnswerType ==
  ASSUME TypeOK, NEW s \in Slots, NEW q \in Seq(Copy), Answer(s, q)
  PROVE  /\ pc' \in [Slots -> {"idle", "reread", "spent", "check", "insert"}]
         /\ todo' \in [Slots -> Seq(Copy)]
         /\ due' \in [Slots -> AlertTypes \union {None}]
         /\ \A o \in Slots :
              /\ pc'[o] \in {"reread", "spent", "check", "insert"}
                    => todo'[o] # <<>>
              /\ pc'[o] \in {"check", "insert"} => due'[o] # None
  <1>1. /\ pc'[s] = (IF q = <<>> THEN "idle" ELSE "spent")
        /\ todo'[s] = q
    BY DEF TypeOK, Answer
  <1>2. \A o \in Slots \ {s} :
          pc'[o] = pc[o] /\ todo'[o] = todo[o] /\ due'[o] = due[o]
    BY DEF TypeOK, Answer
  <1>3. /\ pc' \in [Slots -> {"idle", "reread", "spent", "check", "insert"}]
        /\ todo' \in [Slots -> Seq(Copy)]
        /\ due' \in [Slots -> AlertTypes \union {None}]
    BY DEF TypeOK, Answer
  <1>4. ASSUME NEW o \in Slots
        PROVE  /\ pc'[o] \in {"reread", "spent", "check", "insert"}
                    => todo'[o] # <<>>
               /\ pc'[o] \in {"check", "insert"} => due'[o] # None
    <2>1. CASE o = s
      BY <1>1, <2>1
    <2>2. CASE o # s
      BY <1>2, <2>2 DEF TypeOK
    <2>3. QED
      BY <2>1, <2>2
  <1>5. QED
    BY <1>3, <1>4

(* What is read of a live budget is a copy of a row.                       *)
LEMMA ReadType ==
  ASSUME TypeOK, NEW b \in BudgetIds, Live(b)
  PROVE  Read(b) \in Copy
  BY DEF TypeOK, Live, Read, Copy

LEMMA HeadType ==
  ASSUME TypeOK, NEW s \in Slots, pc[s] \in {"reread", "spent", "check", "insert"}
  PROVE  /\ todo[s] \in Seq(Copy) /\ todo[s] # <<>>
         /\ todo[s][1] \in Copy
         /\ Tail(todo[s]) \in Seq(Copy)
  BY DEF TypeOK

(* An update leaves a row of the table.                                    *)
LEMMA UpdatedType ==
  ASSUME NEW r \in Budget, NEW m \in Limits \union {None},
         NEW on \in BOOLEAN \union {None}
  PROVE  Updated(r, m, on) \in Budget
  <1> DEFINE mm == IF m # None THEN m ELSE r.limit
             nn == IF on # None THEN on ELSE r.active
  <1>1. mm \in Limits
    BY DEF Budget
  <1>2. nn \in BOOLEAN
    <2>1. r.active \in BOOLEAN
      BY DEF Budget
    <2>2. CASE on = None
      BY <2>1, <2>2
    <2>3. CASE on # None
      BY <2>3, Zenon
    <2>4. QED
      BY <2>2, <2>3
  <1>3. Updated(r, m, on) = [r EXCEPT !.limit = mm, !.active = nn]
    BY Zenon DEF Updated
  <1> HIDE DEF mm, nn
  <1>4. QED
    BY <1>1, <1>2, <1>3 DEF Budget

LEMMA LiveFinite ==
  ASSUME NEW S, S \subseteq BudgetIds
  PROVE  Cardinality(S) \in Nat
  <1>1. IsFiniteSet(BudgetIds)
    BY BudgetAlertsAssumption, FS_Interval DEF BudgetIds
  <1>2. QED
    BY <1>1, FS_Subset, FS_CardinalityType

LEMMA TypeStep ==
  ASSUME TypeOK, [Next]_vars
  PROVE  TypeOK'
  <1> USE BudgetAlertsAssumption DEF tables, world
  <1>1. CASE UNCHANGED vars
    BY <1>1 DEF vars, TypeOK
  <1>2. ASSUME NEW s \in Slots, CreateBudget(s) PROVE TypeOK'
    <2>1. PICK c \in category \union {None}, m \in Limits :
            LET new == [cat |-> c, limit |-> m, active |-> TRUE, live |-> TRUE]
            IN  /\ budget' = [budget EXCEPT ![nextBudget] = new]
                /\ Answer(s, <<[id |-> nextBudget, row |-> new]>>)
      BY <1>2 DEF CreateBudget
    <2> DEFINE new == [cat |-> c, limit |-> m, active |-> TRUE, live |-> TRUE]
               copy == [id |-> nextBudget, row |-> new]
    <2>2. new \in Budget /\ nextBudget \in BudgetIds
      BY <1>2 DEF CreateBudget, Budget, TypeOK, BudgetIds
    <2>3. copy \in Copy
      BY <2>2 DEF Copy
    <2> HIDE DEF new
    <2>4. <<copy>> \in Seq(Copy)
      BY <2>3
    <2>5. /\ budget' = [budget EXCEPT ![nextBudget] = new]
          /\ Answer(s, <<copy>>)
      BY <2>1 DEF new
    <2> HIDE DEF copy
    <2>6. nextBudget' \in 1 .. MaxBudgets + 1
      BY <1>2 DEF CreateBudget, TypeOK
    <2>7. budget' \in [BudgetIds -> Budget \union {None}]
      BY <2>2, <2>5 DEF TypeOK
    <2>8. QED
      BY <1>2, <2>4, <2>5, <2>6, <2>7, AnswerType DEF CreateBudget, TypeOK
  <1>3. ASSUME NEW s \in Slots, GetBudget(s) PROVE TypeOK'
    <2>1. PICK b \in BudgetIds : Live(b) /\ Answer(s, <<Read(b)>>)
      BY <1>3 DEF GetBudget
    <2>2. Read(b) \in Copy
      BY <2>1, ReadType
    <2>3. <<Read(b)>> \in Seq(Copy)
      BY <2>2
    <2>4. QED
      BY <1>3, <2>1, <2>3, AnswerType DEF GetBudget, TypeOK
  <1>4. ASSUME NEW s \in Slots, ListBudgets(s) PROVE TypeOK'
    <2> DEFINE live == {b \in BudgetIds : Live(b)}
               places == 1 .. Cardinality(live)
    <2>1. PICK q \in [places -> live] :
            Answer(s, [k \in places |-> Read(q[k])])
      BY <1>4 DEF ListBudgets
    <2>2. \A k \in places : Read(q[k]) \in Copy
      BY ReadType
    <2>3. Cardinality(live) \in Nat
      BY LiveFinite
    <2>4. [k \in places |-> Read(q[k])] \in Seq(Copy)
      BY <2>2, <2>3
    <2>5. QED
      BY <1>4, <2>1, <2>4, AnswerType DEF ListBudgets, TypeOK
  <1>5. ASSUME NEW s \in Slots, UpdateBudget(s) PROVE TypeOK'
    <2>1. PICK b \in BudgetIds, m \in Limits \union {None},
               on \in BOOLEAN \union {None} :
            /\ Live(b)
            /\ budget' = [budget EXCEPT ![b] = Updated(@, m, on)]
            /\ todo' = [todo EXCEPT ![s] = <<Read(b)'>>]
      BY <1>5 DEF UpdateBudget
    <2>2. budget[b] \in Budget
      BY <2>1, ReadType DEF Live, TypeOK
    <2>3. budget' \in [BudgetIds -> Budget \union {None}]
      <3>1. Updated(budget[b], m, on) \in Budget
        BY <2>2, UpdatedType
      <3>2. budget' = [budget EXCEPT ![b] = Updated(budget[b], m, on)]
        BY <2>1 DEF TypeOK
      <3>3. QED
        BY <3>1, <3>2 DEF TypeOK
    <2>3a. Read(b)' \in Copy
      <3>1. budget'[b] = Updated(budget[b], m, on)
        BY <2>1 DEF TypeOK
      <3>2. QED
        BY <2>2, <3>1, UpdatedType DEF Read, Copy
    <2>4. /\ pc' = [pc EXCEPT ![s] = "reread"] /\ UNCHANGED due
          /\ pc[s] = "idle"
      BY <1>5 DEF UpdateBudget
    <2>5. todo' \in [Slots -> Seq(Copy)] /\ todo'[s] # <<>>
      BY <2>1, <2>3a DEF TypeOK
    <2>6. \A o \in Slots \ {s} : pc'[o] = pc[o] /\ todo'[o] = todo[o]
      BY <2>1, <2>4 DEF TypeOK
    <2>7. \A o \in Slots :
            /\ pc'[o] \in {"reread", "spent", "check", "insert"}
                  => todo'[o] # <<>>
            /\ pc'[o] \in {"check", "insert"} => due'[o] # None
      BY <2>4, <2>5, <2>6 DEF TypeOK
    <2>8. QED
      BY <1>5, <2>3, <2>4, <2>5, <2>7 DEF UpdateBudget, TypeOK
  <1>6. ASSUME NEW s \in Slots, Reread(s) PROVE TypeOK'
    <2> DEFINE b == todo[s][1].id
               q == IF Live(b) THEN <<Read(b)>> ELSE <<>>
    <2>1. b \in BudgetIds
      BY <1>6, HeadType DEF Reread, Copy
    <2>2. q \in Seq(Copy)
      BY <2>1, ReadType
    <2>3. Answer(s, q)
      BY <1>6 DEF Reread
    <2> HIDE DEF q
    <2>4. QED
      BY <1>6, <2>2, <2>3, AnswerType DEF Reread, TypeOK
  <1>7. ASSUME NEW s \in Slots, Judge(s) PROVE TypeOK'
    <2> DEFINE r == todo[s][1].row
               type == AlertFor(r.limit, SpentOn(r.cat))
    <2>1. /\ todo[s] \in Seq(Copy) /\ todo[s] # <<>>
          /\ Tail(todo[s]) \in Seq(Copy) /\ pc[s] = "spent"
      BY <1>7, HeadType DEF Judge
    <2>2. type \in AlertTypes \union {None}
      BY DEF AlertFor, AlertTypes
    <2>3. UNCHANGED <<tables, world>>
      BY <1>7 DEF Judge
    <2>4. CASE Answer(s, Tail(todo[s]))
      BY <2>1, <2>3, <2>4, AnswerType DEF TypeOK
    <2>5. CASE /\ type # None
               /\ pc' = [pc EXCEPT ![s] = "check"]
               /\ due' = [due EXCEPT ![s] = type]
               /\ UNCHANGED todo
      <3> HIDE DEF type
      <3>1. /\ due' \in [Slots -> AlertTypes \union {None}]
            /\ due'[s] # None
            /\ pc' \in [Slots -> {"idle", "reread", "spent", "check", "insert"}]
            /\ \A o \in Slots \ {s} : due'[o] = due[o] /\ pc'[o] = pc[o]
        BY <2>2, <2>5 DEF TypeOK
      <3>2. QED
        BY <2>1, <2>3, <2>5, <3>1 DEF TypeOK
    <2>6. QED
      BY <1>7, <2>4, <2>5 DEF Judge
  <1>8. ASSUME NEW s \in Slots, CheckUnread(s) PROVE TypeOK'
    <2>1. /\ todo[s] # <<>> /\ Tail(todo[s]) \in Seq(Copy)
          /\ due[s] # None /\ UNCHANGED <<tables, world>>
      BY <1>8, HeadType DEF CheckUnread, TypeOK
    <2>2. CASE Answer(s, Tail(todo[s]))
      BY <2>1, <2>2, AnswerType DEF TypeOK
    <2>3. CASE pc' = [pc EXCEPT ![s] = "insert"] /\ UNCHANGED <<todo, due>>
      BY <2>1, <2>3 DEF TypeOK
    <2>4. QED
      BY <1>8, <2>2, <2>3 DEF CheckUnread
  <1>9. ASSUME NEW s \in Slots, InsertAlert(s) PROVE TypeOK'
    <2>1. /\ todo[s][1] \in Copy /\ Tail(todo[s]) \in Seq(Copy)
          /\ due[s] \in AlertTypes
      BY <1>9, HeadType DEF InsertAlert, TypeOK
    <2> DEFINE new == [budget |-> todo[s][1].id, type |-> due[s], read |-> FALSE]
    <2>2. new \in Alert
      BY <2>1 DEF Alert, Copy
    <2>3. alert' = [alert EXCEPT ![nextAlert] = new]
      BY <1>9 DEF InsertAlert
    <2> HIDE DEF new
    <2>4. alert' \in [AlertIds -> Alert \union {None}]
      BY <2>2, <2>3 DEF TypeOK
    <2>5. nextAlert' \in 1 .. MaxAlerts + 1
      BY <1>9 DEF InsertAlert, TypeOK
    <2>6. QED
      BY <1>9, <2>1, <2>4, <2>5, AnswerType DEF InsertAlert, TypeOK
  <1>10. ASSUME NEW s \in Slots, AlertFails(s) PROVE TypeOK'
    BY <1>10, HeadType, AnswerType DEF AlertFails, TypeOK
  <1>11. ASSUME NEW s \in Slots, RequestFails(s) PROVE TypeOK'
    <2>1. <<>> \in Seq(Copy)
      OBVIOUS
    <2>2. Answer(s, <<>>) /\ UNCHANGED <<tables, world>>
      BY <1>11 DEF RequestFails
    <2>3. QED
      BY <2>1, <2>2, AnswerType DEF TypeOK
  <1>12. ASSUME NEW b \in BudgetIds, DeleteBudget(b) PROVE TypeOK'
    <2>1. [budget[b] EXCEPT !.live = FALSE] \in Budget
      <3>1. budget[b] \in Budget
        BY <1>12 DEF DeleteBudget, Live, TypeOK
      <3>2. QED
        BY <3>1 DEF Budget
    <2>2. budget' = [budget EXCEPT ![b] = [budget[b] EXCEPT !.live = FALSE]]
      BY <1>12 DEF DeleteBudget, TypeOK
    <2>3. budget' \in [BudgetIds -> Budget \union {None}]
      BY <2>1, <2>2 DEF TypeOK
    <2>4. QED
      BY <1>12, <2>3 DEF DeleteBudget, TypeOK
  <1>13. ASSUME NEW i \in AlertIds, MarkRead(i) \/ DeleteAlert(i) PROVE TypeOK'
    <2>1. CASE MarkRead(i)
      <3>1. [alert[i] EXCEPT !.read = TRUE] \in Alert
        BY <2>1 DEF MarkRead, TypeOK, Alert
      <3>2. alert' = [alert EXCEPT ![i] = [alert[i] EXCEPT !.read = TRUE]]
        BY <2>1 DEF MarkRead, TypeOK
      <3>3. alert' \in [AlertIds -> Alert \union {None}]
        BY <3>1, <3>2 DEF TypeOK
      <3>4. QED
        BY <2>1, <3>3 DEF MarkRead, TypeOK
    <2>2. CASE DeleteAlert(i)
      BY <2>2 DEF DeleteAlert, TypeOK
    <2>3. QED
      BY <1>13, <2>1, <2>2
  <1>14. CASE MarkAllRead
    <2>1. \A i \in AlertIds : alert[i] # None =>
            [alert[i] EXCEPT !.read = TRUE] \in Alert
      BY DEF TypeOK, Alert
    <2>2. alert' \in [AlertIds -> Alert \union {None}]
      BY <1>14, <2>1 DEF MarkAllRead, TypeOK
    <2>3. QED
      BY <1>14, <2>2 DEF MarkAllRead, TypeOK
  <1>15. CASE SpendingChanges
    BY <1>15 DEF SpendingChanges, TypeOK
  <1>17. ASSUME NEW c \in Categories, CategoryDeleted(c) PROVE TypeOK'
    <2>1. budget' \in [BudgetIds -> Budget \union {None}]
      <3>1. \A b \in BudgetIds : budget[b] # None =>
              [budget[b] EXCEPT !.cat = None] \in Budget
        <4>1. \A r \in Budget : [r EXCEPT !.cat = None] \in Budget
          BY DEF Budget
        <4>2. QED
          BY <4>1 DEF TypeOK
      <3>2. QED
        BY <1>17, <3>1 DEF CategoryDeleted, TypeOK
    <2>2. spent' \in [Categories \union {Uncategorised} -> SpentValues]
      BY <1>17 DEF CategoryDeleted, TypeOK
    <2>3. QED
      BY <1>17, <2>1, <2>2 DEF CategoryDeleted, TypeOK
  <1>18. QED
    BY <1>1, <1>2, <1>3, <1>4, <1>5, <1>6, <1>7, <1>8, <1>9, <1>10, <1>11,
       <1>12, <1>13, <1>14, <1>15, <1>17 DEF Next, Step

(* The tables and the local variables of every request keep their types.   *)
THEOREM TypeCorrect == Spec => []TypeOK
  <1>1. Init => TypeOK
    BY BudgetAlertsAssumption
       DEF Init, TypeOK, BudgetIds, AlertIds
  <1>2. TypeOK /\ [Next]_vars => TypeOK'
    BY TypeStep
  <1>3. QED
    BY <1>1, <1>2, PTL DEF Spec

-----------------------------------------------------------------------------
(* Deduplication.  A request that has found no unread alert of a kind may  *)
(* insert one; until it does, it counts against the bound.                 *)

Pending(b, t) ==
    {s \in Slots : pc[s] = "insert" /\ todo[s][1].id = b /\ due[s] = t}

BInv ==
    \A b \in BudgetIds, t \in AlertTypes :
        Cardinality(Unread(b, t)) + Cardinality(Pending(b, t))
            <= Cardinality(Slots)

LEMMA SetsFinite ==
  ASSUME NEW b, NEW t
  PROVE  /\ IsFiniteSet(Unread(b, t)) /\ Cardinality(Unread(b, t)) \in Nat
         /\ IsFiniteSet(Pending(b, t)) /\ Cardinality(Pending(b, t)) \in Nat
         /\ Cardinality(Slots) \in Nat
  <1>1. IsFiniteSet(AlertIds)
    BY BudgetAlertsAssumption, FS_Interval DEF AlertIds
  <1>2. Unread(b, t) \subseteq AlertIds /\ Pending(b, t) \subseteq Slots
    BY DEF Unread, Pending
  <1>3. IsFiniteSet(Unread(b, t)) /\ IsFiniteSet(Pending(b, t))
    BY <1>1, <1>2, FS_Subset, BudgetAlertsAssumption
  <1>4. QED
    BY <1>3, FS_CardinalityType, BudgetAlertsAssumption

LEMMA OneMore ==
  ASSUME NEW S, IsFiniteSet(S), NEW x
  PROVE  /\ IsFiniteSet(S \union {x})
         /\ Cardinality(S \union {x}) <= Cardinality(S) + 1
         /\ Cardinality(S \union {x}) \in Nat
  <1>1. /\ IsFiniteSet(S \union {x})
        /\ \/ Cardinality(S \union {x}) = Cardinality(S)
           \/ Cardinality(S \union {x}) = Cardinality(S) + 1
    BY FS_AddElement
  <1>2. Cardinality(S) \in Nat
    BY FS_CardinalityType
  <1>3. QED
    BY <1>1, <1>2

(* A step that neither adds an unread alert nor a request about to insert  *)
(* one keeps the bound.                                                    *)
LEMMA Shrink ==
  ASSUME BInv, NEW b \in BudgetIds, NEW t \in AlertTypes,
         Unread(b, t)' \subseteq Unread(b, t),
         Pending(b, t)' \subseteq Pending(b, t)
  PROVE  Cardinality(Unread(b, t)') + Cardinality(Pending(b, t)')
            <= Cardinality(Slots)
  <1>1. /\ Cardinality(Unread(b, t)') <= Cardinality(Unread(b, t))
        /\ Cardinality(Pending(b, t)') <= Cardinality(Pending(b, t))
        /\ Cardinality(Unread(b, t)') \in Nat
        /\ Cardinality(Pending(b, t)') \in Nat
    <2>1. IsFiniteSet(Unread(b, t)') /\ IsFiniteSet(Pending(b, t)')
      BY SetsFinite, FS_Subset
    <2>2. QED
      BY <2>1, SetsFinite, FS_Subset, FS_CardinalityType
  <1>2. QED
    BY <1>1, SetsFinite DEF BInv

(* A slot that goes on to its next budget is not about to insert.          *)
LEMMA AnswerPending ==
  ASSUME TypeOK, NEW s \in Slots, NEW q, Answer(s, q), NEW b, NEW t
  PROVE  Pending(b, t)' = Pending(b, t) \ {s}
  <1>1. pc'[s] # "insert"
    BY DEF TypeOK, Answer
  <1>2. \A o \in Slots \ {s} :
          pc'[o] = pc[o] /\ todo'[o] = todo[o] /\ due'[o] = due[o]
    BY DEF TypeOK, Answer
  <1>3. QED
    BY <1>1, <1>2 DEF Pending

LEMMA BoundStep ==
  ASSUME BInv, TypeOK, [Next]_vars
  PROVE  BInv'
  <1> SUFFICES ASSUME NEW b \in BudgetIds, NEW t \in AlertTypes
               PROVE  Cardinality(Unread(b, t)') + Cardinality(Pending(b, t)')
                        <= Cardinality(Slots)
    BY DEF BInv
  <1> DEFINE Goal == Cardinality(Unread(b, t)') + Cardinality(Pending(b, t)')
                        <= Cardinality(Slots)
  <1> USE DEF tables, world
  <1>1. CASE UNCHANGED vars
    BY <1>1, Shrink DEF vars, Unread, Pending
  <1>2. ASSUME NEW s \in Slots, NEW q, Answer(s, q), UNCHANGED alert PROVE Goal
    BY <1>2, AnswerPending, Shrink DEF Unread
  <1>3. ASSUME NEW s \in Slots, UpdateBudget(s) PROVE Goal
    <2>1. Pending(b, t)' \subseteq Pending(b, t)
      <3>1. PICK c \in BudgetIds : todo' = [todo EXCEPT ![s] = <<Read(c)'>>]
        BY <1>3 DEF UpdateBudget
      <3>2. /\ pc'[s] # "insert" /\ due' = due
            /\ \A o \in Slots \ {s} : pc'[o] = pc[o] /\ todo'[o] = todo[o]
        BY <1>3, <3>1 DEF UpdateBudget, TypeOK
      <3>3. QED
        BY <3>2 DEF Pending
    <2>2. UNCHANGED alert
      BY <1>3 DEF UpdateBudget
    <2>3. QED
      BY <2>1, <2>2, Shrink DEF Unread
  <1>4. ASSUME NEW s \in Slots, Judge(s) PROVE Goal
    <2>1. CASE Answer(s, Tail(todo[s]))
      BY <1>2, <1>4, <2>1 DEF Judge
    <2>2. CASE pc' = [pc EXCEPT ![s] = "check"] /\ UNCHANGED todo
      <3>1. PICK type : due' = [due EXCEPT ![s] = type]
        BY <1>4 DEF Judge, Answer
      <3>2. Pending(b, t)' \subseteq Pending(b, t)
        BY <2>2, <3>1 DEF Pending, TypeOK
      <3>3. QED
        BY <1>4, <3>2, Shrink DEF Judge, Unread
    <2>3. QED
      BY <1>4, <2>1, <2>2 DEF Judge
  <1>5. ASSUME NEW s \in Slots, CheckUnread(s) PROVE Goal
    <2>1. CASE Answer(s, Tail(todo[s]))
      BY <1>2, <1>5, <2>1 DEF CheckUnread
    <2>2. CASE /\ ~ExistsUnreadForBudget(todo[s][1].id, due[s])
               /\ pc' = [pc EXCEPT ![s] = "insert"]
               /\ UNCHANGED <<todo, due>>
      <3>1. UNCHANGED alert
        BY <1>5 DEF CheckUnread
      <3>2. CASE todo[s][1].id = b /\ due[s] = t
        <4>1. Unread(b, t)' = {}
          BY <2>2, <3>1, <3>2 DEF ExistsUnreadForBudget, Unread
        <4>2. Pending(b, t)' \subseteq Slots
          BY DEF Pending
        <4>3. /\ Cardinality(Unread(b, t)') = 0
              /\ Cardinality(Pending(b, t)') <= Cardinality(Slots)
          BY <4>1, <4>2, FS_EmptySet, FS_Subset, BudgetAlertsAssumption
        <4>4. Cardinality(Pending(b, t)') \in Nat
          BY <4>2, FS_Subset, FS_CardinalityType, BudgetAlertsAssumption
        <4>5. QED
          BY <4>3, <4>4, SetsFinite
      <3>3. CASE ~(todo[s][1].id = b /\ due[s] = t)
        <4>1. Pending(b, t)' \subseteq Pending(b, t)
          BY <2>2, <3>3 DEF Pending, TypeOK
        <4>2. QED
          BY <3>1, <4>1, Shrink DEF Unread
      <3>4. QED
        BY <3>2, <3>3
    <2>3. QED
      BY <1>5, <2>1, <2>2 DEF CheckUnread
  <1>6. ASSUME NEW s \in Slots, InsertAlert(s) PROVE Goal
    <2>1. /\ pc[s] = "insert" /\ Answer(s, Tail(todo[s]))
          /\ nextAlert \in AlertIds
      BY <1>6 DEF InsertAlert, TypeOK, AlertIds
    <2>2. alert' = [alert EXCEPT ![nextAlert] =
              [budget |-> todo[s][1].id, type |-> due[s], read |-> FALSE]]
      BY <1>6 DEF InsertAlert
    <2>3. Pending(b, t)' = Pending(b, t) \ {s}
      BY <2>1, AnswerPending
    <2>4. CASE todo[s][1].id = b /\ due[s] = t
      <3>1. Unread(b, t)' \subseteq Unread(b, t) \union {nextAlert}
        BY <2>1, <2>2 DEF Unread, TypeOK
      <3>2. s \in Pending(b, t)
        BY <2>1, <2>4 DEF Pending
      <3>3. Cardinality(Pending(b, t)') = Cardinality(Pending(b, t)) - 1
        BY <2>3, <3>2, SetsFinite, FS_RemoveElement
      <3>4. /\ Cardinality(Unread(b, t)') <= Cardinality(Unread(b, t)) + 1
            /\ Cardinality(Unread(b, t)') \in Nat
        <4>1. /\ IsFiniteSet(Unread(b, t) \union {nextAlert})
              /\ Cardinality(Unread(b, t) \union {nextAlert})
                   <= Cardinality(Unread(b, t)) + 1
              /\ Cardinality(Unread(b, t) \union {nextAlert}) \in Nat
          BY SetsFinite, OneMore
        <4>2. /\ IsFiniteSet(Unread(b, t)')
              /\ Cardinality(Unread(b, t)')
                   <= Cardinality(Unread(b, t) \union {nextAlert})
          BY <3>1, <4>1, FS_Subset
        <4>3. Cardinality(Unread(b, t)') \in Nat
          BY <4>2, FS_CardinalityType
        <4>4. QED
          BY <4>1, <4>2, <4>3, SetsFinite
      <3>5. QED
        BY <3>3, <3>4, SetsFinite DEF BInv
    <2>5. CASE ~(todo[s][1].id = b /\ due[s] = t)
      <3>1. Unread(b, t)' \subseteq Unread(b, t)
        BY <2>1, <2>2, <2>5 DEF Unread, TypeOK
      <3>2. QED
        BY <2>3, <3>1, Shrink
    <2>6. QED
      BY <2>4, <2>5
  <1>7. ASSUME UNCHANGED <<pc, todo, due>>,
               \A i \in AlertIds : alert'[i] # None /\ ~alert'[i].read =>
                                   alert'[i] = alert[i]
        PROVE  Goal
    <2>1. Unread(b, t)' \subseteq Unread(b, t) /\ Pending(b, t)' = Pending(b, t)
      BY <1>7 DEF Unread, Pending
    <2>2. QED
      BY <2>1, Shrink
  <1>8. ASSUME NEW i \in AlertIds, MarkRead(i) \/ DeleteAlert(i) PROVE Goal
    <2>1. CASE MarkRead(i)
      <3>1. /\ alert' = [alert EXCEPT ![i] = [alert[i] EXCEPT !.read = TRUE]]
            /\ alert[i] \in Alert
        BY <2>1 DEF MarkRead, TypeOK
      <3>2. alert'[i].read = TRUE /\ \A j \in AlertIds \ {i} : alert'[j] = alert[j]
        BY <3>1 DEF Alert, TypeOK
      <3>3. QED
        BY <1>7, <2>1, <3>2 DEF MarkRead
    <2>2. CASE DeleteAlert(i)
      BY <1>7, <2>2 DEF DeleteAlert, TypeOK
    <2>3. QED
      BY <1>8, <2>1, <2>2
  <1>9. ASSUME MarkAllRead PROVE Goal
    <2>1. \A i \in AlertIds : alert[i] # None =>
            [alert[i] EXCEPT !.read = TRUE].read = TRUE
      BY DEF TypeOK, Alert
    <2>2. \A i \in AlertIds : alert'[i] = None \/ alert'[i].read
      BY <1>9, <2>1 DEF MarkAllRead, TypeOK
    <2>3. QED
      BY <1>7, <1>9, <2>2 DEF MarkAllRead
  <1>10. CASE \/ \E c \in BudgetIds : DeleteBudget(c)
              \/ SpendingChanges
              \/ \E c \in Categories : CategoryDeleted(c)
    <2>1. UNCHANGED <<alert, pc, todo, due>>
      BY <1>10 DEF DeleteBudget, SpendingChanges, CategoryDeleted
    <2>2. QED
      BY <1>7, <2>1
  <1>11. ASSUME NEW s \in Slots,
                \/ CreateBudget(s) \/ GetBudget(s) \/ ListBudgets(s)
                \/ Reread(s) \/ AlertFails(s) \/ RequestFails(s)
         PROVE  Goal
    <2>1. UNCHANGED alert /\ \E q : Answer(s, q)
      BY <1>11 DEF CreateBudget, GetBudget, ListBudgets, Reread, AlertFails,
                   RequestFails
    <2>2. QED
      BY <1>2, <2>1
  <1>12. QED
    BY <1>1, <1>3, <1>4, <1>5, <1>6, <1>8, <1>9, <1>10, <1>11 DEF Next, Step

(* However many requests overlap, there are at most as many unread alerts  *)
(* of one kind for one budget as requests can run at a time: each of them  *)
(* can pass the check of CreateBudgetAlert once before the first inserts.  *)
THEOREM Deduplicated == Spec => []DuplicatesBounded
  <1>1. Init => BInv
    <2> SUFFICES ASSUME Init, NEW b \in BudgetIds, NEW t \in AlertTypes
                 PROVE  Cardinality(Unread(b, t)) + Cardinality(Pending(b, t))
                          <= Cardinality(Slots)
      BY DEF BInv
    <2>1. Unread(b, t) = {} /\ Pending(b, t) = {}
      BY DEF Init, Unread, Pending
    <2>2. QED
      BY <2>1, FS_EmptySet, SetsFinite
  <1>2. TypeOK /\ BInv /\ [Next]_vars => BInv'
    BY BoundStep
  <1>3. BInv => DuplicatesBounded
    BY SetsFinite DEF BInv, DuplicatesBounded
  <1>4. QED
    BY <1>1, <1>2, <1>3, TypeCorrect, PTL DEF Spec

(* With one request at a time an unread alert is never duplicated, as the  *)
(* README says.                                                            *)
THEOREM SerialDeduplicated ==
  ASSUME Cardinality(Slots) = 1
  PROVE  Spec => []OneUnreadEach
  <1>1. DuplicatesBounded => OneUnreadEach
    BY DEF DuplicatesBounded, OneUnreadEach
  <1>2. QED
    BY <1>1, Deduplicated, PTL

-----------------------------------------------------------------------------
(* Undue alerts.  As long as nobody changes a budget a request is at work  *)
(* on, the request holds a true copy of it, and the alert it has decided   *)
(* on has been called for.                                                 *)

IsTrue(c) == c.row = budget[c.id] /\ c.row.live
IsTrueAfter(c) == c.row = budget'[c.id] /\ c.row.live

Fresh(s) ==
    /\ \A k \in DOMAIN todo[s] : IsTrue(todo[s][k])
    /\ pc[s] \in {"check", "insert"} => <<todo[s][1].id, due[s]>> \in wasDue

FInv ==
    /\ stale \subseteq AtWork
    /\ \A s \in AtWork \ stale : Fresh(s)

(* What a slot at work has in hand is still true after a step, unless it   *)
(* is stale then.                                                          *)
LEMMA StaysTrue ==
  ASSUME FInv, Next, NEW s \in AtWork, s \in AtWork' => s \notin stale',
         s \in AtWork'
  PROVE  /\ s \notin stale /\ Fresh(s)
         /\ \A k \in DOMAIN todo[s] : IsTrueAfter(todo[s][k])
         /\ wasDue \subseteq wasDue'
  <1>1. s \notin stale /\ s \notin Outdated /\ wasDue \subseteq wasDue'
    BY DEF Next
  <1>2. \A k \in DOMAIN todo[s] :
          budget'[todo[s][k].id] = budget[todo[s][k].id]
    BY <1>1 DEF Outdated
  <1>3. Fresh(s)
    BY <1>1 DEF FInv
  <1>4. QED
    BY <1>1, <1>2, <1>3 DEF Fresh, IsTrue, IsTrueAfter

(* A slot that a step does not move stays fresh.                           *)
LEMMA UnmovedFresh ==
  ASSUME FInv, Next, NEW s \in AtWork' \ stale',
         pc'[s] = pc[s], todo'[s] = todo[s], due'[s] = due[s]
  PROVE  Fresh(s)'
  <1>1. s \in AtWork
    BY DEF AtWork
  <1>2. /\ \A k \in DOMAIN todo[s] : IsTrueAfter(todo[s][k])
        /\ wasDue \subseteq wasDue' /\ Fresh(s)
    BY <1>1, StaysTrue
  <1>3. QED
    BY <1>2 DEF Fresh, IsTrue, IsTrueAfter

(* Every slot is fresh after one has set out to answer true copies.        *)
LEMMA AnswerFresh ==
  ASSUME TypeOK, FInv, Next, NEW s \in Slots, NEW q, Answer(s, q),
         s \in AtWork' \ stale' => \A k \in DOMAIN q : IsTrueAfter(q[k])
  PROVE  \A o \in AtWork' \ stale' : Fresh(o)'
  <1>1. SUFFICES ASSUME NEW o \in AtWork' \ stale'
                 PROVE  Fresh(o)'
    OBVIOUS
  <1>2. CASE o = s
    <2>1. todo'[s] = q /\ pc'[s] \in {"idle", "spent"}
      BY DEF Answer, TypeOK
    <2>2. QED
      BY <1>2, <2>1 DEF Fresh, IsTrue, IsTrueAfter
  <1>3. CASE o # s
    <2>1. o \in Slots
      BY DEF AtWork
    <2>2. pc'[o] = pc[o] /\ todo'[o] = todo[o] /\ due'[o] = due[o]
      BY <1>3, <2>1 DEF Answer, TypeOK
    <2>3. QED
      BY <2>2, UnmovedFresh
  <1>4. QED
    BY <1>2, <1>3

(* The rest of what a slot at work has in hand.                            *)
LEMMA TailTrue ==
  ASSUME TypeOK, FInv, Next, NEW s \in AtWork, s \in AtWork' \ stale'
  PROVE  \A k \in DOMAIN Tail(todo[s]) : IsTrueAfter(Tail(todo[s])[k])
  <1>1. todo[s] \in Seq(Copy) /\ todo[s] # <<>>
    BY DEF AtWork, TypeOK
  <1>2. \A k \in DOMAIN todo[s] : IsTrueAfter(todo[s][k])
    BY StaysTrue
  <1>3. ASSUME NEW k \in DOMAIN Tail(todo[s])
        PROVE  IsTrueAfter(Tail(todo[s])[k])
    <2>1. k + 1 \in DOMAIN todo[s] /\ Tail(todo[s])[k] = todo[s][k + 1]
      BY <1>1
    <2>2. QED
      BY <1>2, <2>1
  <1>4. QED
    BY <1>3

LEMMA ReadTrue ==
  ASSUME NEW b \in BudgetIds, Live(b), UNCHANGED budget
  PROVE  IsTrueAfter(Read(b))
  BY DEF Live, Read, IsTrueAfter

(* What maybeFireAlert decides from a true copy is called for.             *)
LEMMA JudgedRight ==
  ASSUME NEW b \in BudgetIds, NEW row \in Budget, row = budget[b], row.live,
         AlertFor(row.limit, SpentOn(row.cat)) # None
  PROVE  <<b, AlertFor(row.limit, SpentOn(row.cat))>> \in CalledFor
  <1> DEFINE total == SpentOn(row.cat)
             type  == AlertFor(row.limit, total)
  <1>1. Live(b)
    BY BudgetAlertsAssumption DEF Live
  <1>2. type \in AlertTypes
    BY DEF AlertFor, AlertTypes
  <1>3. IF type = "budget_exceeded" THEN total >= row.limit
        ELSE PercentUsed(row.limit, total) >= 8000
    BY DEF AlertFor
  <1>4. total = SpentOn(budget[b].cat)
    OBVIOUS
  <1> HIDE DEF total, type
  <1>5. <<b, type>> \in CalledFor
    BY <1>1, <1>2, <1>3, <1>4 DEF CalledFor
  <1>6. QED
    BY <1>5 DEF type, total

LEMMA FreshStep ==
  ASSUME TypeOK, FInv, Next
  PROVE  \A o \in AtWork' \ stale' : Fresh(o)'
  <1> DEFINE Goal == \A o \in AtWork' \ stale' : Fresh(o)'
  <1>1. ASSUME NEW s \in Slots, CreateBudget(s) PROVE Goal
    <2>1. PICK c \in category \union {None}, m \in Limits :
            LET new == [cat |-> c, limit |-> m, active |-> TRUE, live |-> TRUE]
            IN  /\ budget' = [budget EXCEPT ![nextBudget] = new]
                /\ Answer(s, <<[id |-> nextBudget, row |-> new]>>)
      BY <1>1 DEF CreateBudget
    <2> DEFINE new == [cat |-> c, limit |-> m, active |-> TRUE, live |-> TRUE]
               copy == [id |-> nextBudget, row |-> new]
    <2>2. budget'[nextBudget] = new
      <3>1. nextBudget \in BudgetIds
        BY <1>1 DEF CreateBudget, TypeOK, BudgetIds
      <3>2. budget' = [budget EXCEPT ![nextBudget] = new]
        BY <2>1
      <3> HIDE DEF new
      <3>3. QED
        BY <3>1, <3>2 DEF TypeOK
    <2>3. IsTrueAfter(copy)
      BY <2>2 DEF IsTrueAfter
    <2>4. Answer(s, <<copy>>)
      BY <2>1
    <2> HIDE DEF copy
    <2>5. \A k \in DOMAIN <<copy>> : IsTrueAfter(<<copy>>[k])
      BY <2>3
    <2>6. QED
      BY <2>4, <2>5, AnswerFresh
  <1>2. ASSUME NEW s \in Slots, GetBudget(s) PROVE Goal
    <2>1. PICK b \in BudgetIds : Live(b) /\ Answer(s, <<Read(b)>>)
      BY <1>2 DEF GetBudget
    <2>2. IsTrueAfter(Read(b))
      BY <1>2, <2>1, ReadTrue DEF GetBudget, tables
    <2>3. \A k \in DOMAIN <<Read(b)>> : IsTrueAfter(<<Read(b)>>[k])
      BY <2>2
    <2>4. QED
      BY <2>1, <2>3, AnswerFresh
  <1>3. ASSUME NEW s \in Slots, ListBudgets(s) PROVE Goal
    <2> DEFINE live == {b \in BudgetIds : Live(b)}
               places == 1 .. Cardinality(live)
    <2>1. PICK q \in [places -> live] :
            Answer(s, [k \in places |-> Read(q[k])])
      BY <1>3 DEF ListBudgets
    <2>2. UNCHANGED budget
      BY <1>3 DEF ListBudgets, tables
    <2> DEFINE all == [k \in places |-> Read(q[k])]
    <2>3. \A k \in DOMAIN all : IsTrueAfter(all[k])
      BY <2>2, ReadTrue
    <2>4. Answer(s, all)
      BY <2>1
    <2> HIDE DEF all
    <2>5. QED
      BY <2>3, <2>4, AnswerFresh
  <1>4. ASSUME NEW s \in Slots, UpdateBudget(s) PROVE Goal
    <2>1. pc' = [pc EXCEPT ![s] = "reread"] /\ UNCHANGED due
          /\ \A o \in Slots \ {s} : todo'[o] = todo[o]
      BY <1>4 DEF UpdateBudget, TypeOK
    <2>2. ASSUME NEW o \in AtWork' \ stale' PROVE Fresh(o)'
      <3>1. o # s /\ o \in Slots
        BY <2>1 DEF AtWork, TypeOK
      <3>2. pc'[o] = pc[o] /\ todo'[o] = todo[o] /\ due'[o] = due[o]
        BY <2>1, <3>1 DEF TypeOK
      <3>3. QED
        BY <3>2, UnmovedFresh
    <2>3. QED
      BY <2>2
  <1>5. ASSUME NEW s \in Slots, Reread(s) PROVE Goal
    <2> DEFINE b == todo[s][1].id
    <2>1. b \in BudgetIds /\ UNCHANGED budget
      BY <1>5, HeadType DEF Reread, tables, Copy
    <2>2. CASE Live(b)
      <3>1. IsTrueAfter(Read(b))
        BY <2>1, <2>2, ReadTrue
      <3>2. \A k \in DOMAIN <<Read(b)>> : IsTrueAfter(<<Read(b)>>[k])
        BY <3>1
      <3>3. Answer(s, <<Read(b)>>)
        BY <1>5, <2>2 DEF Reread
      <3>4. QED
        BY <3>2, <3>3, AnswerFresh
    <2>3. CASE ~Live(b)
      <3>1. Answer(s, <<>>)
        BY <1>5, <2>3 DEF Reread
      <3>2. QED
        BY <3>1, AnswerFresh
    <2>4. QED
      BY <2>2, <2>3
  <1>6. ASSUME NEW s \in Slots, pc[s] \in {"spent", "check", "insert"},
               Answer(s, Tail(todo[s]))
        PROVE  Goal
    <2>1. s \in AtWork
      BY <1>6 DEF AtWork
    <2>2. s \in AtWork' \ stale' =>
            \A k \in DOMAIN Tail(todo[s]) : IsTrueAfter(Tail(todo[s])[k])
      BY <2>1, TailTrue
    <2>3. QED
      BY <1>6, <2>2, AnswerFresh
  <1>7. ASSUME NEW s \in Slots, Judge(s) PROVE Goal
    <2> DEFINE row  == todo[s][1].row
               b    == todo[s][1].id
               type == AlertFor(row.limit, SpentOn(row.cat))
    <2>1. CASE row.active /\ type # None
      <3>1. /\ pc[s] = "spent" /\ pc' = [pc EXCEPT ![s] = "check"]
            /\ due' = [due EXCEPT ![s] = type]
            /\ UNCHANGED <<todo, budget, category, spent>>
        BY <1>7, <2>1 DEF Judge, tables, world
      <3>2. ASSUME NEW o \in AtWork' \ stale', o # s PROVE Fresh(o)'
        <4>1. pc'[o] = pc[o] /\ todo'[o] = todo[o] /\ due'[o] = due[o]
          BY <3>1, <3>2 DEF AtWork, TypeOK
        <4>2. QED
          BY <4>1, UnmovedFresh
      <3>3. ASSUME s \in AtWork' \ stale' PROVE Fresh(s)'
        <4>1. s \in AtWork
          BY <3>1 DEF AtWork
        <4>2. \A k \in DOMAIN todo[s] : IsTrueAfter(todo[s][k])
          BY <3>3, <4>1, StaysTrue
        <4>3. 1 \in DOMAIN todo[s] /\ todo[s][1] \in Copy
          BY <1>7, <3>1, HeadType
        <4>4. row = budget'[b] /\ row.live /\ b \in BudgetIds
          BY <4>2, <4>3 DEF IsTrueAfter, Copy
        <4>5. row = budget[b] /\ row \in Budget
          BY <3>1, <4>3, <4>4 DEF Copy
        <4>6. <<b, type>> \in CalledFor
          BY <2>1, <4>4, <4>5, JudgedRight
        <4>7. CalledFor' = CalledFor
          BY <3>1 DEF CalledFor, Live, SpentOn, PercentUsed
        <4>8. todo'[s][1].id = b /\ due'[s] = type
          BY <3>1 DEF TypeOK
        <4>9. <<todo'[s][1].id, due'[s]>> \in wasDue'
          <5>1. <<b, type>> \in wasDue'
            BY <4>6, <4>7 DEF Next
          <5>2. QED
            BY <4>8, <5>1
        <4>10. QED
          BY <3>1, <4>2, <4>9 DEF Fresh, IsTrue, IsTrueAfter
      <3>4. QED
        BY <3>2, <3>3
    <2>2. CASE ~(row.active /\ type # None)
      <3>1. pc[s] = "spent" /\ Answer(s, Tail(todo[s]))
        BY <1>7, <2>2 DEF Judge
      <3>2. QED
        BY <1>6, <3>1
    <2>3. QED
      BY <2>1, <2>2
  <1>8. ASSUME NEW s \in Slots, CheckUnread(s) PROVE Goal
    <2>1. CASE Answer(s, Tail(todo[s]))
      BY <1>6, <1>8, <2>1 DEF CheckUnread
    <2>2. CASE pc' = [pc EXCEPT ![s] = "insert"] /\ UNCHANGED <<todo, due>>
      <3>1. ASSUME NEW o \in AtWork' \ stale', o # s PROVE Fresh(o)'
        <4>1. pc'[o] = pc[o] /\ todo'[o] = todo[o] /\ due'[o] = due[o]
          BY <2>2, <3>1 DEF AtWork, TypeOK
        <4>2. QED
          BY <4>1, UnmovedFresh
      <3>2. ASSUME s \in AtWork' \ stale' PROVE Fresh(s)'
        <4>1. s \in AtWork /\ pc[s] = "check"
          BY <1>8 DEF CheckUnread, AtWork
        <4>2. /\ \A k \in DOMAIN todo[s] : IsTrueAfter(todo[s][k])
              /\ wasDue \subseteq wasDue' /\ Fresh(s)
          BY <3>2, <4>1, StaysTrue
        <4>3. QED
          BY <2>2, <4>1, <4>2 DEF Fresh, IsTrue, IsTrueAfter
      <3>3. QED
        BY <3>1, <3>2
    <2>3. QED
      BY <1>8, <2>1, <2>2 DEF CheckUnread
  <1>9. ASSUME NEW s \in Slots, InsertAlert(s) \/ AlertFails(s) PROVE Goal
    BY <1>6, <1>9 DEF InsertAlert, AlertFails
  <1>10. ASSUME NEW s \in Slots, RequestFails(s) PROVE Goal
    <2>1. Answer(s, <<>>)
      BY <1>10 DEF RequestFails
    <2>2. QED
      BY <2>1, AnswerFresh
  <1>11. CASE \/ \E c \in BudgetIds : DeleteBudget(c)
              \/ \E i \in AlertIds : MarkRead(i) \/ DeleteAlert(i)
              \/ MarkAllRead
              \/ SpendingChanges
              \/ \E c \in Categories : CategoryDeleted(c)
    <2>1. UNCHANGED <<pc, todo, due>>
      BY <1>11 DEF DeleteBudget, MarkRead, DeleteAlert, MarkAllRead,
                   SpendingChanges, CategoryDeleted
    <2>2. QED
      BY <2>1, UnmovedFresh
  <1>12. QED
    BY <1>1, <1>2, <1>3, <1>4, <1>5, <1>7, <1>8, <1>9, <1>10, <1>11
       DEF Next, Step

LEMMA FInvStep == TypeOK /\ FInv /\ [Next]_vars => FInv'
  <1>1. ASSUME TypeOK, FInv, Next PROVE FInv'
    <2>1. stale' \subseteq AtWork'
      BY <1>1 DEF Next
    <2>2. QED
      BY <1>1, <2>1, FreshStep DEF FInv
  <1>2. ASSUME FInv, UNCHANGED vars PROVE FInv'
    BY <1>2 DEF vars, FInv, AtWork, Fresh, IsTrue
  <1>3. QED
    BY <1>1, <1>2

(* An alert that was never due, or that is of a deleted budget, comes from *)
(* a request whose budget was changed or deleted by another request while  *)
(* it was at work on it.                                                   *)
THEOREM UndueOnlyFromStale == Spec => UndueOnlyFromStaleCopy
  <1> DEFINE Undue(i) ==
        alert[i] = None /\ alert'[i] # None =>
          \/ /\ <<alert'[i].budget, alert'[i].type>> \in wasDue
             /\ Live(alert'[i].budget)
          \/ \E s \in stale : /\ pc[s] = "insert" /\ pc'[s] # "insert"
                              /\ todo[s][1].id = alert'[i].budget
  <1>1. Init => FInv
    BY DEF Init, FInv, AtWork
  <1>2. ASSUME TypeOK, FInv, Next, NEW i \in AlertIds,
               alert[i] = None, alert'[i] # None
        PROVE  Undue(i)
    <2>1. ~UNCHANGED alert
      BY <1>2
    <2>2. PICK s \in Slots : InsertAlert(s)
      BY <1>2, <2>1 DEF Next, Step, CreateBudget, GetBudget, ListBudgets,
         UpdateBudget, Reread, Judge, CheckUnread, AlertFails, RequestFails,
         DeleteBudget, MarkRead, DeleteAlert, MarkAllRead, SpendingChanges,
         CategoryDeleted, tables, TypeOK
    <2>3. /\ pc[s] = "insert" /\ s \in AtWork
          /\ alert'[i] = [budget |-> todo[s][1].id, type |-> due[s],
                          read |-> FALSE]
      BY <1>2, <2>2 DEF InsertAlert, AtWork, TypeOK
    <2>4. pc'[s] # "insert"
      <3>1. pc'[s] = IF Tail(todo[s]) = <<>> THEN "idle" ELSE "spent"
        BY <1>2, <2>2 DEF InsertAlert, Answer, TypeOK
      <3>2. QED
        BY <3>1
    <2>5. CASE s \in stale
      BY <2>3, <2>4, <2>5
    <2>6. CASE s \notin stale
      <3>1. Fresh(s) /\ 1 \in DOMAIN todo[s] /\ todo[s][1] \in Copy
        BY <1>2, <2>3, <2>6, HeadType DEF FInv, AtWork
      <3>2. Live(todo[s][1].id)
        BY <3>1, BudgetAlertsAssumption DEF Fresh, IsTrue, Copy, Live
      <3>3. QED
        BY <2>3, <3>1, <3>2 DEF Fresh
    <2>7. QED
      BY <2>5, <2>6
  <1>3. TypeOK /\ FInv /\ [Next]_vars => [\A i \in AlertIds : Undue(i)]_vars
    BY <1>2
  <1>4. QED
    BY <1>1, <1>3, FInvStep, TypeCorrect, PTL
       DEF Spec, UndueOnlyFromStaleCopy

=============================================================================
