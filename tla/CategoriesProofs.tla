-------------------------- MODULE CategoriesProofs --------------------------
(***************************************************************************)
(* Proofs about Categories, for any number of users, requests, categories, *)
(* rules and transactions.                                                 *)
(***************************************************************************)
EXTENDS Categories, TLAPS

(* The requests that are about to write a category.                        *)
Writing(s) == req[s].pc \in {"save", "insert", "delete"}

Saving(s) == req[s].pc \in {"save", "insert"}

(* They write one that was made, and that belongs to their user if it is   *)
(* there; those that work on the same one are of one user, even while it   *)
(* is deleted.  A copy about to be saved keeps the owner.                  *)
Rightful ==
    /\ \A s \in Slots :
         Writing(s) =>
             /\ req[s].cat <= made
             /\ Exists(req[s].cat) => cats[req[s].cat].owner = req[s].user
    /\ \A s, t \in Slots :
         Writing(s) /\ Writing(t) /\ req[s].cat = req[t].cat
             => req[s].user = req[t].user
    /\ \A s \in Slots :
         Saving(s) =>
             /\ req[s].old \in Row
             /\ req[s].new \in Row
             /\ req[s].new.owner = req[s].user
             /\ req[s].old.owner = req[s].user

IInv ==
    /\ TypeOK
    /\ Rightful
    /\ OnlyStaleCopiesUndo
    /\ AutoCategoryRefusedOnlyByOverlap

-----------------------------------------------------------------------------
LEMMA IdleIsRequest == Idle \in Request
  BY CategoriesAssumption DEF Idle, Request, CatIds

(* Initially.                                                              *)
LEMMA InitIInv == Init => IInv
<1> SUFFICES ASSUME Init PROVE IInv
  OBVIOUS
<1> USE CategoriesAssumption
<1>1. /\ cats \in [CatIds -> Row \union {None}]
      /\ \A c \in CatIds : Exists(c) => c = 1
      /\ made = 1 /\ rules = {} /\ txs = <<>> /\ meant = cats /\ raced = {}
  BY DEF Init, Exists
<1>2. req = [s \in Slots |-> Idle] /\ \A s \in Slots : req[s] = Idle
  BY DEF Init
<1>3. \A s \in Slots : req[s].pc = "idle"
  BY <1>2 DEF Idle
<1>4. TypeOK
  <2>1. req \in [Slots -> Request]
    BY <1>2, IdleIsRequest
  <2>4. \A s \in Slots : req[s].pc # "idle" => req[s].user \in Users
    BY <1>3
  <2>2. made \in CatIds /\ \A c \in CatIds : Exists(c) => c <= made
    BY <1>1 DEF CatIds
  <2>3. txs \in Seq(Tx) /\ Len(txs) <= MaxTxs /\ Len(txs) = 0
    BY <1>1
  <2> QED
    BY <1>1, <2>1, <2>2, <2>3, <2>4 DEF TypeOK
<1>5. Rightful
  BY <1>3 DEF Rightful, Writing, Saving
<1>6. OnlyStaleCopiesUndo
  BY <1>1 DEF OnlyStaleCopiesUndo
<1>7. AutoCategoryRefusedOnlyByOverlap
  BY <1>3 DEF AutoCategoryRefusedOnlyByOverlap
<1> QED
  BY <1>4, <1>5, <1>6, <1>7 DEF IInv

-----------------------------------------------------------------------------
(* What the tables need of a step that replaces the request in one slot.   *)

LEMMA OneRequest ==
  ASSUME TypeOK, NEW s \in Slots, NEW r \in Request,
         req' = [req EXCEPT ![s] = r]
  PROVE  /\ req' \in [Slots -> Request]
         /\ req'[s] = r
         /\ \A t \in Slots : t # s => req'[t] = req[t]
  BY DEF TypeOK

(* A step that only changes what one request is about to do, and leaves    *)
(* Rightful true of it.                                                    *)
LEMMA OnlyRequest ==
  ASSUME IInv, NEW s \in Slots, NEW r \in Request,
         req' = [req EXCEPT ![s] = r],
         UNCHANGED <<tables, ghosts>>,
         Rightful',
         r.pc # "idle" => r.user \in Users,
         r.pc = "post" /\ r.auto /\ ~Exists(r.cat) => r.crossed
  PROVE  IInv'
<1>1. /\ req' \in [Slots -> Request]
      /\ req'[s] = r
      /\ \A t \in Slots : t # s => req'[t] = req[t]
  BY OneRequest DEF IInv
<1>2. UNCHANGED <<cats, made, rules, txs, meant, raced>>
  BY DEF tables, ghosts
<1>3. TypeOK'
  BY <1>1, <1>2 DEF IInv, TypeOK, Exists
<1>4. OnlyStaleCopiesUndo'
  BY <1>2 DEF IInv, OnlyStaleCopiesUndo
<1>5. AutoCategoryRefusedOnlyByOverlap'
  BY <1>1, <1>2 DEF IInv, AutoCategoryRefusedOnlyByOverlap, Exists
<1> QED
  BY <1>3, <1>4, <1>5 DEF IInv

(* Rightful of a step that changes one request, if it holds of that one.   *)
LEMMA StillRightful ==
  ASSUME IInv, NEW s \in Slots, NEW r \in Request,
         req' = [req EXCEPT ![s] = r],
         UNCHANGED <<tables, ghosts>>,
         r.pc \in {"save", "insert", "delete"} =>
             /\ r.cat <= made
             /\ Exists(r.cat) => cats[r.cat].owner = r.user
             /\ \A t \in Slots \ {s} :
                  Writing(t) /\ req[t].cat = r.cat => req[t].user = r.user,
         r.pc \in {"save", "insert"} =>
             /\ r.old \in Row
             /\ r.new \in Row
             /\ r.new.owner = r.user
             /\ r.old.owner = r.user
  PROVE  Rightful'
<1>1. /\ req' \in [Slots -> Request]
      /\ req'[s] = r
      /\ \A t \in Slots : t # s => req'[t] = req[t]
  BY OneRequest DEF IInv
<1>2. cats' = cats /\ made' = made
  BY DEF tables
<1>3. ASSUME NEW t \in Slots, Writing(t)'
      PROVE  /\ req'[t].cat <= made'
             /\ cats'[req'[t].cat] # None => cats'[req'[t].cat].owner = req'[t].user
  BY <1>1, <1>2, <1>3 DEF IInv, Rightful, Writing, Exists
<1>4. ASSUME NEW t \in Slots, NEW q \in Slots, Writing(t)', Writing(q)',
             req'[t].cat = req'[q].cat
      PROVE  req'[t].user = req'[q].user
  BY <1>1, <1>4 DEF IInv, Rightful, Writing
<1>5. ASSUME NEW t \in Slots, Saving(t)'
      PROVE  /\ req'[t].old \in Row
             /\ req'[t].new \in Row
             /\ req'[t].new.owner = req'[t].user
             /\ req'[t].old.owner = req'[t].user
  BY <1>1, <1>5 DEF IInv, Rightful, Saving
<1> QED
  BY <1>3, <1>4, <1>5 DEF Rightful, Exists

(* So every such step keeps the invariant.                                 *)
LEMMA RequestStep ==
  ASSUME IInv, NEW s \in Slots, NEW r \in Request,
         req' = [req EXCEPT ![s] = r],
         UNCHANGED <<tables, ghosts>>,
         r.pc \in {"save", "insert", "delete"} =>
             /\ r.cat <= made
             /\ Exists(r.cat) => cats[r.cat].owner = r.user
             /\ \A t \in Slots \ {s} :
                  Writing(t) /\ req[t].cat = r.cat => req[t].user = r.user,
         r.pc \in {"save", "insert"} =>
             /\ r.old \in Row
             /\ r.new \in Row
             /\ r.new.owner = r.user
             /\ r.old.owner = r.user,
         r.pc # "idle" => r.user \in Users,
         r.pc = "post" /\ r.auto /\ ~Exists(r.cat) => r.crossed
  PROVE  IInv'
<1>1. Rightful'
  BY StillRightful
<1> QED
  BY <1>1, OnlyRequest

-----------------------------------------------------------------------------
(* The requests before they write.                                         *)

LEMMA UpdateRequestKeeps ==
  ASSUME IInv, NEW s \in Slots, NEW u \in Users, NEW c \in CatIds,
         NEW name \in Names \union {None}, NEW look \in Looks,
         UpdateRequest(s, u, c, name, look)
  PROVE  IInv'
<1> DEFINE row == [cats[c] EXCEPT !.name = IF name = None THEN @ ELSE name,
                                  !.look = look]
           r == [Idle EXCEPT !.pc = "save", !.user = u, !.cat = c,
                             !.old = cats[c], !.new = row]
<1>1. cats[c] \in Row /\ cats[c].owner = u /\ c <= made /\ Exists(c)
  BY DEF IInv, TypeOK, UpdateRequest, Mine, Exists
<1>2. row \in Row /\ row.owner = u
  BY <1>1 DEF Row
<1>3. /\ r \in Request
      /\ r.pc = "save" /\ r.user = u /\ r.cat = c
      /\ r.old = cats[c] /\ r.new = row
  <2> HIDE DEF row
  <2> QED
    BY <1>1, <1>2, IdleIsRequest DEF Request, Idle
<1>4. ASSUME NEW t \in Slots \ {s}, Writing(t), req[t].cat = c
      PROVE  req[t].user = u
  BY <1>1, <1>4 DEF IInv, Rightful
<1>5. req' = [req EXCEPT ![s] = r] /\ UNCHANGED <<tables, ghosts>>
  BY DEF UpdateRequest
<1> HIDE DEF r, row
<1> QED
  BY <1>1, <1>2, <1>3, <1>4, <1>5, RequestStep

LEMMA DeleteRequestKeeps ==
  ASSUME IInv, NEW s \in Slots, NEW u \in Users, NEW c \in CatIds,
         DeleteRequest(s, u, c)
  PROVE  IInv'
<1> DEFINE r == [Idle EXCEPT !.pc = "delete", !.user = u, !.cat = c]
<1>1. cats[c].owner = u /\ c <= made /\ Exists(c)
  BY DEF IInv, TypeOK, DeleteRequest, Mine
<1>2. r \in Request /\ r.pc = "delete" /\ r.user = u /\ r.cat = c
  BY IdleIsRequest DEF Request, Idle
<1>3. ASSUME NEW t \in Slots \ {s}, Writing(t), req[t].cat = c
      PROVE  req[t].user = u
  BY <1>1, <1>3 DEF IInv, Rightful
<1>4. req' = [req EXCEPT ![s] = r] /\ UNCHANGED <<tables, ghosts>>
  BY DEF DeleteRequest
<1> HIDE DEF r
<1> QED
  BY <1>1, <1>2, <1>3, <1>4, RequestStep

LEMMA PostsKeeps ==
  ASSUME IInv, NEW s \in Slots, NEW u \in Users, NEW c \in CatIds,
         NEW auto \in BOOLEAN, auto => Exists(c),
         Posts(s, u, c, auto), UNCHANGED <<tables, ghosts>>
  PROVE  IInv'
<1> DEFINE r == [Idle EXCEPT !.pc = "post", !.user = u, !.cat = c, !.auto = auto]
<1>1. r \in Request /\ r.pc = "post" /\ r.user = u /\ r.cat = c /\ r.auto = auto
  BY IdleIsRequest DEF Request, Idle
<1>2. req' = [req EXCEPT ![s] = r]
  BY DEF Posts
<1> HIDE DEF r
<1> QED
  BY <1>1, <1>2, RequestStep

LEMMA PostRequestKeeps ==
  ASSUME IInv, NEW s \in Slots, NEW u \in Users, PostRequest(s, u)
  PROVE  IInv'
<1>1. UNCHANGED <<tables, ghosts>>
  BY DEF PostRequest
<1>2. CASE \E c \in CatIds : Posts(s, u, c, FALSE)
  BY <1>1, <1>2, PostsKeeps
<1>3. CASE \E q \in rules : q.user = u /\ Posts(s, u, q.cat, TRUE)
  <2>1. PICK q \in rules : q.user = u /\ Posts(s, u, q.cat, TRUE)
    BY <1>3
  <2>2. q.cat \in CatIds /\ Exists(q.cat)
    BY DEF IInv, TypeOK, Rule
  <2> QED
    BY <1>1, <2>1, <2>2, PostsKeeps
<1> QED
  BY <1>2, <1>3 DEF PostRequest

LEMMA FailKeeps ==
  ASSUME IInv, NEW s \in Slots, Fail(s)
  PROVE  IInv'
<1>1. Idle.pc = "idle" /\ req' = [req EXCEPT ![s] = Idle]
      /\ UNCHANGED <<tables, ghosts>>
  BY DEF Fail, Idle
<1> QED
  BY <1>1, IdleIsRequest, RequestStep

-----------------------------------------------------------------------------
(* The requests that write a category.                                     *)

LEMMA WrittenKeeps ==
  ASSUME IInv, NEW s \in Slots, Saving(s), Written(s)
  PROVE  IInv'
<1> DEFINE c == req[s].cat
<1> USE CategoriesAssumption
<1>1. /\ c \in CatIds /\ c <= made
      /\ req[s].old \in Row /\ req[s].new \in Row
      /\ req[s].new.owner = req[s].user /\ req[s].old.owner = req[s].user
      /\ Exists(c) => cats[c].owner = req[s].user
  BY DEF IInv, TypeOK, Request, Rightful, Saving, Writing
<1>2. /\ cats' = [cats EXCEPT ![c] = req[s].new]
      /\ raced' = IF cats[c] = req[s].old THEN raced ELSE raced \union {c}
      /\ meant' = IF meant[c] = None THEN meant
                  ELSE [meant EXCEPT ![c] = Amended(@, req[s].old, req[s].new)]
      /\ req' = [req EXCEPT ![s] = Idle]
      /\ made' = made /\ rules' = rules /\ txs' = txs
  BY DEF Written, Stored
<1>3. /\ req' \in [Slots -> Request]
      /\ req'[s].pc = "idle"
      /\ \A t \in Slots : t # s => req'[t] = req[t]
  <2>1. Idle.pc = "idle"
    BY DEF Idle
  <2> QED
    BY <1>2, <2>1, IdleIsRequest, OneRequest DEF IInv
<1>4. /\ cats' \in [CatIds -> Row \union {None}]
      /\ cats'[c] = req[s].new /\ cats'[c] # None
      /\ \A d \in CatIds : d # c => cats'[d] = cats[d]
  BY <1>1, <1>2 DEF IInv, TypeOK
<1>5. \A d \in CatIds : cats[d] # None => cats'[d] # None
  BY <1>4
<1>6. ASSUME meant[c] # None
      PROVE  Amended(meant[c], req[s].old, req[s].new) \in Row
  <2>1. meant[c] \in Row
    BY <1>1, <1>6 DEF IInv, TypeOK
  <2> QED
    BY <1>1, <1>6, <2>1 DEF Amended, Row
<1>7. TypeOK'
  <2>1. meant' \in [CatIds -> Row \union {None}]
    BY <1>1, <1>2, <1>6 DEF IInv, TypeOK
  <2>2. raced' \subseteq CatIds
    BY <1>1, <1>2 DEF IInv, TypeOK
  <2>3. \A d \in CatIds : cats'[d] # None => d <= made'
    BY <1>1, <1>2, <1>4 DEF IInv, TypeOK, Exists
  <2>4. \A q \in rules' : cats'[q.cat] # None
    BY <1>2, <1>5 DEF IInv, TypeOK, Exists, Rule
  <2>5. \A i \in 1 .. Len(txs') : txs'[i].cat # None => cats'[txs'[i].cat] # None
    <3> SUFFICES ASSUME NEW i \in 1 .. Len(txs), txs[i].cat # None
                 PROVE  cats'[txs[i].cat] # None
      BY <1>2
    <3>1. txs[i] \in Tx /\ cats[txs[i].cat] # None
      BY DEF IInv, TypeOK, Exists
    <3> QED
      BY <1>5, <3>1 DEF Tx
  <2> QED
    BY <1>2, <1>3, <1>4, <2>1, <2>2, <2>3, <2>4, <2>5 DEF IInv, TypeOK, Exists
<1>8. Rightful'
  <2>1. ASSUME NEW t \in Slots, Writing(t)'
        PROVE  /\ t # s /\ Writing(t) /\ req'[t] = req[t]
               /\ req'[t].cat <= made'
               /\ cats'[req'[t].cat] # None
                    => cats'[req'[t].cat].owner = req'[t].user
    <3>1. t # s /\ Writing(t) /\ req'[t] = req[t]
      BY <1>3, <2>1 DEF Writing
    <3>2. req[t].cat \in CatIds /\ req[t].cat <= made
      BY <3>1 DEF IInv, TypeOK, Request, Rightful
    <3>3. CASE req[t].cat = c
      <4>1. req[t].user = req[s].user
        BY <3>1, <3>3 DEF IInv, Rightful, Saving, Writing
      <4> QED
        BY <1>1, <1>2, <1>4, <3>1, <3>2, <3>3, <4>1
    <3>4. CASE req[t].cat # c
      BY <1>2, <1>4, <3>1, <3>2, <3>4 DEF IInv, Rightful, Exists
    <3> QED
      BY <3>1, <3>3, <3>4
  <2>2. ASSUME NEW t \in Slots, Saving(t)'
        PROVE  Saving(t) /\ req'[t] = req[t]
    BY <1>3, <2>2 DEF Saving
  <2> QED
    BY <2>1, <2>2 DEF IInv, Rightful, Exists
<1>9. OnlyStaleCopiesUndo'
  <2> SUFFICES ASSUME NEW d \in CatIds
               PROVE  cats'[d] = meant'[d] \/ d \in raced'
    BY DEF OnlyStaleCopiesUndo
  <2>1. cats[d] = meant[d] \/ d \in raced
    BY DEF IInv, OnlyStaleCopiesUndo
  <2>2. CASE d # c
    BY <1>1, <1>2, <2>1, <2>2 DEF IInv, TypeOK
  <2>3. CASE d = c /\ cats[c] = req[s].old /\ c \notin raced
    <3>1. meant[c] = req[s].old /\ meant[c] # None
      BY <1>1, <2>1, <2>3
    <3>2. Amended(req[s].old, req[s].old, req[s].new) = req[s].new
      <4>1. req[s].old # None
        BY <1>1
      <4> QED
        BY <1>1, <4>1 DEF Amended, Row
    <3>3. meant'[c] = req[s].new
      BY <1>1, <1>2, <3>1, <3>2 DEF IInv, TypeOK
    <3> QED
      BY <1>4, <2>3, <3>3
  <2>4. CASE d = c /\ (cats[c] # req[s].old \/ c \in raced)
    BY <1>2, <2>4
  <2> QED
    BY <2>2, <2>3, <2>4
<1>10. AutoCategoryRefusedOnlyByOverlap'
  <2> SUFFICES ASSUME NEW t \in Slots, req'[t].pc = "post", req'[t].auto,
                      cats'[req'[t].cat] = None
               PROVE  req'[t].crossed
    BY DEF AutoCategoryRefusedOnlyByOverlap, Exists
  <2>1. req'[t] = req[t] /\ req[t].cat \in CatIds
    BY <1>3 DEF IInv, TypeOK, Request
  <2>2. cats[req[t].cat] = None
    BY <1>5, <2>1
  <2> QED
    BY <2>1, <2>2 DEF IInv, AutoCategoryRefusedOnlyByOverlap, Exists
<1> QED
  BY <1>7, <1>8, <1>9, <1>10 DEF IInv

LEMMA SaveKeeps ==
  ASSUME IInv, NEW s \in Slots, Save(s)
  PROVE  IInv'
<1>0. Saving(s) /\ Writing(s) /\ req[s] \in Request
  BY DEF Save, Saving, Writing, IInv, TypeOK
<1>1. CASE Written(s)
  BY <1>0, <1>1, WrittenKeeps
<1>2. CASE ~Exists(req[s].cat)
  <2> DEFINE r == [req[s] EXCEPT !.pc = "insert"]
  <2>1. req' = [req EXCEPT ![s].pc = "insert"] /\ UNCHANGED <<tables, ghosts>>
    BY <1>2 DEF Save
  <2>2. req' = [req EXCEPT ![s] = r]
    BY <1>0, <2>1 DEF IInv, TypeOK
  <2>3. /\ r \in Request
        /\ r.pc = "insert" /\ r.cat = req[s].cat /\ r.user = req[s].user
        /\ r.old = req[s].old /\ r.new = req[s].new
    BY <1>0 DEF Request
  <2>4. /\ r.cat <= made
        /\ \A t \in Slots \ {s} :
             Writing(t) /\ req[t].cat = r.cat => req[t].user = r.user
        /\ r.old \in Row /\ r.new \in Row
        /\ r.new.owner = r.user /\ r.old.owner = r.user
    <3> HIDE DEF r
    <3> QED
      BY <1>0, <2>3 DEF IInv, Rightful
  <2>5. ~Exists(r.cat)
    BY <1>2, <2>3
  <2>6. r.user \in Users
    BY <1>0, <2>3 DEF IInv, TypeOK, Saving
  <2> HIDE DEF r
  <2> QED
    BY <2>1, <2>2, <2>3, <2>4, <2>5, <2>6, RequestStep
<1> QED
  BY <1>1, <1>2 DEF Save

LEMMA InsertSavedKeeps ==
  ASSUME IInv, NEW s \in Slots, InsertSaved(s)
  PROVE  IInv'
  BY WrittenKeeps DEF InsertSaved, Saving

LEMMA DeleteCategoryKeeps ==
  ASSUME IInv, NEW s \in Slots, DeleteCategory(s)
  PROVE  IInv'
<1> DEFINE c == req[s].cat
           Left(t) == IF t = s THEN Idle
                      ELSE IF req[t].pc = "post" /\ req[t].cat = c
                           THEN [req[t] EXCEPT !.crossed = TRUE] ELSE req[t]
<1> USE CategoriesAssumption
<1>1. /\ c \in CatIds /\ req[s].pc = "delete"
      /\ cats' = [cats EXCEPT ![c] = None]
      /\ meant' = [meant EXCEPT ![c] = None]
      /\ rules' = {r \in rules : r.cat # c}
      /\ txs' = [i \in 1 .. Len(txs) |->
                   [txs[i] EXCEPT !.cat = IF @ = c THEN None ELSE @]]
      /\ req' = [t \in Slots |-> Left(t)]
      /\ made' = made /\ raced' = raced
  BY DEF IInv, TypeOK, Request, DeleteCategory, RulesWithout
<1>2. /\ cats' \in [CatIds -> Row \union {None}]
      /\ cats'[c] = None
      /\ \A d \in CatIds : d # c => cats'[d] = cats[d]
  BY <1>1 DEF IInv, TypeOK
<1>3. ASSUME NEW t \in Slots
      PROVE  /\ req'[t] \in Request
             /\ t = s => req'[t].pc = "idle"
             /\ t # s =>
                  /\ req'[t].pc = req[t].pc /\ req'[t].cat = req[t].cat
                  /\ req'[t].user = req[t].user /\ req'[t].auto = req[t].auto
                  /\ req'[t].old = req[t].old /\ req'[t].new = req[t].new
                  /\ req[t].crossed => req'[t].crossed
                  /\ req[t].pc = "post" /\ req[t].cat = c => req'[t].crossed
  <2>1. req'[t] = Left(t) /\ req[t] \in Request
    BY <1>1 DEF IInv, TypeOK
  <2>2. CASE t = s
    BY <2>1, <2>2, IdleIsRequest DEF Idle
  <2>3. CASE t # s
    BY <2>1, <2>3 DEF Request
  <2> QED
    BY <2>2, <2>3
<1>4. TypeOK'
  <2>1. req' \in [Slots -> Request]
    BY <1>1, <1>3
  <2>2. /\ rules' \subseteq Rule
        /\ \A r \in rules' : cats'[r.cat] # None
        /\ \A r, q \in rules' : r.user = q.user /\ r.keyword = q.keyword => r = q
    BY <1>1, <1>2 DEF IInv, TypeOK, Rule, Exists
  <2>3. ASSUME NEW i \in 1 .. Len(txs)
        PROVE  /\ txs'[i] \in Tx
               /\ txs'[i].cat # None => cats'[txs'[i].cat] # None
    <3>1. txs[i] \in Tx /\ (txs[i].cat # None => cats[txs[i].cat] # None)
      BY DEF IInv, TypeOK, Exists
    <3>2. txs'[i] = [txs[i] EXCEPT !.cat = IF @ = c THEN None ELSE @]
      BY <1>1
    <3> QED
      BY <1>2, <3>1, <3>2 DEF Tx
  <2>4. txs' \in Seq(Tx) /\ Len(txs') = Len(txs) /\ Len(txs) \in Nat
    <3>1. Len(txs) \in Nat /\ DOMAIN txs' = 1 .. Len(txs)
      BY <1>1 DEF IInv, TypeOK
    <3>2. txs' \in [1 .. Len(txs) -> Tx]
      BY <1>1, <2>3
    <3> QED
      BY <3>1, <3>2
  <2>5. meant' \in [CatIds -> Row \union {None}]
    BY <1>1 DEF IInv, TypeOK
  <2>6. \A d \in CatIds : cats'[d] # None => d <= made'
    BY <1>1, <1>2 DEF IInv, TypeOK, Exists
  <2>7. Len(txs') <= MaxTxs /\ made' \in CatIds /\ raced' \subseteq CatIds
    BY <1>1, <2>4 DEF IInv, TypeOK
  <2>8. \A t \in Slots : req'[t].pc # "idle" => req'[t].user \in Users
    BY <1>3 DEF IInv, TypeOK
  <2> QED
    BY <1>2, <2>1, <2>2, <2>3, <2>4, <2>5, <2>6, <2>7, <2>8 DEF TypeOK, Exists
<1>5. Rightful'
  <2>1. ASSUME NEW t \in Slots, Writing(t)'
        PROVE  /\ t # s /\ Writing(t)
               /\ req'[t].cat <= made'
               /\ cats'[req'[t].cat] # None
                    => cats'[req'[t].cat].owner = req'[t].user
    <3>1. t # s /\ Writing(t)
      BY <1>3, <2>1 DEF Writing
    <3>2. /\ req[t].cat \in CatIds /\ req[t].cat <= made
          /\ cats[req[t].cat] # None => cats[req[t].cat].owner = req[t].user
      BY <3>1 DEF IInv, TypeOK, Request, Rightful, Exists
    <3>3. req'[t].cat = req[t].cat /\ req'[t].user = req[t].user
      BY <1>3, <3>1
    <3> QED
      BY <1>1, <1>2, <3>1, <3>2, <3>3
  <2>2. ASSUME NEW t \in Slots, Saving(t)'
        PROVE  t # s /\ Saving(t)
    BY <1>3, <2>2 DEF Saving
  <2> QED
    BY <1>3, <2>1, <2>2 DEF IInv, Rightful, Exists
<1>6. OnlyStaleCopiesUndo'
  BY <1>1, <1>2 DEF IInv, TypeOK, OnlyStaleCopiesUndo
<1>7. AutoCategoryRefusedOnlyByOverlap'
  <2> SUFFICES ASSUME NEW t \in Slots, req'[t].pc = "post", req'[t].auto,
                      cats'[req'[t].cat] = None
               PROVE  req'[t].crossed
    BY DEF AutoCategoryRefusedOnlyByOverlap, Exists
  <2>1. t # s /\ req[t].pc = "post" /\ req[t].auto /\ req'[t].cat = req[t].cat
    BY <1>3
  <2>2. req[t].cat \in CatIds
    BY DEF IInv, TypeOK, Request
  <2> QED
    BY <1>2, <1>3, <2>1, <2>2
       DEF IInv, AutoCategoryRefusedOnlyByOverlap, Exists
<1> QED
  BY <1>4, <1>5, <1>6, <1>7 DEF IInv

-----------------------------------------------------------------------------
(* The requests that are one statement.                                    *)

LEMMA CreateCategoryKeeps ==
  ASSUME IInv, NEW u \in Users, NEW name \in Names, NEW look \in Looks,
         CreateCategory(u, name, look)
  PROVE  IInv'
<1> DEFINE c == made + 1
           row == [owner |-> u, name |-> name, look |-> look]
<1> USE CategoriesAssumption
<1>1. /\ c \in CatIds /\ c > made /\ made' = c /\ made \in Nat
      /\ cats' = [cats EXCEPT ![c] = row] /\ meant' = [meant EXCEPT ![c] = row]
      /\ rules' = rules /\ txs' = txs /\ req' = req /\ raced' = raced
  BY DEF CreateCategory, IInv, TypeOK, CatIds
<1>2. row \in Row /\ row # None
  BY DEF Row
<1> HIDE DEF row
<1>3. /\ cats' \in [CatIds -> Row \union {None}]
      /\ meant' \in [CatIds -> Row \union {None}]
      /\ cats'[c] = row /\ meant'[c] = row
      /\ \A d \in CatIds : d # c => cats'[d] = cats[d] /\ meant'[d] = meant[d]
  BY <1>1, <1>2 DEF IInv, TypeOK
<1>4. \A d \in CatIds : cats[d] # None => cats'[d] # None
  BY <1>2, <1>3
<1>5. TypeOK'
  <2>1. \A d \in CatIds : cats'[d] # None => d <= made'
    BY <1>1, <1>3 DEF IInv, TypeOK, Exists, CatIds
  <2>2. \A r \in rules' : cats'[r.cat] # None
    BY <1>1, <1>4 DEF IInv, TypeOK, Exists, Rule
  <2>3. \A i \in 1 .. Len(txs') : txs'[i].cat # None => cats'[txs'[i].cat] # None
    <3> SUFFICES ASSUME NEW i \in 1 .. Len(txs), txs[i].cat # None
                 PROVE  cats'[txs[i].cat] # None
      BY <1>1
    <3>1. txs[i] \in Tx /\ cats[txs[i].cat] # None
      BY DEF IInv, TypeOK, Exists
    <3> QED
      BY <1>4, <3>1 DEF Tx
  <2> QED
    BY <1>1, <1>3, <2>1, <2>2, <2>3 DEF IInv, TypeOK, Exists
<1>6. Rightful'
  <2>1. ASSUME NEW t \in Slots, Writing(t)
        PROVE  /\ req[t].cat <= c /\ req[t].cat \in CatIds /\ req[t].cat # c
               /\ cats[req[t].cat] # None => cats[req[t].cat].owner = req[t].user
    BY <1>1, <2>1 DEF IInv, TypeOK, Request, Rightful, Exists, CatIds
  <2> QED
    BY <1>1, <1>3, <2>1 DEF IInv, Rightful, Writing, Saving, Exists
<1>7. OnlyStaleCopiesUndo'
  BY <1>1, <1>3 DEF IInv, OnlyStaleCopiesUndo
<1>8. AutoCategoryRefusedOnlyByOverlap'
  BY <1>1, <1>4
     DEF IInv, TypeOK, Request, AutoCategoryRefusedOnlyByOverlap, Exists
<1> QED
  BY <1>5, <1>6, <1>7, <1>8 DEF IInv

(* Rightful and the last two conjuncts look at cats and req only.          *)
LEMMA OtherTables ==
  ASSUME IInv, UNCHANGED <<cats, made, req, meant, raced>>,
         TypeOK'
  PROVE  IInv'
<1>1. Rightful'
  BY DEF IInv, Rightful, Writing, Saving, Exists
<1>2. OnlyStaleCopiesUndo' /\ AutoCategoryRefusedOnlyByOverlap'
  BY DEF IInv, OnlyStaleCopiesUndo, AutoCategoryRefusedOnlyByOverlap, Exists
<1> QED
  BY <1>1, <1>2 DEF IInv

LEMMA CreateRuleKeeps ==
  ASSUME IInv, NEW u \in Users, NEW k \in Keywords, NEW c \in CatIds,
         CreateRule(u, k, c)
  PROVE  IInv'
<1> DEFINE rule == [user |-> u, keyword |-> k, cat |-> c]
<1>1. /\ rules' = rules \union {rule} /\ Exists(c)
      /\ ~\E r \in rules : r.user = u /\ r.keyword = k
      /\ UNCHANGED <<cats, made, txs, req, meant, raced>>
  BY DEF CreateRule, ghosts
<1>2. rule \in Rule /\ rule.user = u /\ rule.keyword = k /\ rule.cat = c
  BY DEF Rule
<1> HIDE DEF rule
<1>3. TypeOK'
  BY <1>1, <1>2 DEF IInv, TypeOK, Exists
<1> QED
  BY <1>1, <1>3, OtherTables

LEMMA DeleteRuleKeeps ==
  ASSUME IInv, NEW u \in Users, NEW k \in Keywords, DeleteRule(u, k)
  PROVE  IInv'
<1>1. rules' \subseteq rules /\ UNCHANGED <<cats, made, txs, req, meant, raced>>
  BY DEF DeleteRule, ghosts
<1>2. TypeOK'
  BY <1>1 DEF IInv, TypeOK, Exists
<1> QED
  BY <1>1, <1>2, OtherTables

LEMMA InsertTxKeeps ==
  ASSUME IInv, NEW s \in Slots, InsertTx(s)
  PROVE  IInv'
<1> DEFINE tx == [user |-> req[s].user, cat |-> req[s].cat]
<1>1. /\ req[s].pc = "post" /\ Len(txs) < MaxTxs
      /\ txs' = IF Exists(req[s].cat) THEN Append(txs, tx) ELSE txs
      /\ req' = [req EXCEPT ![s] = Idle]
      /\ UNCHANGED <<cats, made, rules, meant, raced>>
  BY DEF InsertTx, ghosts
<1>2. /\ req' \in [Slots -> Request]
      /\ req'[s].pc = "idle"
      /\ \A t \in Slots : t # s => req'[t] = req[t]
  <2>1. Idle.pc = "idle"
    BY DEF Idle
  <2> QED
    BY <1>1, <2>1, IdleIsRequest, OneRequest DEF IInv
<1>3. TypeOK'
  <2>1. CASE Exists(req[s].cat)
    <3>1. tx \in Tx /\ tx.cat = req[s].cat
      BY <1>1 DEF IInv, TypeOK, Request, Tx
    <3> HIDE DEF tx
    <3>2. /\ txs' \in Seq(Tx) /\ Len(txs') = Len(txs) + 1 /\ Len(txs) \in Nat
          /\ \A i \in 1 .. Len(txs) : txs'[i] = txs[i]
          /\ txs'[Len(txs) + 1] = tx
      BY <1>1, <2>1, <3>1 DEF IInv, TypeOK
    <3>3. Len(txs') <= MaxTxs
      BY <1>1, <3>2, CategoriesAssumption DEF IInv, TypeOK
    <3>4. \A i \in 1 .. Len(txs') :
             txs'[i].cat # None => cats'[txs'[i].cat] # None
      BY <1>1, <2>1, <3>1, <3>2 DEF IInv, TypeOK, Exists
    <3> QED
      BY <1>1, <1>2, <3>2, <3>3, <3>4 DEF IInv, TypeOK, Exists
  <2>2. CASE ~Exists(req[s].cat)
    BY <1>1, <1>2, <2>2 DEF IInv, TypeOK, Exists
  <2> QED
    BY <2>1, <2>2
<1>4. Rightful'
  BY <1>1, <1>2 DEF IInv, Rightful, Writing, Saving, Exists
<1>5. OnlyStaleCopiesUndo'
  BY <1>1 DEF IInv, OnlyStaleCopiesUndo
<1>6. AutoCategoryRefusedOnlyByOverlap'
  BY <1>1, <1>2 DEF IInv, AutoCategoryRefusedOnlyByOverlap, Exists
<1> QED
  BY <1>3, <1>4, <1>5, <1>6 DEF IInv

-----------------------------------------------------------------------------
LEMMA NextIInv == IInv /\ [Next]_vars => IInv'
<1> SUFFICES ASSUME IInv, [Next]_vars PROVE IInv'
  OBVIOUS
<1>1. ASSUME NEW u \in Users, NEW name \in Names, NEW look \in Looks,
             CreateCategory(u, name, look)
      PROVE  IInv'
  BY <1>1, CreateCategoryKeeps
<1>2. ASSUME NEW u \in Users, NEW k \in Keywords, NEW c \in CatIds,
             CreateRule(u, k, c)
      PROVE  IInv'
  BY <1>2, CreateRuleKeeps
<1>3. ASSUME NEW u \in Users, NEW k \in Keywords, DeleteRule(u, k)
      PROVE  IInv'
  BY <1>3, DeleteRuleKeeps
<1>4. ASSUME NEW s \in Slots, Handle(s)
      PROVE  IInv'
  <2>1. ASSUME NEW u \in Users, NEW c \in CatIds,
               NEW name \in Names \union {None}, NEW look \in Looks,
               UpdateRequest(s, u, c, name, look)
        PROVE  IInv'
    BY <2>1, UpdateRequestKeeps
  <2>2. ASSUME NEW u \in Users, NEW c \in CatIds, DeleteRequest(s, u, c)
        PROVE  IInv'
    BY <2>2, DeleteRequestKeeps
  <2>3. ASSUME NEW u \in Users, PostRequest(s, u)
        PROVE  IInv'
    BY <2>3, PostRequestKeeps
  <2>4. CASE Save(s)
    BY <2>4, SaveKeeps
  <2>5. CASE InsertSaved(s)
    BY <2>5, InsertSavedKeeps
  <2>6. CASE DeleteCategory(s)
    BY <2>6, DeleteCategoryKeeps
  <2>7. CASE InsertTx(s)
    BY <2>7, InsertTxKeeps
  <2>8. CASE Fail(s)
    BY <2>8, FailKeeps
  <2> QED
    BY <1>4, <2>1, <2>2, <2>3, <2>4, <2>5, <2>6, <2>7, <2>8 DEF Handle
<1>5. CASE UNCHANGED vars
  <2>1. UNCHANGED <<cats, made, req, meant, raced>> /\ TypeOK'
    BY <1>5 DEF vars, tables, ghosts, IInv, TypeOK, Exists
  <2> QED
    BY <2>1, OtherTables
<1> QED
  BY <1>1, <1>2, <1>3, <1>4, <1>5 DEF Next

(* The tables keep their types, and the foreign keys and the unique index  *)
(* of the rules hold.                                                      *)
THEOREM TypeCorrect == Spec => []TypeOK
<1>1. IInv => TypeOK
  BY DEF IInv
<1> QED
  BY InitIInv, NextIInv, <1>1, PTL DEF Spec

(* Whoever deletes, restores or edits a category, and however many do so   *)
(* at once: it is as the requests meant it, or a copy that was out of date *)
(* was saved over it (categories/service.go:131-166).                      *)
THEOREM StaleCopiesUndo == Spec => []OnlyStaleCopiesUndo
<1>1. IInv => OnlyStaleCopiesUndo
  BY DEF IInv
<1> QED
  BY InitIInv, NextIInv, <1>1, PTL DEF Spec

(* The foreign key refuses the category of a rule only to a posting that   *)
(* was at work when the category was deleted                               *)
(* (transactions/service.go:114-127).                                      *)
THEOREM RefusedOnlyByOverlap == Spec => []AutoCategoryRefusedOnlyByOverlap
<1>1. IInv => AutoCategoryRefusedOnlyByOverlap
  BY DEF IInv
<1> QED
  BY InitIInv, NextIInv, <1>1, PTL DEF Spec

(* No step changes or deletes a category but by a request of its owner:    *)
(* the check of the owner was made on a row that may be gone and back      *)
(* since (categories/service.go:137-145, 176-184).                         *)
LEMMA WriterOwns ==
  ASSUME IInv, NEW c \in CatIds, Exists(c), NEW s \in Slots, Writing(s),
         req[s].cat = c
  PROVE  \E t \in Slots : /\ req[t].pc # "idle"
                          /\ req[t].cat = c /\ req[t].user = cats[c].owner
<1>1. req[s].pc # "idle"
  BY DEF Writing
<1> QED
  BY <1>1 DEF IInv, Rightful

THEOREM OwnersOnly == Spec => ChangedByOwner
<1> DEFINE Good ==
      \A c \in CatIds :
         Exists(c) /\ cats'[c] # cats[c] =>
             \E s \in Slots :
                 /\ req[s].pc # "idle"
                 /\ req[s].cat = c /\ req[s].user = cats[c].owner
<1>1. IInv /\ [Next]_vars => [Good]_vars
  <2> SUFFICES ASSUME IInv, Next, NEW c \in CatIds, Exists(c), cats'[c] # cats[c]
               PROVE  \E s \in Slots :
                        /\ req[s].pc # "idle"
                        /\ req[s].cat = c /\ req[s].user = cats[c].owner
    OBVIOUS
  <2>1. PICK s \in Slots : Writing(s) /\ req[s].cat = c
    <3>1. cats \in [CatIds -> Row \union {None}] /\ c <= made /\ made \in Nat
      BY DEF IInv, TypeOK, CatIds
    <3>2. ASSUME NEW u \in Users, NEW name \in Names, NEW look \in Looks,
                 CreateCategory(u, name, look)
          PROVE  FALSE
      BY <3>1, <3>2 DEF CreateCategory, CatIds
    <3>3. ASSUME NEW u \in Users, NEW k \in Keywords, NEW d \in CatIds,
                 CreateRule(u, k, d)
          PROVE  FALSE
      BY <3>3 DEF CreateRule
    <3>4. ASSUME NEW u \in Users, NEW k \in Keywords, DeleteRule(u, k)
          PROVE  FALSE
      BY <3>4 DEF DeleteRule
    <3>5. ASSUME NEW s \in Slots, Handle(s)
          PROVE  Writing(s) /\ req[s].cat = c
      <4>1. ASSUME UNCHANGED tables
            PROVE  FALSE
        BY <4>1 DEF tables
      <4>2. CASE Written(s) /\ Writing(s)
        BY <3>1, <4>2 DEF Written
      <4>3. CASE DeleteCategory(s)
        BY <3>1, <4>3 DEF DeleteCategory, Writing
      <4>4. CASE InsertTx(s)
        BY <4>4 DEF InsertTx
      <4> QED
        BY <3>5, <4>1, <4>2, <4>3, <4>4
           DEF Handle, UpdateRequest, DeleteRequest, PostRequest, Save,
               InsertSaved, Fail, Writing
    <3> QED
      BY <3>2, <3>3, <3>4, <3>5 DEF Next
  <2> QED
    BY <2>1, WriterOwns
<1>2. Spec => [][Good]_vars
  BY InitIInv, NextIInv, <1>1, PTL DEF Spec
<1> QED
  BY <1>2 DEF ChangedByOwner

=============================================================================
