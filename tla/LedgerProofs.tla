---------------------------- MODULE LedgerProofs ----------------------------
(***************************************************************************)
(* Proofs about Ledger, for every set of users, accounts, slots and every  *)
(* bound: its invariants, and, in the second part, that it implements      *)
(* AtomicLedger, whatever requests overlap and wherever they fail, and     *)
(* what follows on the way: who owns what, and that what is deleted stays  *)
(* as it is.                                                               *)
(***************************************************************************)
EXTENDS LedgerRefinement, TLAPS

-----------------------------------------------------------------------------
(* The inductive invariant, in named parts.                                *)

(* What the local variables of a request hold, by its kind.                *)
JobTyped(s) ==
    pc[s] # "idle" =>
      /\ job[s].kind \in {"create", "transfer"} => job[s].first.new \in Amounts
      /\ job[s].kind = "transfer" =>
           /\ job[s].second \in Leg
           /\ job[s].second.new = job[s].first.new
           /\ job[s].first.type = "expense"
           /\ job[s].second.type = "income"
           /\ job[s].first.acc # job[s].second.acc
      /\ job[s].kind \in {"update", "delete"} => job[s].first.id \in TxIds
      /\ job[s].ref # NoTx => job[s].kind = "delete"

(* Where in the code a request of which kind can be.                       *)
Placed(s) ==
    /\ pc[s] = "dest" => job[s].kind = "transfer"
    /\ pc[s] = "link" => job[s].kind = "delete" /\ job[s].ref # NoTx
    /\ pc[s] = "mate" => job[s].kind = "delete" /\ job[s].ref # NoTx
    /\ pc[s] \in {"mate", "second"} => job[s].second \in Leg
    /\ pc[s] = "second" => job[s].kind = "transfer" \/ job[s].ref # NoTx
    /\ /\ pc[s] \in {"mate", "second"}
       /\ job[s].ref # NoTx
       => job[s].second # None /\ job[s].second.id = job[s].ref

TypeInv == TypeOK /\ \A s \in Slots : JobTyped(s) /\ Placed(s)

(* A request that has written nothing yet holds no row.                    *)
Quiet(s) == pc[s] \in (PCs \ InTx) \union {"row"} => write[s] = NoWrites

(* Ids the sequence has not handed out are used nowhere.                   *)
Fresh ==
    \A i \in TxIds : i >= nextId =>
        row[i] = None /\ \A s \in Slots : write[s][i] = None

(* A row is written by one open transaction at most.                       *)
Exclusive ==
    \A s, o \in Slots : \A i \in TxIds :
        write[s][i] # None /\ write[o][i] # None => s = o

(* No write changes what a row is linked to.                               *)
RefKept ==
    \A s \in Slots : \A i \in TxIds :
        write[s][i] # None /\ row[i] # None => write[s][i].ref = row[i].ref

(* A request works on the row it has read.                                 *)
KnowsRow(s) ==
    pc[s] # "idle" /\ job[s].kind \in {"update", "delete"} =>
        /\ row[job[s].first.id] # None
        /\ row[job[s].first.id].ref = job[s].ref

(* A deletion writes its row and the linked row as they are, but dead; it  *)
(* has written the row past "row", and the linked row past "mate".         *)
DeletionWrites(s) ==
    pc[s] # "idle" /\ job[s].kind = "delete" =>
        /\ \A i \in TxIds : write[s][i] # None =>
             /\ i \in {job[s].first.id, job[s].ref}
             /\ row[i] # None
             /\ row[i].live
             /\ write[s][i] = [row[i] EXCEPT !.live = FALSE]
        /\ pc[s] \in InTx \ {"row"} => write[s][job[s].first.id] # None
        /\ pc[s] \in {"second", "commit"} /\ job[s].ref # NoTx =>
             write[s][job[s].ref] # None

(* What the other requests write is complete in itself at any time.        *)
OtherWrites(s) ==
    pc[s] # "idle" /\ job[s].kind # "delete" => Linked(write[s])

SlotInv(s) == Quiet(s) /\ KnowsRow(s) /\ DeletionWrites(s) /\ OtherWrites(s)

IInv ==
    /\ TypeInv
    /\ Fresh
    /\ Exclusive
    /\ RefKept
    /\ Linked(row)
    /\ \A s \in Slots : SlotInv(s)

-----------------------------------------------------------------------------
(* Types.                                                                  *)

LEMMA InitTyped == Init => TypeInv
  BY LedgerDataAssumption, LedgerAssumption
     DEF Init, TypeInv, TypeOK, JobTyped, Placed, NoWrites, NoDelta, NoAccount,
         Account, PCs, InTx, TxIds

(* A leg made from a row of the table is a leg.                            *)
LEMMA ReadLegTyped ==
  ASSUME TypeOK, NEW i \in TxIds, Live(i), NEW m \in Amounts \union {0}
  PROVE  ReadLeg(i, m) \in Leg /\ row[i] \in Row
  <1>1. row[i] \in Row
    BY DEF TypeOK, Live
  <1>2. QED
    BY <1>1 DEF ReadLeg, Leg, Row

LEMMA ImpactTyped ==
  ASSUME NEW t \in Types, NEW m \in Amounts \union {0}
  PROVE  Impact(t, m) \in Int
  BY LedgerDataAssumption DEF Impact

LEMMA LegDeltaTyped ==
  ASSUME NEW leg \in Leg
  PROVE  LegDelta(leg) \in Int
  BY ImpactTyped DEF LegDelta, Leg

(* The end of a request keeps the types, whatever it does to the tables.   *)
LEMMA FinishTyped ==
  ASSUME TypeInv, NEW s \in Slots, Finish(s), UNCHANGED <<nextId, served>>,
         acct' \in [Accounts -> Account],
         row' \in [TxIds -> Row \union {None}]
  PROVE  TypeInv'
  <1>1. TypeOK'
    BY LedgerAssumption
       DEF TypeInv, TypeOK, Finish, Goto, NoWrites, NoDelta, PCs
  <1>2. ASSUME NEW o \in Slots PROVE JobTyped(o)' /\ Placed(o)'
    <2>1. CASE o = s
      BY <2>1 DEF TypeInv, TypeOK, Finish, Goto, JobTyped, Placed
    <2>2. CASE o # s
      BY <2>2 DEF TypeInv, TypeOK, Finish, Goto, JobTyped, Placed
    <2>3. QED
      BY <2>1, <2>2
  <1>3. QED
    BY <1>1, <1>2 DEF TypeInv

(* An arriving request with a well-typed job keeps the types.              *)
LEMMA ArriveTyped ==
  ASSUME TypeInv, NEW s \in Slots, NEW j \in Job,
         NEW place \in {"dest", "count", "begin"}, Arrive(s, j, place),
         place = "dest" => j.kind = "transfer",
         j.kind \in {"create", "transfer"} => j.first.new \in Amounts,
         j.kind = "transfer" =>
           /\ j.second \in Leg
           /\ j.second.new = j.first.new
           /\ j.first.type = "expense"
           /\ j.second.type = "income"
           /\ j.first.acc # j.second.acc,
         j.kind \in {"update", "delete"} => j.first.id \in TxIds,
         j.ref # NoTx => j.kind = "delete"
  PROVE  TypeInv'
  <1>1. TypeOK'
    BY LedgerAssumption
       DEF TypeInv, TypeOK, Arrive, Goto, PCs, tables
  <1>2. ASSUME NEW o \in Slots PROVE JobTyped(o)' /\ Placed(o)'
    <2>1. CASE o = s
      BY <2>1 DEF TypeInv, TypeOK, Arrive, Goto, JobTyped, Placed
    <2>2. CASE o # s
      BY <2>2 DEF TypeInv, TypeOK, Arrive, Goto, JobTyped, Placed
    <2>3. QED
      BY <2>1, <2>2
  <1>3. QED
    BY <1>1, <1>2 DEF TypeInv

(* A step of slot s that goes on to another place, and neither touches the *)
(* tables nor anybody else.                                                *)
LEMMA GoOnTyped ==
  ASSUME TypeInv, NEW s \in Slots, NEW place \in PCs, pc[s] # "idle",
         place # "idle", Goto(s, place),
         UNCHANGED <<tables, served>>,
         nextId' \in 1 .. MaxTx + 1,
         NEW j \in Job, job' = [job EXCEPT ![s] = j],
         write' \in [Slots -> [TxIds -> Row \union {None}]],
         delta' \in [Slots -> [Accounts -> Int]],
         JobTyped(s)', Placed(s)'
  PROVE  TypeInv'
  <1>1. TypeOK'
    BY LedgerAssumption DEF TypeInv, TypeOK, Goto, tables
  <1>2. ASSUME NEW o \in Slots PROVE JobTyped(o)' /\ Placed(o)'
    <2>1. CASE o = s
      BY <2>1
    <2>2. CASE o # s
      BY <2>2 DEF TypeInv, TypeOK, Goto, JobTyped, Placed
    <2>3. QED
      BY <2>1, <2>2
  <1>3. QED
    BY <1>1, <1>2 DEF TypeInv

LEMMA RequestTyped ==
  ASSUME TypeInv, NEW s \in Slots, Request(s)
  PROVE  TypeInv'
  <1> USE LedgerDataAssumption
  <1>1. CASE CreateRequest(s)
    <2>1. PICK a \in Accounts, t \in Types, m \in Amounts :
            Arrive(s, [kind |-> "create", user |-> Owner[a], amt |-> m,
                       ref |-> NoTx, first |-> NewLeg(a, t, m),
                       second |-> None], "begin")
      BY <1>1 DEF CreateRequest
    <2>2. NewLeg(a, t, m) \in Leg
      BY DEF NewLeg, Leg
    <2>3. QED
      BY <2>1, <2>2, ArriveTyped DEF Job, NewLeg, AllKinds
  <1>2. CASE TransferRequest(s)
    <2>1. PICK a, b \in Accounts, m \in Amounts :
            /\ a # b
            /\ Arrive(s, [kind |-> "transfer", user |-> Owner[a], amt |-> m,
                          ref |-> NoTx, first |-> NewLeg(a, "expense", m),
                          second |-> NewLeg(b, "income", m)], "dest")
      BY <1>2 DEF TransferRequest
    <2>2. /\ NewLeg(a, "expense", m) \in Leg
          /\ NewLeg(b, "income", m) \in Leg
      BY DEF NewLeg, Leg, Types
    <2>3. QED
      BY <2>1, <2>2, ArriveTyped DEF Job, NewLeg, AllKinds
  <1>3. CASE UpdateRequest(s)
    <2>1. PICK i \in TxIds, m \in Amounts \union {0} :
            /\ Live(i)
            /\ Arrive(s, [kind |-> "update", user |-> row[i].user, amt |-> m,
                          ref |-> NoTx, second |-> None,
                          first |-> ReadLeg(i, IF m > 0 THEN m
                                                        ELSE row[i].amt)],
                      "begin")
      BY <1>3 DEF UpdateRequest
    <2>2. row[i] \in Row
      BY <2>1 DEF TypeInv, TypeOK, Live
    <2>3. ReadLeg(i, IF m > 0 THEN m ELSE row[i].amt) \in Leg
      BY <2>1, <2>2, ReadLegTyped DEF TypeInv, Row
    <2>4. QED
      BY <2>1, <2>2, <2>3, ArriveTyped DEF Job, ReadLeg, AllKinds, Row
  <1>4. CASE DeleteRequest(s)
    <2>1. PICK i \in TxIds :
            /\ Live(i)
            /\ Arrive(s, [kind |-> "delete", user |-> row[i].user, amt |-> 0,
                          ref |-> row[i].ref, first |-> ReadLeg(i, 0),
                          second |-> None], "begin")
      BY <1>4 DEF DeleteRequest
    <2>2. row[i] \in Row /\ ReadLeg(i, 0) \in Leg
      BY <2>1, ReadLegTyped DEF TypeInv
    <2>3. QED
      BY <2>1, <2>2, ArriveTyped DEF Job, ReadLeg, AllKinds, Row
  <1>5. CASE CloseRequest(s)
    <2>1. PICK a \in Accounts :
            Arrive(s, [kind |-> "close", user |-> Owner[a], amt |-> 0,
                       ref |-> NoTx, first |-> NewLeg(a, "income", 0),
                       second |-> None], "count")
      BY <1>5 DEF CloseRequest
    <2>2. NewLeg(a, "income", 0) \in Leg
      BY DEF NewLeg, Leg, Types
    <2>3. QED
      BY <2>1, <2>2, ArriveTyped DEF Job, NewLeg, AllKinds
  <1>6. QED
    BY <1>1, <1>2, <1>3, <1>4, <1>5 DEF Request

(* The steps that end a request without touching the tables.               *)
LEMMA EndsTyped ==
  ASSUME TypeInv, NEW s \in Slots,
         \/ RefuseDest(s) \/ RefuseClose(s) \/ RowGone(s) \/ AccountGone(s)
         \/ Abort(s)
  PROVE  TypeInv'
  <1>1. Finish(s) /\ UNCHANGED <<tables, nextId, served>>
    BY DEF RefuseDest, RefuseClose, RowGone, AccountGone, Abort
  <1>2. QED
    BY <1>1, FinishTyped DEF tables, TypeInv, TypeOK

LEMMA CommitTyped ==
  ASSUME TypeInv, NEW s \in Slots, Commit(s)
  PROVE  TypeInv'
  <1>1. row' \in [TxIds -> Row \union {None}]
    BY DEF Commit, WithWrites, TypeInv, TypeOK
  <1>2. ASSUME NEW a \in Accounts
        PROVE  [acct[a] EXCEPT !.balance = @ + delta[s][a]] \in Account
    <2>1. acct[a] \in Account /\ delta[s][a] \in Int
      BY DEF TypeInv, TypeOK
    <2>2. QED
      BY <2>1 DEF Account
  <1>3. acct' \in [Accounts -> Account]
    BY <1>2 DEF Commit
  <1>4. QED
    BY <1>1, <1>3, FinishTyped DEF Commit

LEMMA CloseAccountTyped ==
  ASSUME TypeInv, NEW s \in Slots, CloseAccount(s)
  PROVE  TypeInv'
  <1>1. acct' \in [Accounts -> Account]
    BY DEF CloseAccount, TypeInv, TypeOK, Account
  <1>2. QED
    BY <1>1, FinishTyped DEF CloseAccount, TypeInv, TypeOK

LEMMA OpenAccountTyped ==
  ASSUME TypeInv, NEW a \in Accounts, OpenAccount(a)
  PROVE  TypeInv'
  <1>1. acct' \in [Accounts -> Account]
    BY LedgerDataAssumption
       DEF OpenAccount, NewAccount, TypeInv, TypeOK, Account
  <1>2. QED
    BY <1>1 DEF OpenAccount, slotVars, TypeInv, TypeOK, JobTyped, Placed

(* What a request posts is a row.                                          *)
LEMMA PostedRowTyped ==
  ASSUME NEW j \in Job, NEW leg \in Leg, leg.new \in Amounts,
         NEW ref \in TxIds \union {NoTx}
  PROVE  PostedRow(j, leg, ref) \in Row
  BY DEF PostedRow, Job, Leg, Row

LEMMA InsertRowTyped ==
  ASSUME TypeInv, NEW s \in Slots, InsertRow(s)
  PROVE  TypeInv'
  <1> DEFINE j == [job[s] EXCEPT !.first.id = nextId]
  <1>1. job[s] \in Job /\ nextId \in TxIds /\ pc[s] = "row"
    BY LedgerDataAssumption DEF InsertRow, TypeInv, TypeOK, TxIds
  <1>2. j \in Job /\ job' = [job EXCEPT ![s] = j]
    BY <1>1 DEF InsertRow, Job, Leg, TypeInv, TypeOK
  <1>3. PostedRow(job[s], job[s].first, NoTx) \in Row
    BY <1>1, PostedRowTyped DEF InsertRow, TypeInv, JobTyped, Job
  <1>4. write' \in [Slots -> [TxIds -> Row \union {None}]]
    BY <1>1, <1>3 DEF InsertRow, TypeInv, TypeOK
  <1>5. JobTyped(s)' /\ Placed(s)'
    BY <1>1, <1>2
       DEF InsertRow, Goto, JobTyped, Placed, TypeInv, TypeOK, Job, Leg
  <1>6. nextId' \in 1 .. MaxTx + 1
    BY <1>1, LedgerDataAssumption DEF InsertRow, TxIds
  <1>7. QED
    BY <1>1, <1>2, <1>4, <1>5, <1>6, GoOnTyped
       DEF InsertRow, PCs, InTx, TypeInv, TypeOK

LEMMA InsertPairTyped ==
  ASSUME TypeInv, NEW s \in Slots, InsertPair(s)
  PROVE  TypeInv'
  <1> DEFINE j == [job[s] EXCEPT !.first.id = nextId, !.second.id = nextId + 1]
  <1>1. /\ job[s] \in Job /\ pc[s] = "row"
        /\ nextId \in TxIds /\ nextId + 1 \in TxIds
    BY LedgerDataAssumption DEF InsertPair, TypeInv, TypeOK, TxIds
  <1>2. /\ job[s].first \in Leg /\ job[s].second \in Leg
        /\ job[s].first.new \in Amounts /\ job[s].second.new \in Amounts
    BY <1>1 DEF InsertPair, TypeInv, JobTyped, Job
  <1>3. j \in Job /\ job' = [job EXCEPT ![s] = j]
    BY <1>1, <1>2 DEF InsertPair, Job, Leg, TypeInv, TypeOK
  <1>4. /\ PostedRow(job[s], job[s].first, nextId + 1) \in Row
        /\ PostedRow(job[s], job[s].second, nextId) \in Row
    BY <1>1, <1>2, PostedRowTyped
  <1>5. write' \in [Slots -> [TxIds -> Row \union {None}]]
    BY <1>1, <1>4 DEF InsertPair, TypeInv, TypeOK
  <1>6. JobTyped(s)' /\ Placed(s)'
    <2>1. job'[s] = j /\ pc'[s] = "first"
      BY <1>3 DEF InsertPair, Goto, TypeInv, TypeOK
    <2>2. /\ j.kind = job[s].kind /\ j.ref = job[s].ref
          /\ j.first.new = job[s].first.new
          /\ j.first.acc = job[s].first.acc
          /\ j.first.type = job[s].first.type
          /\ j.second.new = job[s].second.new
          /\ j.second.acc = job[s].second.acc
          /\ j.second.type = job[s].second.type
          /\ j.second \in Leg
      BY <1>1, <1>2 DEF Job, Leg
    <2>3. JobTyped(s) /\ job[s].kind = "transfer" /\ pc[s] # "idle"
      BY <1>1 DEF TypeInv, InsertPair
    <2>4. QED
      BY <2>1, <2>2, <2>3 DEF JobTyped, Placed
  <1>7. nextId' \in 1 .. MaxTx + 1
    BY <1>1, LedgerDataAssumption DEF InsertPair, TxIds
  <1>8. QED
    BY <1>1, <1>3, <1>5, <1>6, <1>7, GoOnTyped
       DEF InsertPair, PCs, InTx, TypeInv, TypeOK

(* The steps that change neither the job nor the sequence of ids.          *)
LEMMA SameJobTyped ==
  ASSUME TypeInv, NEW s \in Slots, NEW place \in PCs, pc[s] # "idle",
         place # "idle", Goto(s, place), UNCHANGED <<tables, nextId, job, served>>,
         write' \in [Slots -> [TxIds -> Row \union {None}]],
         delta' \in [Slots -> [Accounts -> Int]],
         place # "dest",
         place \in {"link", "mate"} =>
           job[s].kind = "delete" /\ job[s].ref # NoTx,
         place \in {"mate", "second"} =>
           job[s].second \in Leg /\
           (job[s].kind = "transfer" \/ job[s].ref # NoTx),
         place \in {"mate", "second"} /\ job[s].ref # NoTx
           => job[s].second # None /\ job[s].second.id = job[s].ref
  PROVE  TypeInv'
  <1>1. job[s] \in Job /\ JobTyped(s)
    BY DEF TypeInv, TypeOK
  <1>2. job' = [job EXCEPT ![s] = job[s]]
    BY DEF TypeInv, TypeOK
  <1>3. nextId' \in 1 .. MaxTx + 1
    BY DEF TypeInv, TypeOK
  <1>4. JobTyped(s)' /\ Placed(s)'
    BY <1>1 DEF JobTyped, Placed, Goto, TypeInv, TypeOK
  <1>5. QED
    BY <1>1, <1>2, <1>3, <1>4, GoOnTyped

(* A row somebody changes stays a row.                                     *)
LEMMA WriteTyped ==
  ASSUME TypeInv, NEW s \in Slots, NEW i \in TxIds, NEW r \in Row,
         write' = [write EXCEPT ![s][i] = r]
  PROVE  write' \in [Slots -> [TxIds -> Row \union {None}]]
  BY DEF TypeInv, TypeOK

LEMMA UpdateRowTyped ==
  ASSUME TypeInv, NEW s \in Slots, UpdateRow(s)
  PROVE  TypeInv'
  <1> DEFINE i == job[s].first.id
             m == IF job[s].amt > 0 THEN job[s].amt ELSE row[i].amt
             place == IF LegDelta(job[s].first) # 0 THEN "first" ELSE "commit"
  <1>1. job[s] \in Job /\ i \in TxIds /\ job[s].kind = "update" /\ pc[s] = "row"
    BY DEF UpdateRow, TypeInv, TypeOK, JobTyped
  <1>2. row[i] \in Row /\ job[s].ref = NoTx
    BY <1>1 DEF UpdateRow, Matches, Live, TypeInv, TypeOK, JobTyped
  <1>3. m \in Amounts
    BY <1>1, <1>2, LedgerDataAssumption DEF Row, Job
  <1>4. [row[i] EXCEPT !.amt = m] \in Row
    BY <1>2, <1>3 DEF Row
  <1>5. write' \in [Slots -> [TxIds -> Row \union {None}]]
    BY <1>1, <1>4, WriteTyped DEF UpdateRow
  <1>6. place \in PCs /\ place \in {"first", "commit"}
    BY DEF PCs, InTx
  <1>7. Goto(s, place) /\ UNCHANGED <<tables, nextId, job, served>> /\ delta' = delta
    BY DEF UpdateRow
  <1> HIDE DEF place
  <1>8. QED
    BY <1>1, <1>2, <1>5, <1>6, <1>7, SameJobTyped DEF TypeInv, TypeOK

LEMMA DeadRowTyped ==
  ASSUME TypeOK, NEW i \in TxIds, Live(i)
  PROVE  [row[i] EXCEPT !.live = FALSE] \in Row
  <1>1. row[i] \in Row
    BY DEF TypeOK, Live
  <1>2. QED
    BY <1>1 DEF Row

LEMMA DeleteRowTyped ==
  ASSUME TypeInv, NEW s \in Slots, DeleteRow(s)
  PROVE  TypeInv'
  <1> DEFINE i == job[s].first.id
  <1>1. i \in TxIds /\ pc[s] = "row"
    BY DEF DeleteRow, TypeInv, JobTyped
  <1>2. [row[i] EXCEPT !.live = FALSE] \in Row
    BY <1>1, DeadRowTyped DEF DeleteRow, Matches, TypeInv
  <1>3. write' \in [Slots -> [TxIds -> Row \union {None}]]
    BY <1>1, <1>2, WriteTyped DEF DeleteRow
  <1>4. QED
    BY <1>1, <1>3, SameJobTyped DEF DeleteRow, TypeInv, TypeOK, PCs, InTx

LEMMA DeleteMateTyped ==
  ASSUME TypeInv, NEW s \in Slots, DeleteMate(s)
  PROVE  TypeInv'
  <1> DEFINE i == job[s].second.id
  <1>1. /\ pc[s] = "mate" /\ job[s].kind = "delete" /\ job[s].ref # NoTx
        /\ job[s].second \in Leg /\ i = job[s].ref /\ job[s] \in Job
        /\ job[s].second # None
    BY DEF DeleteMate, TypeInv, TypeOK, Placed
  <1>2. i \in TxIds
    BY <1>1 DEF Job
  <1>3. [row[i] EXCEPT !.live = FALSE] \in Row
    BY <1>2, DeadRowTyped DEF DeleteMate, Matches, TypeInv
  <1>4. write' \in [Slots -> [TxIds -> Row \union {None}]]
    BY <1>2, <1>3, WriteTyped DEF DeleteMate
  <1>5. QED
    BY <1>1, <1>4, SameJobTyped DEF DeleteMate, TypeInv, TypeOK, PCs, InTx

(* The statement of UpdateBalance keeps the pending balances integers.     *)
LEMMA UpdateBalanceTyped ==
  ASSUME TypeInv, NEW s \in Slots, NEW leg \in Leg, UpdateBalance(s, leg)
  PROVE  delta' \in [Slots -> [Accounts -> Int]]
  <1>1. LegDelta(leg) \in Int /\ leg.acc \in Accounts
    BY LegDeltaTyped DEF Leg
  <1>2. delta[s][leg.acc] \in Int
    BY <1>1 DEF TypeInv, TypeOK
  <1>3. QED
    BY <1>1, <1>2 DEF UpdateBalance, TypeInv, TypeOK

LEMMA BalanceFirstTyped ==
  ASSUME TypeInv, NEW s \in Slots, BalanceFirst(s)
  PROVE  TypeInv'
  <1> DEFINE place == IF job[s].kind = "transfer" THEN "second"
                      ELSE IF job[s].ref # NoTx THEN "link" ELSE "commit"
  <1>1. job[s] \in Job /\ pc[s] = "first" /\ JobTyped(s)
    BY DEF BalanceFirst, TypeInv, TypeOK
  <1>2. delta' \in [Slots -> [Accounts -> Int]]
    BY <1>1, UpdateBalanceTyped DEF BalanceFirst, Job
  <1>3. /\ place \in PCs /\ place # "idle" /\ place # "dest" /\ place # "mate"
        /\ place = "link" => job[s].kind = "delete" /\ job[s].ref # NoTx
        /\ place = "second" =>
             job[s].second \in Leg /\ job[s].kind = "transfer"
             /\ job[s].ref = NoTx
        /\ place = "commit" => job[s].ref = NoTx
    BY <1>1 DEF JobTyped, PCs, InTx
  <1>4. /\ Goto(s, place) /\ UNCHANGED <<tables, nextId, job, served>>
        /\ write' = write
    BY DEF BalanceFirst
  <1> HIDE DEF place
  <1>5. QED
    BY <1>1, <1>2, <1>3, <1>4, SameJobTyped DEF TypeInv, TypeOK

LEMMA BalanceSecondTyped ==
  ASSUME TypeInv, NEW s \in Slots, BalanceSecond(s)
  PROVE  TypeInv'
  <1>1. /\ pc[s] = "second" /\ job[s] \in Job /\ job[s].second \in Leg
        /\ JobTyped(s) /\ Placed(s)
    BY DEF BalanceSecond, TypeInv, TypeOK, Placed
  <1>2. delta' \in [Slots -> [Accounts -> Int]]
    BY <1>1, UpdateBalanceTyped DEF BalanceSecond
  <1>3. job[s].ref # NoTx => job[s].second # None /\ job[s].second.id = job[s].ref
    BY <1>1 DEF Placed
  <1>4. QED
    BY <1>1, <1>2, <1>3, SameJobTyped
       DEF BalanceSecond, TypeInv, TypeOK, PCs, InTx

LEMMA FindLiveTyped ==
  ASSUME TypeInv, NEW s \in Slots, FindLinked(s),
         Live(job[s].ref)
  PROVE  TypeInv'
  <1> DEFINE i == job[s].ref
             j == [job[s] EXCEPT !.second = ReadLeg(i, 0)]
  <1>1. /\ pc[s] = "link" /\ job[s] \in Job /\ i \in TxIds
        /\ job[s].kind = "delete" /\ i # NoTx /\ JobTyped(s)
    BY DEF FindLinked, TypeInv, TypeOK, Placed, Job
  <1>2. ReadLeg(i, 0) \in Leg
    BY <1>1, ReadLegTyped DEF TypeInv
  <1>3. j \in Job
    BY <1>1, <1>2 DEF Job
  <1>4. job' = [job EXCEPT ![s] = j] /\ Goto(s, "mate")
    BY DEF FindLinked, TypeInv, TypeOK
  <1>5. j.second # None
    BY <1>2, LedgerAssumption
  <1>6. job'[s] = j /\ pc'[s] = "mate"
    BY <1>4 DEF TypeInv, TypeOK, Goto
  <1>7. /\ j.kind = job[s].kind /\ j.ref = i /\ j.first = job[s].first
        /\ j.second = ReadLeg(i, 0) /\ j.second.id = i
    BY <1>1 DEF Job, ReadLeg
  <1>8. JobTyped(s)' /\ Placed(s)'
    BY <1>1, <1>2, <1>5, <1>6, <1>7 DEF JobTyped, Placed
  <1>9. QED
    BY <1>1, <1>3, <1>4, <1>8, GoOnTyped
       DEF FindLinked, TypeInv, TypeOK, PCs, InTx

LEMMA FindLinkedTyped ==
  ASSUME TypeInv, NEW s \in Slots, FindLinked(s)
  PROVE  TypeInv'
  <1>1. CASE Live(job[s].ref)
    BY <1>1, FindLiveTyped
  <1>2. CASE ~Live(job[s].ref)
    BY <1>2, SameJobTyped DEF FindLinked, TypeInv, TypeOK, PCs, InTx
  <1>3. QED
    BY <1>1, <1>2

(* The steps that only go on.                                              *)
LEMMA GoOnOnlyTyped ==
  ASSUME TypeInv, NEW s \in Slots,
         CheckDest(s) \/ CountNone(s) \/ Begin(s)
  PROVE  TypeInv'
  <1>1. CASE CheckDest(s)
    BY <1>1, SameJobTyped DEF CheckDest, TypeInv, TypeOK, PCs, InTx
  <1>2. CASE CountNone(s)
    BY <1>2, SameJobTyped DEF CountNone, TypeInv, TypeOK, PCs, InTx
  <1>3. CASE Begin(s)
    BY <1>3, SameJobTyped DEF Begin, TypeInv, TypeOK, PCs, InTx
  <1>4. QED
    BY <1>1, <1>2, <1>3

LEMMA ProceedTyped ==
  ASSUME TypeInv, NEW s \in Slots, Proceed(s)
  PROVE  TypeInv'
  BY GoOnOnlyTyped, EndsTyped, InsertRowTyped, InsertPairTyped,
     UpdateRowTyped, DeleteRowTyped, DeleteMateTyped, BalanceFirstTyped,
     BalanceSecondTyped, FindLinkedTyped, CommitTyped, CloseAccountTyped
     DEF Proceed

LEMMA NextTyped ==
  ASSUME TypeInv, [Next]_vars
  PROVE  TypeInv'
  <1>1. ASSUME NEW a \in Accounts, OpenAccount(a) PROVE TypeInv'
    BY <1>1, OpenAccountTyped
  <1>2. ASSUME NEW s \in Slots, Request(s) PROVE TypeInv'
    BY <1>2, RequestTyped
  <1>3. ASSUME NEW s \in Slots, Proceed(s) PROVE TypeInv'
    BY <1>3, ProceedTyped
  <1>4. ASSUME NEW s \in Slots, Abort(s) PROVE TypeInv'
    BY <1>4, EndsTyped
  <1>5. CASE UNCHANGED vars
    BY <1>5 DEF vars, TypeInv, TypeOK, JobTyped, Placed
  <1>6. QED
    BY <1>1, <1>2, <1>3, <1>4, <1>5 DEF Next

(* The tables and the local variables of every request keep their types;   *)
(* in particular no amount but a positive one is ever stored.              *)
THEOREM TypeCorrect == Spec => []TypeOK
  <1>1. Spec => []TypeInv
    BY InitTyped, NextTyped, PTL DEF Spec
  <1>2. TypeInv => TypeOK
    BY DEF TypeInv
  <1>3. QED
    BY <1>1, <1>2, PTL

-----------------------------------------------------------------------------
(* Transfers stand and fall together.                                      *)

LEMMA InitInv == Init => IInv
  BY InitTyped
     DEF Init, IInv, Fresh, Exclusive, RefKept, Linked, SlotInv, Quiet, KnowsRow,
         DeletionWrites, OtherWrites, NoWrites

(* A request that ends without touching the table of transactions.         *)
LEMMA FinishInv ==
  ASSUME IInv, TypeInv', NEW s \in Slots, Finish(s), UNCHANGED <<row, nextId>>
  PROVE  IInv'
  <1>1. /\ write'[s] = NoWrites /\ pc'[s] = "idle"
        /\ \A o \in Slots : o # s => /\ write'[o] = write[o] /\ pc'[o] = pc[o]
                                     /\ job'[o] = job[o]
    BY DEF Finish, Goto, IInv, TypeInv, TypeOK
  <1>2. Fresh' /\ Exclusive' /\ RefKept' /\ Linked(row)'
    BY <1>1 DEF IInv, Fresh, Exclusive, RefKept, Linked, LegsMatch, NoWrites
  <1>3. ASSUME NEW o \in Slots PROVE SlotInv(o)'
    BY <1>1 DEF IInv, SlotInv, Quiet, KnowsRow, DeletionWrites, OtherWrites
  <1>4. QED
    BY <1>2, <1>3 DEF IInv

(* A request that arrives has written nothing.                             *)
LEMMA ArriveInv ==
  ASSUME IInv, TypeInv', NEW s \in Slots, NEW j \in Job,
         NEW place \in {"dest", "count", "begin"}, Arrive(s, j, place),
         j.kind \in {"update", "delete"} =>
            /\ row[j.first.id] # None
            /\ row[j.first.id].ref = j.ref
  PROVE  IInv'
  <1>1. /\ write[s] = NoWrites /\ pc'[s] = place /\ job'[s] = j
        /\ \A o \in Slots : o # s => /\ pc'[o] = pc[o] /\ job'[o] = job[o]
    BY DEF Arrive, Goto, IInv, TypeInv, TypeOK, SlotInv, Quiet, PCs, InTx
  <1>2. UNCHANGED <<row, nextId, write>>
    BY DEF Arrive, tables
  <1>3. Fresh' /\ Exclusive' /\ RefKept' /\ Linked(row)'
    BY <1>2 DEF IInv, Fresh, Exclusive, RefKept, Linked, LegsMatch
  <1>4. SlotInv(s)'
    BY <1>1, <1>2
       DEF SlotInv, Quiet, KnowsRow, DeletionWrites, OtherWrites, NoWrites,
           Linked, InTx, PCs
  <1>5. ASSUME NEW o \in Slots, o # s PROVE SlotInv(o)'
    BY <1>1, <1>2, <1>5
       DEF IInv, SlotInv, Quiet, KnowsRow, DeletionWrites, OtherWrites
  <1>6. QED
    BY <1>3, <1>4, <1>5 DEF IInv

LEMMA RequestInv ==
  ASSUME IInv, TypeInv', NEW s \in Slots, Request(s)
  PROVE  IInv'
  <1> USE LedgerDataAssumption
  <1>1. CASE CreateRequest(s)
    <2>1. PICK a \in Accounts, t \in Types, m \in Amounts :
            Arrive(s, [kind |-> "create", user |-> Owner[a], amt |-> m,
                       ref |-> NoTx, first |-> NewLeg(a, t, m),
                       second |-> None], "begin")
      BY <1>1 DEF CreateRequest
    <2>2. NewLeg(a, t, m) \in Leg
      BY DEF NewLeg, Leg
    <2>3. QED
      BY <2>1, <2>2, ArriveInv DEF Job, AllKinds
  <1>2. CASE TransferRequest(s)
    <2>1. PICK a, b \in Accounts, m \in Amounts :
            Arrive(s, [kind |-> "transfer", user |-> Owner[a], amt |-> m,
                       ref |-> NoTx, first |-> NewLeg(a, "expense", m),
                       second |-> NewLeg(b, "income", m)], "dest")
      BY <1>2 DEF TransferRequest
    <2>2. /\ NewLeg(a, "expense", m) \in Leg
          /\ NewLeg(b, "income", m) \in Leg
      BY DEF NewLeg, Leg, Types
    <2>3. QED
      BY <2>1, <2>2, ArriveInv DEF Job, AllKinds
  <1>3. CASE UpdateRequest(s)
    <2>1. PICK i \in TxIds, m \in Amounts \union {0} :
            /\ Live(i)
            /\ row[i].ref = NoTx
            /\ Arrive(s, [kind |-> "update", user |-> row[i].user, amt |-> m,
                          ref |-> NoTx, second |-> None,
                          first |-> ReadLeg(i, IF m > 0 THEN m
                                                        ELSE row[i].amt)],
                      "begin")
      BY <1>3 DEF UpdateRequest
    <2>2. row[i] \in Row
      BY <2>1 DEF IInv, TypeInv, TypeOK, Live
    <2>3. ReadLeg(i, IF m > 0 THEN m ELSE row[i].amt) \in Leg
      BY <2>1, <2>2, ReadLegTyped DEF IInv, TypeInv, Row
    <2>4. ReadLeg(i, IF m > 0 THEN m ELSE row[i].amt).id = i
      BY DEF ReadLeg
    <2>5. QED
      BY <2>1, <2>2, <2>3, <2>4, ArriveInv DEF Job, AllKinds, Row, Live
  <1>4. CASE DeleteRequest(s)
    <2>1. PICK i \in TxIds :
            /\ Live(i)
            /\ Arrive(s, [kind |-> "delete", user |-> row[i].user, amt |-> 0,
                          ref |-> row[i].ref, first |-> ReadLeg(i, 0),
                          second |-> None], "begin")
      BY <1>4 DEF DeleteRequest
    <2>2. row[i] \in Row /\ ReadLeg(i, 0) \in Leg /\ ReadLeg(i, 0).id = i
      BY <2>1, ReadLegTyped DEF IInv, TypeInv, ReadLeg
    <2>3. QED
      BY <2>1, <2>2, ArriveInv DEF Job, AllKinds, Row, Live
  <1>5. CASE CloseRequest(s)
    <2>1. PICK a \in Accounts :
            Arrive(s, [kind |-> "close", user |-> Owner[a], amt |-> 0,
                       ref |-> NoTx, first |-> NewLeg(a, "income", 0),
                       second |-> None], "count")
      BY <1>5 DEF CloseRequest
    <2>2. NewLeg(a, "income", 0) \in Leg
      BY DEF NewLeg, Leg, Types
    <2>3. QED
      BY <2>1, <2>2, ArriveInv DEF Job, AllKinds
  <1>6. QED
    BY <1>1, <1>2, <1>3, <1>4, <1>5 DEF Request

(* A step that goes on without writing a row.                              *)
LEMMA GoOnInv ==
  ASSUME IInv, TypeInv', NEW s \in Slots, NEW place \in PCs, Goto(s, place),
         pc[s] # "idle", place # "idle", UNCHANGED <<row, nextId, write>>,
         place \in (PCs \ InTx) \union {"row"}
           => pc[s] \in (PCs \ InTx) \union {"row"},
         place \in InTx \ {"row"} => pc[s] \in InTx \ {"row"},
         job'[s].kind = job[s].kind, job'[s].ref = job[s].ref,
         job'[s].first = job[s].first,
         \A o \in Slots \ {s} : job'[o] = job[o],
         place \in {"second", "commit"} /\ job[s].kind = "delete"
           /\ job[s].ref # NoTx => write[s][job[s].ref] # None
  PROVE  IInv'
  <1>1. /\ pc'[s] = place
        /\ \A o \in Slots \ {s} : pc'[o] = pc[o]
    BY DEF Goto, IInv, TypeInv, TypeOK
  <1>2. Fresh' /\ Exclusive' /\ RefKept' /\ Linked(row)'
    BY DEF IInv, Fresh, Exclusive, RefKept, Linked, LegsMatch
  <1>3. SlotInv(s)'
    BY <1>1 DEF IInv, SlotInv, Quiet, KnowsRow, DeletionWrites, OtherWrites
  <1>4. ASSUME NEW o \in Slots, o # s PROVE SlotInv(o)'
    BY <1>1, <1>4
       DEF IInv, SlotInv, Quiet, KnowsRow, DeletionWrites, OtherWrites
  <1>5. QED
    BY <1>2, <1>3, <1>4 DEF IInv

LEMMA GoOnOnlyInv ==
  ASSUME IInv, TypeInv', NEW s \in Slots,
         CheckDest(s) \/ CountNone(s) \/ Begin(s)
  PROVE  IInv'
  <1>1. CASE CheckDest(s)
    BY <1>1, GoOnInv DEF CheckDest, tables, PCs, InTx
  <1>2. CASE CountNone(s)
    BY <1>2, GoOnInv DEF CountNone, tables, PCs, InTx
  <1>3. CASE Begin(s)
    BY <1>3, GoOnInv DEF Begin, tables, PCs, InTx
  <1>4. QED
    BY <1>1, <1>2, <1>3

LEMMA BalanceInv ==
  ASSUME IInv, TypeInv', NEW s \in Slots, BalanceFirst(s) \/ BalanceSecond(s)
  PROVE  IInv'
  <1>1. CASE BalanceFirst(s)
    <2> DEFINE place == IF job[s].kind = "transfer" THEN "second"
                        ELSE IF job[s].ref # NoTx THEN "link" ELSE "commit"
    <2>1. /\ place \in PCs /\ place \in InTx \ {"row"} /\ place # "idle"
          /\ ~(/\ place \in {"second", "commit"} /\ job[s].kind = "delete"
               /\ job[s].ref # NoTx)
      BY DEF PCs, InTx
    <2>2. /\ Goto(s, place) /\ UNCHANGED <<row, nextId, write, job>>
          /\ pc[s] = "first"
      BY <1>1 DEF BalanceFirst, tables
    <2> HIDE DEF place
    <2>3. QED
      BY <2>1, <2>2, GoOnInv DEF PCs, InTx
  <1>2. CASE BalanceSecond(s)
    <2>1. /\ Goto(s, "commit") /\ UNCHANGED <<row, nextId, write, job>>
          /\ pc[s] = "second"
      BY <1>2 DEF BalanceSecond, tables
    <2>2. job[s].kind = "delete" /\ job[s].ref # NoTx
            => write[s][job[s].ref] # None
      BY <2>1 DEF IInv, SlotInv, DeletionWrites
    <2>3. QED
      BY <2>1, <2>2, GoOnInv DEF PCs, InTx
  <1>3. QED
    BY <1>1, <1>2

(* The leg a deletion has not deleted yet is alive when it looks for it:   *)
(* whoever deletes it needs the first leg, which this request holds.       *)
LEMMA MateIsLive ==
  ASSUME IInv, NEW s \in Slots, pc[s] = "link"
  PROVE  Live(job[s].ref)
  <1> DEFINE i == job[s].first.id
  <1>1. /\ job[s].kind = "delete" /\ job[s].ref # NoTx /\ job[s] \in Job
        /\ i \in TxIds
    BY DEF IInv, TypeInv, TypeOK, Placed, JobTyped
  <1>2. write[s][i] # None
    BY <1>1 DEF IInv, SlotInv, DeletionWrites, InTx
  <1>3. row[i] # None /\ row[i].live /\ row[i].ref = job[s].ref
    BY <1>1, <1>2 DEF IInv, SlotInv, DeletionWrites, KnowsRow
  <1>4. LegsMatch(row, i, job[s].ref)
    BY <1>1, <1>3 DEF IInv, Linked
  <1>5. QED
    BY <1>3, <1>4 DEF LegsMatch, Live

LEMMA FindLinkedInv ==
  ASSUME IInv, TypeInv', NEW s \in Slots, FindLinked(s)
  PROVE  IInv'
  <1>1. Live(job[s].ref) /\ pc[s] = "link" /\ job[s] \in Job
    BY MateIsLive DEF FindLinked, IInv, TypeInv, TypeOK
  <1>2. /\ job' = [job EXCEPT ![s].second = ReadLeg(job[s].ref, 0)]
        /\ Goto(s, "mate") /\ UNCHANGED <<row, nextId, write>>
    BY <1>1 DEF FindLinked, tables
  <1>3. /\ job'[s].kind = job[s].kind /\ job'[s].ref = job[s].ref
        /\ job'[s].first = job[s].first
        /\ \A o \in Slots \ {s} : job'[o] = job[o]
    BY <1>1, <1>2 DEF IInv, TypeInv, TypeOK, Job
  <1>4. QED
    BY <1>1, <1>2, <1>3, GoOnInv DEF PCs, InTx

(* A step of s that writes only rows no other open transaction holds keeps *)
(* what concerns the tables and the other requests.                        *)
LEMMA WriteInv ==
  ASSUME IInv, TypeInv', NEW s \in Slots, NEW place, Goto(s, place),
         UNCHANGED row, nextId' >= nextId,
         \A o \in Slots \ {s} : write'[o] = write[o] /\ job'[o] = job[o],
         \A i \in TxIds : i >= nextId' => write'[s][i] = None,
         \A i \in TxIds : write'[s][i] # None /\ write'[s][i] # write[s][i] =>
           /\ \A o \in Slots \ {s} : write[o][i] = None
           /\ row[i] # None => write'[s][i].ref = row[i].ref,
         SlotInv(s)'
  PROVE  IInv'
  <1>1. \A o \in Slots \ {s} : pc'[o] = pc[o]
    BY DEF Goto, IInv, TypeInv, TypeOK
  <1>2. nextId \in Int /\ nextId' \in Int
    BY LedgerDataAssumption DEF IInv, TypeInv, TypeOK
  <1>3. Fresh'
    <2> SUFFICES ASSUME NEW i \in TxIds, i >= nextId'
                 PROVE  row[i] = None /\ \A o \in Slots : write'[o][i] = None
      BY DEF Fresh
    <2>1. i >= nextId
      BY <1>2 DEF TxIds
    <2>2. QED
      BY <2>1 DEF IInv, Fresh
  <1>4. Exclusive'
    <2> SUFFICES ASSUME NEW x \in Slots, NEW o \in Slots, NEW i \in TxIds,
                        write'[x][i] # None, write'[o][i] # None
                 PROVE  x = o
      BY DEF Exclusive
    <2>1. CASE x # s /\ o # s
      BY <2>1 DEF IInv, Exclusive
    <2>2. CASE x = s /\ o # s
      BY <2>2 DEF IInv, Exclusive
    <2>3. CASE x # s /\ o = s
      BY <2>3 DEF IInv, Exclusive
    <2>4. QED
      BY <2>1, <2>2, <2>3
  <1>5. RefKept'
    BY DEF IInv, RefKept
  <1>6. Linked(row)'
    BY DEF IInv, Linked, LegsMatch
  <1>7. ASSUME NEW o \in Slots, o # s PROVE SlotInv(o)'
    BY <1>1, <1>7
       DEF IInv, SlotInv, Quiet, KnowsRow, DeletionWrites, OtherWrites
  <1>8. QED
    BY <1>3, <1>4, <1>5, <1>6, <1>7 DEF IInv

LEMMA InsertRowInv ==
  ASSUME IInv, TypeInv', NEW s \in Slots, InsertRow(s)
  PROVE  IInv'
  <1> DEFINE r == PostedRow(job[s], job[s].first, NoTx)
  <1>1. /\ pc[s] = "row" /\ job[s].kind = "create" /\ write[s] = NoWrites
        /\ nextId \in TxIds /\ job[s] \in Job /\ job[s].ref = NoTx
    BY LedgerDataAssumption
       DEF InsertRow, IInv, TypeInv, TypeOK, JobTyped, SlotInv, Quiet, TxIds
  <1>2. r.ref = NoTx
    BY DEF PostedRow
  <1>3. /\ write'[s] = [NoWrites EXCEPT ![nextId] = r]
        /\ pc'[s] = "first" /\ job'[s].kind = "create"
        /\ \A o \in Slots \ {s} : write'[o] = write[o] /\ job'[o] = job[o]
    BY <1>1 DEF InsertRow, Goto, IInv, TypeInv, TypeOK, Job, Leg
  <1>4. row[nextId] = None /\ \A o \in Slots : write[o][nextId] = None
    BY <1>1 DEF IInv, Fresh, TxIds
  <1>5. \A i \in TxIds : write'[s][i] # None => i = nextId /\ write'[s][i] = r
    BY <1>1, <1>3 DEF NoWrites
  <1>6. SlotInv(s)'
    BY <1>2, <1>3, <1>5
       DEF SlotInv, Quiet, KnowsRow, DeletionWrites, OtherWrites, Linked, PCs,
           InTx
  <1>7. nextId' = nextId + 1 /\ UNCHANGED row /\ Goto(s, "first")
    BY DEF InsertRow, tables
  <1>8. \A i \in TxIds : i >= nextId' => write'[s][i] = None
    BY <1>1, <1>5, <1>7 DEF TxIds
  <1>9. nextId' >= nextId
    BY <1>1, <1>7 DEF TxIds
  <1>10. \A i \in TxIds : write'[s][i] # None /\ write'[s][i] # write[s][i] =>
            /\ \A o \in Slots \ {s} : write[o][i] = None
            /\ row[i] # None => write'[s][i].ref = row[i].ref
    BY <1>4, <1>5
  <1> HIDE DEF r
  <1>11. QED
    BY <1>3, <1>6, <1>7, <1>8, <1>9, <1>10, WriteInv

LEMMA InsertPairInv ==
  ASSUME IInv, TypeInv', NEW s \in Slots, InsertPair(s)
  PROVE  IInv'
  <1> DEFINE x == nextId
             y == nextId + 1
             r == PostedRow(job[s], job[s].first, y)
             q == PostedRow(job[s], job[s].second, x)
  <1>1. /\ pc[s] = "row" /\ job[s].kind = "transfer" /\ write[s] = NoWrites
        /\ x \in TxIds /\ y \in TxIds /\ job[s] \in Job /\ x # y
        /\ job[s].second \in Leg /\ JobTyped(s)
    BY LedgerDataAssumption
       DEF InsertPair, IInv, TypeInv, TypeOK, JobTyped, SlotInv, Quiet, TxIds
  <1>2. /\ r.ref = y /\ q.ref = x /\ r.acc # q.acc /\ r.type # q.type
        /\ r.amt = q.amt /\ r.user = q.user /\ r.live = q.live
    BY <1>1 DEF PostedRow, JobTyped
  <1>3. /\ write'[s] = [NoWrites EXCEPT ![x] = r, ![y] = q]
        /\ pc'[s] = "first"
        /\ \A o \in Slots \ {s} : write'[o] = write[o] /\ job'[o] = job[o]
    BY <1>1 DEF InsertPair, Goto, IInv, TypeInv, TypeOK
  <1>4. job'[s].kind = "transfer"
    BY <1>1 DEF InsertPair, IInv, TypeInv, TypeOK, Job, Leg
  <1>5. /\ row[x] = None /\ \A o \in Slots : write[o][x] = None
        /\ row[y] = None /\ \A o \in Slots : write[o][y] = None
    BY <1>1 DEF IInv, Fresh, TxIds
  <1>6. /\ \A i \in TxIds : write'[s][i] # None => i \in {x, y}
        /\ write'[s][x] = r /\ write'[s][y] = q
    BY <1>1, <1>3 DEF NoWrites
  <1>7. r # None /\ q # None
    BY <1>1, PostedRowTyped, LedgerDataAssumption DEF JobTyped, Job
  <1>8. Linked(write'[s])
    BY <1>1, <1>2, <1>6, <1>7 DEF Linked, LegsMatch
  <1>9. SlotInv(s)'
    BY <1>3, <1>4, <1>8
       DEF SlotInv, Quiet, KnowsRow, DeletionWrites, OtherWrites, PCs, InTx
  <1>10. nextId' = nextId + 2 /\ UNCHANGED row /\ Goto(s, "first")
    BY DEF InsertPair, tables
  <1>11. \A i \in TxIds : i >= nextId' => write'[s][i] = None
    BY <1>1, <1>6, <1>10 DEF TxIds
  <1>12. nextId' >= nextId
    BY <1>1, <1>10 DEF TxIds
  <1>13. QED
    BY <1>3, <1>5, <1>6, <1>9, <1>10, <1>11, <1>12, WriteInv

LEMMA UpdateRowInv ==
  ASSUME IInv, TypeInv', NEW s \in Slots, UpdateRow(s)
  PROVE  IInv'
  <1> DEFINE i == job[s].first.id
             r == [row[i] EXCEPT !.amt = IF job[s].amt > 0 THEN job[s].amt
                                                           ELSE @]
             place == IF LegDelta(job[s].first) # 0 THEN "first" ELSE "commit"
  <1>1. /\ pc[s] = "row" /\ job[s].kind = "update" /\ write[s] = NoWrites
        /\ i \in TxIds /\ JobTyped(s) /\ KnowsRow(s) /\ job[s].ref = NoTx
    BY DEF UpdateRow, IInv, TypeInv, JobTyped, SlotInv, Quiet
  <1>2. row[i] \in Row /\ row[i].ref = NoTx /\ ~RowLockedByOther(s, i)
    BY <1>1 DEF UpdateRow, KnowsRow, IInv, TypeInv, TypeOK
  <1>3. r.ref = NoTx
    BY <1>2 DEF Row
  <1>4. write' = [write EXCEPT ![s][i] = r] /\ Goto(s, place)
        /\ UNCHANGED <<row, nextId, job>>
    BY DEF UpdateRow, tables
  <1>5. place \in {"first", "commit"}
    OBVIOUS
  <1> HIDE DEF r, place
  <1>6. /\ write'[s] = [NoWrites EXCEPT ![i] = r] /\ pc'[s] = place
        /\ \A o \in Slots \ {s} : write'[o] = write[o]
    BY <1>1, <1>4 DEF IInv, TypeInv, TypeOK, Goto
  <1>7. \A k \in TxIds : write'[s][k] # None => k = i /\ write'[s][k] = r
    BY <1>1, <1>6 DEF NoWrites
  <1>8. SlotInv(s)'
    BY <1>1, <1>2, <1>3, <1>4, <1>5, <1>6, <1>7
       DEF SlotInv, Quiet, KnowsRow, DeletionWrites, OtherWrites, Linked, PCs,
           InTx
  <1>9. \A k \in TxIds : k >= nextId' => write'[s][k] = None
    BY <1>1, <1>2, <1>4, <1>7, LedgerDataAssumption DEF IInv, Fresh
  <1>10. \A o \in Slots \ {s} : write[o][i] = None
    BY <1>2 DEF RowLockedByOther
  <1>11. nextId' >= nextId
    BY <1>4 DEF IInv, TypeInv, TypeOK
  <1>12. QED
    BY <1>2, <1>3, <1>4, <1>6, <1>7, <1>8, <1>9, <1>10, <1>11, WriteInv

(* A deletion writes a row it may write: alive, of its own pair, and held  *)
(* by nobody else.                                                         *)
LEMMA DeleteInv ==
  ASSUME IInv, TypeInv', NEW s \in Slots, NEW i \in TxIds,
         NEW place \in {"first", "second"}, Goto(s, place),
         pc[s] \in InTx, job[s].kind = "delete",
         i \in {job[s].first.id, job[s].ref},
         write' = [write EXCEPT ![s][i] = [row[i] EXCEPT !.live = FALSE]],
         UNCHANGED <<row, nextId, job>>,
         Live(i), ~RowLockedByOther(s, i),
         job[s].first.id = i \/ write[s][job[s].first.id] # None,
         place = "second" /\ job[s].ref # NoTx => i = job[s].ref
  PROVE  IInv'
  <1> DEFINE r == [row[i] EXCEPT !.live = FALSE]
  <1>1. row[i] \in Row /\ row[i] # None /\ row[i].live
    BY DEF Live, IInv, TypeInv, TypeOK
  <1>2. r.ref = row[i].ref /\ r # None /\ r \in Row
    BY <1>1, LedgerDataAssumption DEF Row
  <1>3. /\ pc'[s] = place
        /\ \A o \in Slots \ {s} : write'[o] = write[o]
        /\ \A k \in TxIds : write'[s][k] = IF k = i THEN r ELSE write[s][k]
    BY DEF IInv, TypeInv, TypeOK, Goto
  <1>4. KnowsRow(s) /\ DeletionWrites(s) /\ pc[s] # "idle"
        /\ job[s].first.id \in TxIds /\ job[s] \in Job
    BY DEF IInv, SlotInv, InTx, TypeInv, TypeOK, JobTyped
  <1>5. DeletionWrites(s)'
    <2>1. ASSUME NEW k \in TxIds, write'[s][k] # None
          PROVE  /\ k \in {job[s].first.id, job[s].ref}
                 /\ row[k] # None
                 /\ row[k].live
                 /\ write'[s][k] = [row[k] EXCEPT !.live = FALSE]
      <3>1. CASE k = i
        BY <3>1, <1>1, <1>3
      <3>2. CASE k # i
        BY <2>1, <3>2, <1>3, <1>4 DEF DeletionWrites
      <3>3. QED
        BY <3>1, <3>2
    <2>2. write'[s][job[s].first.id] # None
      BY <1>2, <1>3, <1>4
    <2>3. place = "second" /\ job[s].ref # NoTx => write'[s][job[s].ref] # None
      BY <1>2, <1>3
    <2>4. QED
      BY <1>3, <2>1, <2>2, <2>3 DEF DeletionWrites
  <1>6. SlotInv(s)'
    BY <1>3, <1>4, <1>5 DEF SlotInv, Quiet, KnowsRow, OtherWrites, PCs, InTx
  <1>7. \A k \in TxIds : k >= nextId' => write'[s][k] = None
    BY <1>1, <1>3 DEF IInv, Fresh
  <1>8. \A o \in Slots \ {s} : write[o][i] = None
    BY DEF RowLockedByOther
  <1>9. nextId' >= nextId
    BY DEF IInv, TypeInv, TypeOK
  <1>10. \A k \in TxIds : write'[s][k] # None /\ write'[s][k] # write[s][k] =>
           /\ \A o \in Slots \ {s} : write[o][k] = None
           /\ row[k] # None => write'[s][k].ref = row[k].ref
    BY <1>2, <1>3, <1>8
  <1>11. QED
    BY <1>3, <1>6, <1>7, <1>9, <1>10, WriteInv

LEMMA DeleteRowInv ==
  ASSUME IInv, TypeInv', NEW s \in Slots, DeleteRow(s)
  PROVE  IInv'
  <1> DEFINE i == job[s].first.id
  <1>1. i \in TxIds /\ pc[s] = "row" /\ job[s].kind = "delete"
    BY DEF DeleteRow, IInv, TypeInv, JobTyped
  <1>2. /\ write' = [write EXCEPT ![s][i] = [row[i] EXCEPT !.live = FALSE]]
        /\ Goto(s, "first") /\ UNCHANGED <<row, nextId, job>>
        /\ Live(i) /\ ~RowLockedByOther(s, i)
    BY DEF DeleteRow, tables, Matches
  <1>3. QED
    BY <1>1, <1>2, DeleteInv DEF InTx

LEMMA DeleteMateInv ==
  ASSUME IInv, TypeInv', NEW s \in Slots, DeleteMate(s)
  PROVE  IInv'
  <1> DEFINE i == job[s].second.id
  <1>1. /\ pc[s] = "mate" /\ job[s].kind = "delete" /\ job[s].ref # NoTx
        /\ i = job[s].ref /\ job[s] \in Job
    BY DEF DeleteMate, IInv, TypeInv, TypeOK, Placed
  <1>2. i \in TxIds
    BY <1>1 DEF Job
  <1>3. /\ write' = [write EXCEPT ![s][i] = [row[i] EXCEPT !.live = FALSE]]
        /\ Goto(s, "second") /\ UNCHANGED <<row, nextId, job>>
        /\ Live(i) /\ ~RowLockedByOther(s, i)
    BY DEF DeleteMate, tables, Matches
  <1>4. write[s][job[s].first.id] # None
    BY <1>1 DEF IInv, SlotInv, DeletionWrites, InTx
  <1>5. QED
    BY <1>1, <1>2, <1>3, <1>4, DeleteInv DEF InTx

(* What a request commits is complete: whole pairs, or rows outside any.   *)
LEMMA CommitIsComplete ==
  ASSUME IInv, NEW s \in Slots, pc[s] = "commit"
  PROVE  Linked(write[s])
  <1>1. CASE job[s].kind # "delete"
    BY <1>1 DEF IInv, SlotInv, OtherWrites
  <1>2. CASE job[s].kind = "delete"
    <2> DEFINE f == job[s].first.id
               g == job[s].ref
    <2>1. /\ DeletionWrites(s) /\ KnowsRow(s) /\ f \in TxIds
          /\ job[s] \in Job /\ g \in TxIds \union {NoTx}
      BY <1>2 DEF IInv, SlotInv, TypeInv, TypeOK, JobTyped, Job
    <2>2. row[f] # None /\ row[f].ref = g
      BY <1>2, <2>1 DEF KnowsRow
    <2> SUFFICES ASSUME NEW i \in TxIds, write[s][i] # None,
                        write[s][i].ref # NoTx
                 PROVE  LegsMatch(write[s], i, write[s][i].ref)
      BY DEF Linked
    <2>3. /\ i \in {f, g} /\ row[i] # None /\ row[i].live
          /\ write[s][i] = [row[i] EXCEPT !.live = FALSE]
      BY <1>2, <2>1 DEF DeletionWrites
    <2>4. write[s][i].ref = row[i].ref
      BY <2>3 DEF IInv, RefKept
    <2>5. g # NoTx
      <3>1. i # NoTx
        BY DEF TxIds, NoTx
      <3>2. QED
        BY <2>2, <2>3, <2>4, <3>1
    <2>6. LegsMatch(row, f, g) /\ g \in TxIds
      BY <2>1, <2>2, <2>5 DEF IInv, Linked
    <2>7. row[g].ref = f /\ row[g] # None
      BY <2>6 DEF LegsMatch
    <2>8. write[s][f] # None /\ write[s][g] # None
      BY <1>2, <2>1, <2>5 DEF DeletionWrites, InTx
    <2>9. /\ write[s][f] = [row[f] EXCEPT !.live = FALSE]
          /\ write[s][g] = [row[g] EXCEPT !.live = FALSE]
      BY <1>2, <2>1, <2>6, <2>8 DEF DeletionWrites
    <2>10. row[f] \in Row /\ row[g] \in Row
      BY <2>1, <2>2, <2>6, <2>7 DEF IInv, TypeInv, TypeOK
    <2>11. LegsMatch(write[s], f, g) /\ LegsMatch(write[s], g, f)
      BY <2>2, <2>6, <2>7, <2>8, <2>9, <2>10 DEF LegsMatch, Row
    <2>12. QED
      BY <2>2, <2>3, <2>4, <2>7, <2>11
  <1>3. QED
    BY <1>1, <1>2

LEMMA CommitInv ==
  ASSUME IInv, TypeInv', NEW s \in Slots, Commit(s)
  PROVE  IInv'
  <1>1. Linked(write[s])
    BY CommitIsComplete DEF Commit
  <1>2. /\ \A i \in TxIds :
             row'[i] = IF write[s][i] # None THEN write[s][i] ELSE row[i]
        /\ nextId' = nextId
    BY DEF Commit, WithWrites
  <1>3. /\ write'[s] = NoWrites /\ pc'[s] = "idle"
        /\ \A o \in Slots \ {s} : /\ write'[o] = write[o] /\ pc'[o] = pc[o]
                                  /\ job'[o] = job[o]
    BY DEF Commit, Finish, Goto, IInv, TypeInv, TypeOK
  <1>4. Fresh' /\ Exclusive'
    BY <1>2, <1>3 DEF IInv, Fresh, Exclusive, NoWrites
  <1>5. \A o \in Slots \ {s} : \A i \in TxIds :
          write[o][i] # None => row'[i] = row[i]
    BY <1>2 DEF IInv, Exclusive
  <1>6. RefKept'
    BY <1>3, <1>5 DEF IInv, RefKept, NoWrites
  <1>7. \A i \in TxIds : row[i] # None =>
          row'[i] # None /\ row'[i].ref = row[i].ref
    BY <1>2 DEF IInv, RefKept
  <1>8. Linked(row)'
    <2> SUFFICES ASSUME NEW i \in TxIds, row'[i] # None, row'[i].ref # NoTx
                 PROVE  LegsMatch(row', i, row'[i].ref)
      BY DEF Linked, LegsMatch
    <2> DEFINE j == row'[i].ref
    <2>1. j \in TxIds
      BY DEF TypeInv, TypeOK, Row
    <2>2. CASE write[s][i] # None
      <3>1. row'[i] = write[s][i] /\ LegsMatch(write[s], i, j)
        BY <1>1, <1>2, <2>2 DEF Linked
      <3>2. row'[j] = write[s][j]
        BY <1>2, <2>1, <3>1 DEF LegsMatch
      <3>3. QED
        BY <3>1, <3>2 DEF LegsMatch
    <2>3. CASE write[s][i] = None
      <3>1. row'[i] = row[i] /\ LegsMatch(row, i, j)
        BY <1>2, <2>3 DEF IInv, Linked
      <3>2. write[s][j] = None
        <4> SUFFICES ASSUME write[s][j] # None PROVE FALSE
          OBVIOUS
        <4>1. write[s][j].ref = i
          BY <2>1, <3>1 DEF IInv, RefKept, LegsMatch
        <4>2. i # NoTx
          BY DEF TxIds, NoTx
        <4>3. QED
          BY <1>1, <2>1, <2>3, <4>1, <4>2 DEF Linked, LegsMatch
      <3>3. row'[j] = row[j]
        BY <1>2, <2>1, <3>2
      <3>4. QED
        BY <3>1, <3>3 DEF LegsMatch
    <2>4. QED
      BY <2>2, <2>3
  <1>9. SlotInv(s)'
    BY <1>3 DEF SlotInv, Quiet, KnowsRow, DeletionWrites, OtherWrites
  <1>10. ASSUME NEW o \in Slots, o # s PROVE SlotInv(o)'
    <2>1. Quiet(o)' /\ OtherWrites(o)'
      BY <1>3, <1>10 DEF IInv, SlotInv, Quiet, OtherWrites
    <2>2. KnowsRow(o)'
      <3>1. KnowsRow(o) /\ JobTyped(o)
        BY DEF IInv, SlotInv, TypeInv
      <3>2. pc'[o] = pc[o] /\ job'[o] = job[o]
        BY <1>3, <1>10
      <3>3. QED
        BY <1>7, <3>1, <3>2 DEF KnowsRow, JobTyped
    <2>3. DeletionWrites(o)'
      BY <1>3, <1>5, <1>10 DEF IInv, SlotInv, DeletionWrites
    <2>4. QED
      BY <2>1, <2>2, <2>3 DEF SlotInv
  <1>11. QED
    BY <1>4, <1>6, <1>8, <1>9, <1>10 DEF IInv

LEMMA NextInv ==
  ASSUME IInv, [Next]_vars
  PROVE  IInv'
  <1>1. TypeInv'
    BY NextTyped DEF IInv
  <1>2. ASSUME NEW a \in Accounts, OpenAccount(a) PROVE IInv'
    BY <1>1, <1>2
       DEF OpenAccount, slotVars, IInv, Fresh, Exclusive, RefKept, Linked,
           LegsMatch, SlotInv, Quiet, KnowsRow, DeletionWrites, OtherWrites
  <1>3. ASSUME NEW s \in Slots, Request(s) PROVE IInv'
    BY <1>1, <1>3, RequestInv
  <1>4. ASSUME NEW s \in Slots, Proceed(s) PROVE IInv'
    <2>1. CASE \/ RefuseDest(s) \/ RefuseClose(s) \/ RowGone(s)
               \/ CloseAccount(s) \/ AccountGone(s)
      BY <1>1, <2>1, FinishInv
         DEF RefuseDest, RefuseClose, RowGone, CloseAccount, AccountGone,
             tables
    <2>2. QED
      BY <1>1, <1>4, <2>1, GoOnOnlyInv, BalanceInv, FindLinkedInv,
         InsertRowInv, InsertPairInv, UpdateRowInv, DeleteRowInv,
         DeleteMateInv, CommitInv
         DEF Proceed
  <1>5. ASSUME NEW s \in Slots, Abort(s) PROVE IInv'
    BY <1>1, <1>5, FinishInv DEF Abort, tables
  <1>6. CASE UNCHANGED vars
    BY <1>1, <1>6
       DEF vars, IInv, Fresh, Exclusive, RefKept, Linked, LegsMatch, SlotInv,
           Quiet, KnowsRow, DeletionWrites, OtherWrites
  <1>7. QED
    BY <1>2, <1>3, <1>4, <1>5, <1>6 DEF Next

LEMMA Invariance == Spec => []IInv
  BY InitInv, NextInv, PTL DEF Spec

(* However many requests overlap and wherever they fail, the two legs of a *)
(* transfer point at each other, agree, and live and die together.         *)
THEOREM LegsAgree == Spec => []TransferLegsAgree
  <1>1. IInv => TransferLegsAgree
    BY DEF IInv, TransferLegsAgree
  <1>2. QED
    BY <1>1, Invariance, PTL

-----------------------------------------------------------------------------
(* The refinement.  The invariant above, extended by what each request     *)
(* knows of the tables and what it has changed so far.                     *)

Known(a) == acct[a].status # "none"

(* A request works on accounts of its user.                                *)
OwnAccounts(s) ==
    pc[s] # "idle" =>
      /\ Owner[job[s].first.acc] = job[s].user
      /\ Known(job[s].first.acc)
      /\ job[s].kind = "transfer" /\ pc[s] # "dest" =>
           /\ Owner[job[s].second.acc] = job[s].user
           /\ Known(job[s].second.acc)

(* Where a request that is about the row of a table says of the row what   *)
(* the table says: everything but an amount that an edit may change.       *)
TrueLegs(s) ==
    pc[s] # "idle" =>
      /\ job[s].kind \in {"create", "transfer"} => job[s].first.old = 0
      /\ job[s].kind = "transfer" => job[s].second.old = 0
      /\ job[s].kind \in {"update", "delete"} =>
           /\ job[s].first.acc = row[job[s].first.id].acc
           /\ job[s].first.type = row[job[s].first.id].type
           /\ job[s].first.old \in Amounts
      /\ job[s].kind = "update" =>
           job[s].first.new = IF job[s].amt > 0 THEN job[s].amt
                                                ELSE job[s].first.old
      /\ job[s].kind = "delete" =>
           /\ job[s].first.new = 0
           /\ job[s].ref # NoTx =>
                job[s].first.old = row[job[s].first.id].amt
           /\ job[s].ref # NoTx /\ pc[s] \in {"mate", "second", "commit"} =>
                job[s].second = ReadLeg(job[s].ref, 0)

(* What a request other than a deletion has written: all of it, at once.   *)
TrueWrites(s) ==
    LET j == job[s]
        i == j.first.id
        k == j.second.id
    IN  pc[s] \in InTx \ {"row"} =>
          /\ j.kind # "close"
          /\ j.kind = "create" =>
               /\ i \in TxIds
               /\ row[i] = None
               /\ write[s] = [NoWrites EXCEPT ![i] =
                                PostedRow(j, j.first, NoTx)]
          /\ j.kind = "transfer" =>
               /\ i \in TxIds /\ k \in TxIds /\ i # k
               /\ row[i] = None /\ row[k] = None
               /\ write[s] = [NoWrites EXCEPT
                                ![i] = PostedRow(j, j.first, k),
                                ![k] = PostedRow(j, j.second, i)]
          /\ j.kind = "update" =>
               /\ row[i].live
               /\ write[s] = [NoWrites EXCEPT ![i] =
                                [row[i] EXCEPT !.amt = IF j.amt > 0 THEN j.amt
                                                                    ELSE @]]

(* What a leg has added to its account: nothing if that is deleted.  An    *)
(* account cannot be deleted in between, for it is locked, or become open. *)
Applied(leg) == IF IsOpen(leg.acc) THEN LegDelta(leg) ELSE 0

FirstDone(s) == pc[s] \in {"link", "mate", "second", "commit"}
SecondDone(s) ==
    pc[s] = "commit" /\ (job[s].kind = "transfer" \/ job[s].ref # NoTx)

TrueDeltas(s) ==
    \A a \in Accounts :
        delta[s][a] = IF FirstDone(s) /\ a = job[s].first.acc
                      THEN Applied(job[s].first)
                      ELSE IF SecondDone(s) /\ a = job[s].second.acc
                      THEN Applied(job[s].second)
                      ELSE 0

Sound(s) == OwnAccounts(s) /\ TrueLegs(s) /\ TrueWrites(s) /\ TrueDeltas(s)

RInv ==
    /\ IInv
    /\ PostedByOwner
    /\ \A s \in Slots : Sound(s)

(* A step of another request may do this to the tables while request o is  *)
(* between two statements.                                                 *)
Kept(o) ==
    /\ \A i \in TxIds : row[i] # None =>
         /\ row'[i] # None
         /\ row'[i].acc = row[i].acc
         /\ row'[i].type = row[i].type
         /\ row'[i].ref = row[i].ref
         /\ row[i].ref # NoTx => row'[i].amt = row[i].amt
    /\ \A i \in TxIds : write[o][i] # None => row'[i] = row[i]
    /\ \A a \in Accounts : Known(a) =>
         /\ Known(a)'
         /\ ~IsOpen(a) => ~IsOpen(a)'
         /\ delta[o][a] # 0 => (IsOpen(a)' <=> IsOpen(a))

-----------------------------------------------------------------------------
LEMMA InitSound == Init => RInv
  <1> SUFFICES ASSUME Init PROVE RInv
    OBVIOUS
  <1>1. IInv
    BY InitInv
  <1>2. QED
    BY <1>1
       DEF Init, RInv, PostedByOwner, Sound, OwnAccounts, TrueLegs, TrueWrites,
           TrueDeltas, FirstDone, SecondDone, NoWrites, NoDelta, InTx

(* What every leg and job of a request at work is made of.                 *)
LEMMA JobParts ==
  ASSUME IInv, NEW s \in Slots, pc[s] # "idle"
  PROVE  /\ job[s] \in Job
         /\ job[s].first \in Leg
         /\ job[s].first.acc \in Accounts
         /\ job[s].kind = "transfer" => /\ job[s].second \in Leg
                                        /\ job[s].second.acc \in Accounts
                                        /\ job[s].second.acc # job[s].first.acc
         /\ job[s].kind \in {"update", "delete"} =>
               /\ job[s].first.id \in TxIds
               /\ row[job[s].first.id] \in Row
               /\ row[job[s].first.id] # None
               /\ row[job[s].first.id].ref = job[s].ref
  <1>1. /\ job[s] \in Job /\ JobTyped(s) /\ KnowsRow(s)
        /\ row \in [TxIds -> Row \union {None}]
    BY DEF IInv, TypeInv, TypeOK, SlotInv
  <1>2. job[s].first \in Leg
    BY <1>1 DEF Job
  <1>3. job[s].kind = "transfer" => job[s].second \in Leg
    BY <1>1 DEF JobTyped
  <1>4. job[s].kind \in {"update", "delete"} => job[s].first.id \in TxIds
    BY <1>1 DEF JobTyped
  <1>5. QED
    BY <1>1, <1>2, <1>3, <1>4 DEF Leg, JobTyped, KnowsRow

(* The other leg of the transfer that a request deletes.                   *)
LEMMA MateParts ==
  ASSUME IInv, NEW s \in Slots, pc[s] # "idle", job[s].kind = "delete",
         job[s].ref # NoTx
  PROVE  /\ job[s].ref \in TxIds
         /\ row[job[s].ref] # None
         /\ row[job[s].ref] \in Row
         /\ LegsMatch(row, job[s].first.id, job[s].ref)
         /\ row[job[s].ref].ref # NoTx
  <1>1. /\ job[s] \in Job /\ job[s].first.id \in TxIds
        /\ row[job[s].first.id] # None
        /\ row[job[s].first.id].ref = job[s].ref
    BY JobParts
  <1>2. job[s].ref \in TxIds
    BY <1>1 DEF Job
  <1>3. LegsMatch(row, job[s].first.id, job[s].ref)
    BY <1>1 DEF IInv, Linked
  <1>4. job[s].first.id # NoTx
    BY <1>1 DEF TxIds, NoTx
  <1>5. row[job[s].ref] # None /\ row[job[s].ref].ref = job[s].first.id
    BY <1>3 DEF LegsMatch
  <1>6. row[job[s].ref] \in Row
    BY <1>2, <1>5 DEF IInv, TypeInv, TypeOK
  <1>7. QED
    BY <1>2, <1>3, <1>4, <1>5, <1>6

(* A posted row is a row.                                                  *)
LEMMA PostedIsRow ==
  ASSUME IInv, NEW s \in Slots, pc[s] # "idle",
         job[s].kind \in {"create", "transfer"}, NEW ref \in TxIds \union {NoTx}
  PROVE  /\ PostedRow(job[s], job[s].first, ref) \in Row
         /\ job[s].kind = "transfer" =>
               PostedRow(job[s], job[s].second, ref) \in Row
  <1>1. job[s] \in Job /\ JobTyped(s)
    BY DEF IInv, TypeInv, TypeOK
  <1>2. job[s].first \in Leg /\ job[s].first.new \in Amounts
    BY <1>1 DEF Job, JobTyped
  <1>3. job[s].kind = "transfer" =>
          job[s].second \in Leg /\ job[s].second.new \in Amounts
    BY <1>1, <1>2 DEF JobTyped
  <1>4. QED
    BY <1>1, <1>2, <1>3, PostedRowTyped

(* What others do to the tables leaves a request that stands still sound.  *)
LEMMA OthersSound ==
  ASSUME RInv, NEW o \in Slots, Kept(o),
         pc'[o] = pc[o], job'[o] = job[o], write'[o] = write[o],
         delta'[o] = delta[o]
  PROVE  Sound(o)'
  <1> DEFINE j == job[o]
  <1>1. IInv /\ Sound(o)
    BY DEF RInv
  <1>2. CASE pc[o] = "idle"
    BY <1>1, <1>2
       DEF Sound, OwnAccounts, TrueLegs, TrueWrites, TrueDeltas, FirstDone,
           SecondDone, InTx
  <1>3. CASE pc[o] # "idle"
    <2>1. /\ j.first.acc \in Accounts /\ Known(j.first.acc)
          /\ j.kind = "transfer" => j.second.acc \in Accounts
      BY <1>1, <1>3, JobParts DEF Sound, OwnAccounts
    <2>2. OwnAccounts(o)'
      BY <1>1, <1>3, <2>1 DEF Sound, OwnAccounts, Kept
    <2>3. TrueLegs(o)'
      <3>1. j.kind \in {"update", "delete"} =>
              /\ j.first.id \in TxIds /\ row[j.first.id] # None
              /\ row[j.first.id].ref = j.ref
        BY <1>1, <1>3, JobParts
      <3>2. j.kind \in {"update", "delete"} =>
              /\ row'[j.first.id].acc = row[j.first.id].acc
              /\ row'[j.first.id].type = row[j.first.id].type
              /\ j.ref # NoTx => row'[j.first.id].amt = row[j.first.id].amt
        BY <3>1 DEF Kept
      <3>3. j.kind = "delete" /\ j.ref # NoTx =>
              ReadLeg(j.ref, 0)' = ReadLeg(j.ref, 0)
        BY <1>1, <1>3, MateParts DEF Kept, ReadLeg
      <3>4. QED
        BY <1>1, <3>2, <3>3 DEF Sound, TrueLegs
    <2>4. TrueWrites(o)'
      <3>1. CASE pc[o] \notin InTx \ {"row"}
        BY <3>1 DEF TrueWrites
      <3>2. CASE pc[o] \in InTx \ {"row"} /\ j.kind = "create"
        <4>1. write[o][j.first.id] # None
          BY <1>1, <1>3, <3>2, PostedIsRow, LedgerDataAssumption
             DEF Sound, TrueWrites, NoWrites
        <4>2. QED
          BY <1>1, <3>2, <4>1 DEF Sound, TrueWrites, Kept, PostedRow
      <3>3. CASE pc[o] \in InTx \ {"row"} /\ j.kind = "transfer"
        <4>1. write[o][j.first.id] # None /\ write[o][j.second.id] # None
          BY <1>1, <1>3, <3>3, PostedIsRow, LedgerDataAssumption
             DEF Sound, TrueWrites, NoWrites
        <4>2. QED
          BY <1>1, <3>3, <4>1 DEF Sound, TrueWrites, Kept, PostedRow
      <3>4. CASE pc[o] \in InTx \ {"row"} /\ j.kind = "update"
        <4>1. j.first.id \in TxIds /\ row[j.first.id] \in Row
          BY <1>1, <1>3, <3>4, JobParts
        <4>2. write[o][j.first.id] # None
          <5>1. write[o][j.first.id] =
                  [row[j.first.id] EXCEPT !.amt = IF j.amt > 0 THEN j.amt
                                                               ELSE @]
            BY <1>1, <3>4, <4>1 DEF Sound, TrueWrites, NoWrites
          <5>2. job[o] \in Job
            BY <1>1, <1>3, JobParts
          <5>3. write[o][j.first.id] \in Row
            BY <4>1, <5>1, <5>2, LedgerDataAssumption DEF Job, Row
          <5>4. QED
            BY <5>3, LedgerDataAssumption
        <4>3. row'[j.first.id] = row[j.first.id]
          BY <4>1, <4>2 DEF Kept
        <4>4. QED
          BY <1>1, <3>4, <4>3 DEF Sound, TrueWrites
      <3>5. CASE pc[o] \in InTx \ {"row"} /\ j.kind = "delete"
        BY <3>5 DEF TrueWrites
      <3>6. CASE pc[o] \in InTx \ {"row"} /\ j.kind = "close"
        BY <1>1, <3>6 DEF Sound, TrueWrites
      <3>7. j.kind \in AllKinds
        BY <1>1, <1>3, JobParts DEF Job
      <3>8. QED
        BY <3>1, <3>2, <3>3, <3>4, <3>5, <3>6, <3>7 DEF AllKinds
    <2>5. TrueDeltas(o)'
      <3> SUFFICES ASSUME NEW a \in Accounts
                   PROVE  delta[o][a] =
                            IF FirstDone(o)' /\ a = j.first.acc
                            THEN Applied(j.first)'
                            ELSE IF SecondDone(o)' /\ a = j.second.acc
                            THEN Applied(j.second)'
                            ELSE 0
        BY DEF TrueDeltas
      <3>1. delta[o][a] = IF FirstDone(o) /\ a = j.first.acc
                          THEN Applied(j.first)
                          ELSE IF SecondDone(o) /\ a = j.second.acc
                          THEN Applied(j.second)
                          ELSE 0
        BY <1>1 DEF Sound, TrueDeltas
      <3>2. FirstDone(o)' = FirstDone(o) /\ SecondDone(o)' = SecondDone(o)
        BY DEF FirstDone, SecondDone
      <3>3. CASE FirstDone(o) /\ a = j.first.acc
        <4>1. Known(a) /\ delta[o][a] = Applied(j.first)
          BY <2>1, <3>1, <3>3
        <4>2. Applied(j.first)' = Applied(j.first)
          BY <3>3, <4>1 DEF Kept, Applied, LegDelta
        <4>3. QED
          BY <3>2, <3>3, <4>1, <4>2
      <3>4. CASE ~(FirstDone(o) /\ a = j.first.acc) /\ SecondDone(o)
                 /\ a = j.second.acc
        <4>1. Known(a)
          <5>1. CASE j.kind = "transfer"
            BY <1>1, <1>3, <3>4, <5>1 DEF Sound, OwnAccounts, SecondDone
          <5>2. CASE j.kind # "transfer"
            <6>1. j.ref # NoTx /\ pc[o] = "commit"
              BY <3>4, <5>2 DEF SecondDone
            <6>2. j.kind = "delete"
              BY <1>1, <1>3, <6>1 DEF IInv, TypeInv, JobTyped
            <6>3. j.second = ReadLeg(j.ref, 0)
              BY <1>1, <6>1, <6>2 DEF Sound, TrueLegs
            <6>4. a = row[j.ref].acc /\ row[j.ref] # None /\ j.ref \in TxIds
              BY <1>1, <1>3, <3>4, <6>1, <6>2, <6>3, MateParts DEF ReadLeg
            <6>5. QED
              BY <6>4 DEF RInv, PostedByOwner, Known
          <5>3. QED
            BY <5>1, <5>2
        <4>2. delta[o][a] = Applied(j.second)
          BY <3>1, <3>4
        <4>3. Applied(j.second)' = Applied(j.second)
          BY <3>4, <4>1, <4>2 DEF Kept, Applied, LegDelta
        <4>4. QED
          BY <3>2, <3>4, <4>2, <4>3
      <3>5. QED
        BY <3>1, <3>2, <3>3, <3>4
    <2>6. QED
      BY <2>2, <2>3, <2>4, <2>5 DEF Sound
  <1>4. QED
    BY <1>2, <1>3

-----------------------------------------------------------------------------
(* The steps.  First those that leave the tables alone.                    *)

LEMMA SameTablesKept ==
  ASSUME UNCHANGED tables, NEW o \in Slots
  PROVE  Kept(o)
  BY DEF Kept, tables, Known, IsOpen

LEMMA SameTablesOwned ==
  ASSUME PostedByOwner, UNCHANGED tables
  PROVE  PostedByOwner'
  BY DEF PostedByOwner, tables

(* A step of s alone.                                                      *)
LEMMA AdvanceSound ==
  ASSUME RInv, IInv', NEW s \in Slots, UNCHANGED tables,
         NEW place \in PCs, Goto(s, place),
         \A o \in Slots \ {s} : /\ job'[o] = job[o] /\ write'[o] = write[o]
                                /\ delta'[o] = delta[o],
         Sound(s)'
  PROVE  RInv'
  <1>1. \A o \in Slots \ {s} : pc'[o] = pc[o]
    BY DEF Goto, RInv, IInv, TypeInv, TypeOK
  <1>2. \A o \in Slots \ {s} : Sound(o)'
    BY <1>1, OthersSound, SameTablesKept
  <1>3. PostedByOwner'
    BY SameTablesOwned DEF RInv
  <1>4. QED
    BY <1>2, <1>3 DEF RInv

(* The end of a request.                                                   *)
LEMMA FinishSound ==
  ASSUME RInv, IInv', NEW s \in Slots, Finish(s), PostedByOwner',
         \A o \in Slots \ {s} : Kept(o)
  PROVE  RInv'
  <1>1. /\ pc'[s] = "idle" /\ delta'[s] = NoDelta
        /\ \A o \in Slots \ {s} : /\ pc'[o] = pc[o] /\ job'[o] = job[o]
                                  /\ write'[o] = write[o]
                                  /\ delta'[o] = delta[o]
    BY DEF Finish, Goto, RInv, IInv, TypeInv, TypeOK
  <1>2. \A o \in Slots \ {s} : Sound(o)'
    BY <1>1, OthersSound
  <1>3. Sound(s)'
    BY <1>1
       DEF Sound, OwnAccounts, TrueLegs, TrueWrites, TrueDeltas, FirstDone,
           SecondDone, NoDelta, InTx
  <1>4. QED
    BY <1>2, <1>3 DEF RInv

LEMMA EndsSound ==
  ASSUME RInv, IInv', NEW s \in Slots, Finish(s), UNCHANGED tables
  PROVE  RInv'
  <1>1. PostedByOwner'
    BY SameTablesOwned DEF RInv
  <1>2. QED
    BY <1>1, FinishSound, SameTablesKept

(* A request that arrives knows what it has just read.                     *)
LEMMA ArriveSound ==
  ASSUME RInv, IInv', NEW s \in Slots, NEW j,
         NEW place \in {"dest", "count", "begin"}, Arrive(s, j, place),
         Owner[j.first.acc] = j.user, Known(j.first.acc),
         j.kind = "transfer" => place = "dest" /\ j.second.old = 0,
         j.kind \in {"create", "transfer"} => j.first.old = 0,
         j.kind \in {"update", "delete"} =>
           /\ j.first.acc = row[j.first.id].acc
           /\ j.first.type = row[j.first.id].type
           /\ j.first.old \in Amounts,
         j.kind = "update" => j.first.new = IF j.amt > 0 THEN j.amt
                                                         ELSE j.first.old,
         j.kind = "delete" => /\ j.first.new = 0
                              /\ j.first.old = row[j.first.id].amt
  PROVE  RInv'
  <1>1. /\ pc[s] = "idle" /\ pc'[s] = place /\ job'[s] = j
        /\ \A o \in Slots \ {s} : job'[o] = job[o]
    BY DEF Arrive, Goto, RInv, IInv, TypeInv, TypeOK
  <1>2. UNCHANGED <<acct, row, write, delta>> /\ Goto(s, place)
    BY DEF Arrive, tables
  <1>3. \A a \in Accounts : delta[s][a] = 0
    BY <1>1 DEF RInv, Sound, TrueDeltas, FirstDone, SecondDone
  <1>4. Sound(s)'
    BY <1>1, <1>2, <1>3
       DEF Sound, OwnAccounts, TrueLegs, TrueWrites, TrueDeltas, FirstDone,
           SecondDone, InTx, Known
  <1>5. QED
    BY <1>1, <1>2, <1>4, AdvanceSound DEF tables, PCs

LEMMA RequestSound ==
  ASSUME RInv, IInv', NEW s \in Slots, Request(s)
  PROVE  RInv'
  <1>1. CASE CreateRequest(s)
    <2>1. PICK a \in Accounts, t \in Types, m \in Amounts :
            /\ Visible(Owner[a], a)
            /\ Arrive(s, [kind |-> "create", user |-> Owner[a], amt |-> m,
                          ref |-> NoTx, first |-> NewLeg(a, t, m),
                          second |-> None], "begin")
      BY <1>1 DEF CreateRequest
    <2>2. NewLeg(a, t, m).acc = a /\ NewLeg(a, t, m).old = 0
      BY DEF NewLeg
    <2>3. Known(a)
      BY <2>1 DEF Visible, IsOpen, Known
    <2>4. QED
      BY <2>1, <2>2, <2>3, ArriveSound
  <1>2. CASE TransferRequest(s)
    <2>1. PICK a, b \in Accounts, m \in Amounts :
            /\ Visible(Owner[a], a)
            /\ Arrive(s, [kind |-> "transfer", user |-> Owner[a], amt |-> m,
                          ref |-> NoTx, first |-> NewLeg(a, "expense", m),
                          second |-> NewLeg(b, "income", m)], "dest")
      BY <1>2 DEF TransferRequest
    <2>2. /\ NewLeg(a, "expense", m).acc = a
          /\ NewLeg(a, "expense", m).old = 0
          /\ NewLeg(b, "income", m).old = 0
      BY DEF NewLeg
    <2>3. Known(a)
      BY <2>1 DEF Visible, IsOpen, Known
    <2>4. QED
      BY <2>1, <2>2, <2>3, ArriveSound
  <1>3. CASE UpdateRequest(s)
    <2>1. PICK i \in TxIds, m \in Amounts \union {0} :
            /\ Live(i)
            /\ Arrive(s, [kind |-> "update", user |-> row[i].user, amt |-> m,
                          ref |-> NoTx, second |-> None,
                          first |-> ReadLeg(i, IF m > 0 THEN m
                                                        ELSE row[i].amt)],
                      "begin")
      BY <1>3 DEF UpdateRequest
    <2> DEFINE leg == ReadLeg(i, IF m > 0 THEN m ELSE row[i].amt)
    <2>2. /\ row[i] \in Row
          /\ row[i].user = Owner[row[i].acc] /\ Known(row[i].acc)
      BY <2>1 DEF RInv, IInv, TypeInv, TypeOK, Live, PostedByOwner, Known
    <2>3. /\ leg.id = i /\ leg.acc = row[i].acc /\ leg.type = row[i].type
          /\ leg.old = row[i].amt
          /\ leg.new = IF m > 0 THEN m ELSE row[i].amt
      BY DEF ReadLeg
    <2>4. row[i].amt \in Amounts
      BY <2>2 DEF Row
    <2> HIDE DEF leg
    <2>5. Arrive(s, [kind |-> "update", user |-> row[i].user, amt |-> m,
                     ref |-> NoTx, second |-> None, first |-> leg], "begin")
      BY <2>1 DEF leg
    <2>6. QED
      BY <2>2, <2>3, <2>4, <2>5, ArriveSound
  <1>4. CASE DeleteRequest(s)
    <2>1. PICK i \in TxIds :
            /\ Live(i)
            /\ Arrive(s, [kind |-> "delete", user |-> row[i].user, amt |-> 0,
                          ref |-> row[i].ref, first |-> ReadLeg(i, 0),
                          second |-> None], "begin")
      BY <1>4 DEF DeleteRequest
    <2>2. /\ row[i] \in Row
          /\ row[i].user = Owner[row[i].acc] /\ Known(row[i].acc)
      BY <2>1 DEF RInv, IInv, TypeInv, TypeOK, Live, PostedByOwner, Known
    <2>3. /\ ReadLeg(i, 0).id = i /\ ReadLeg(i, 0).acc = row[i].acc
          /\ ReadLeg(i, 0).type = row[i].type
          /\ ReadLeg(i, 0).old = row[i].amt /\ ReadLeg(i, 0).new = 0
      BY DEF ReadLeg
    <2>4. row[i].amt \in Amounts
      BY <2>2 DEF Row
    <2>5. QED
      BY <2>1, <2>2, <2>3, <2>4, ArriveSound
  <1>5. CASE CloseRequest(s)
    <2>1. PICK a \in Accounts :
            /\ Visible(Owner[a], a)
            /\ Arrive(s, [kind |-> "close", user |-> Owner[a], amt |-> 0,
                          ref |-> NoTx, first |-> NewLeg(a, "income", 0),
                          second |-> None], "count")
      BY <1>5 DEF CloseRequest
    <2>2. NewLeg(a, "income", 0).acc = a
      BY DEF NewLeg
    <2>3. Known(a)
      BY <2>1 DEF Visible, IsOpen, Known
    <2>4. QED
      BY <2>1, <2>2, <2>3, ArriveSound
  <1>6. QED
    BY <1>1, <1>2, <1>3, <1>4, <1>5 DEF Request

(* The steps that only go on.                                              *)
LEMMA GoOnSound ==
  ASSUME RInv, IInv', NEW s \in Slots,
         CheckDest(s) \/ CountNone(s) \/ Begin(s)
  PROVE  RInv'
  <1> DEFINE place == IF Begin(s) THEN "row" ELSE "begin"
  <1>1. /\ pc[s] \in {"dest", "count", "begin"}
        /\ Goto(s, place) /\ UNCHANGED <<acct, row, job, write, delta>>
        /\ pc[s] = "dest" => Visible(job[s].user, job[s].second.acc)
    BY DEF CheckDest, CountNone, Begin, tables
  <1>2. pc'[s] = place /\ place \in {"begin", "row"}
    BY <1>1 DEF Goto, RInv, IInv, TypeInv, TypeOK
  <1> HIDE DEF place
  <1>3. Sound(s)
    BY DEF RInv
  <1>4. Visible(job[s].user, job[s].second.acc) =>
          /\ Owner[job[s].second.acc] = job[s].user
          /\ Known(job[s].second.acc)
    BY DEF Visible, IsOpen, Known
  <1>5. OwnAccounts(s)'
    BY <1>1, <1>2, <1>3, <1>4 DEF Sound, OwnAccounts, Known
  <1>6. TrueLegs(s)' /\ TrueWrites(s)' /\ TrueDeltas(s)'
    BY <1>1, <1>2, <1>3
       DEF Sound, TrueLegs, TrueWrites, TrueDeltas, FirstDone, SecondDone,
           InTx
  <1>7. QED
    BY <1>1, <1>2, <1>5, <1>6, AdvanceSound DEF Sound, tables, PCs, InTx

(* What a step inside the transaction finds.                               *)
LEMMA RowParts ==
  ASSUME RInv, NEW s \in Slots, pc[s] = "row"
  PROVE  /\ write[s] = NoWrites
         /\ \A a \in Accounts : delta[s][a] = 0
         /\ write \in [Slots -> [TxIds -> Row \union {None}]]
         /\ job \in [Slots -> Job \union {None}]
         /\ delta \in [Slots -> [Accounts -> Int]]
         /\ pc \in [Slots -> PCs]
         /\ row \in [TxIds -> Row \union {None}]
  BY DEF RInv, IInv, TypeInv, TypeOK, SlotInv, Quiet, Sound, TrueDeltas,
         FirstDone, SecondDone

LEMMA InsertRowSound ==
  ASSUME RInv, IInv', NEW s \in Slots, InsertRow(s)
  PROVE  RInv'
  <1> DEFINE j == job[s]
             n == [j EXCEPT !.first.id = nextId]
  <1>1. /\ pc[s] = "row" /\ j.kind = "create" /\ nextId \in TxIds
        /\ row[nextId] = None
    BY LedgerDataAssumption
       DEF InsertRow, RInv, IInv, TypeInv, TypeOK, Fresh, TxIds
  <1>2. /\ j \in Job /\ j.first \in Leg /\ Sound(s)
    BY <1>1, JobParts DEF RInv
  <1>3. /\ n.kind = "create" /\ n.user = j.user /\ n.first.id = nextId
        /\ n.first.acc = j.first.acc /\ n.first.type = j.first.type
        /\ n.first.old = j.first.old /\ n.first.new = j.first.new
        /\ n.ref = j.ref
    BY <1>1, <1>2 DEF Job, Leg
  <1>4. PostedRow(n, n.first, NoTx) = PostedRow(j, j.first, NoTx)
    BY <1>3 DEF PostedRow
  <1>5. /\ job'[s] = n /\ pc'[s] = "first"
        /\ write'[s] = [NoWrites EXCEPT ![nextId] = PostedRow(j, j.first, NoTx)]
        /\ \A o \in Slots \ {s} : job'[o] = job[o] /\ write'[o] = write[o]
        /\ Goto(s, "first") /\ UNCHANGED <<acct, row, delta>>
    BY <1>1, RowParts DEF InsertRow, Goto, tables
  <1> HIDE DEF n
  <1>6. OwnAccounts(s)' /\ TrueLegs(s)'
    BY <1>1, <1>2, <1>3, <1>5 DEF Sound, OwnAccounts, TrueLegs, Known
  <1>7. TrueWrites(s)'
    BY <1>1, <1>3, <1>4, <1>5 DEF TrueWrites, NoWrites, PostedRow
  <1>8. TrueDeltas(s)'
    BY <1>1, <1>5, RowParts DEF TrueDeltas, FirstDone, SecondDone
  <1>9. QED
    BY <1>5, <1>6, <1>7, <1>8, AdvanceSound DEF Sound, tables, PCs, InTx

LEMMA InsertPairSound ==
  ASSUME RInv, IInv', NEW s \in Slots, InsertPair(s)
  PROVE  RInv'
  <1> DEFINE j == job[s]
             x == nextId
             y == nextId + 1
             n == [j EXCEPT !.first.id = x, !.second.id = y]
  <1>1. /\ pc[s] = "row" /\ j.kind = "transfer"
        /\ x \in TxIds /\ y \in TxIds /\ x # y /\ y >= x /\ x >= x
        /\ row[x] = None /\ row[y] = None
    BY LedgerDataAssumption
       DEF InsertPair, RInv, IInv, TypeInv, TypeOK, Fresh, TxIds
  <1>2. /\ j \in Job /\ j.first \in Leg /\ j.second \in Leg /\ Sound(s)
    BY <1>1, JobParts DEF RInv
  <1>3. /\ n.kind = "transfer" /\ n.user = j.user /\ n.ref = j.ref
        /\ n.first = [j.first EXCEPT !.id = x]
        /\ n.second = [j.second EXCEPT !.id = y]
    BY <1>1, <1>2 DEF Job
  <1>4. /\ n.first.id = x /\ n.first.acc = j.first.acc
        /\ n.first.type = j.first.type
        /\ n.first.old = j.first.old /\ n.first.new = j.first.new
        /\ n.second.id = y /\ n.second.acc = j.second.acc
        /\ n.second.type = j.second.type
        /\ n.second.old = j.second.old /\ n.second.new = j.second.new
    BY <1>2, <1>3 DEF Leg
  <1>5. /\ PostedRow(n, n.first, y) = PostedRow(j, j.first, y)
        /\ PostedRow(n, n.second, x) = PostedRow(j, j.second, x)
    BY <1>3, <1>4 DEF PostedRow
  <1>6. /\ job'[s] = n /\ pc'[s] = "first"
        /\ write'[s] = [NoWrites EXCEPT ![x] = PostedRow(j, j.first, y),
                                        ![y] = PostedRow(j, j.second, x)]
        /\ \A o \in Slots \ {s} : job'[o] = job[o] /\ write'[o] = write[o]
        /\ Goto(s, "first") /\ UNCHANGED <<acct, row, delta>>
    BY <1>1, RowParts DEF InsertPair, Goto, tables
  <1> HIDE DEF n, x, y
  <1>7. OwnAccounts(s)' /\ TrueLegs(s)'
    BY <1>1, <1>2, <1>3, <1>4, <1>6 DEF Sound, OwnAccounts, TrueLegs, Known
  <1>8. TrueWrites(s)'
    BY <1>1, <1>3, <1>4, <1>5, <1>6 DEF TrueWrites, NoWrites, PostedRow
  <1>9. TrueDeltas(s)'
    BY <1>1, <1>6, RowParts DEF TrueDeltas, FirstDone, SecondDone
  <1>10. QED
    BY <1>6, <1>7, <1>8, <1>9, AdvanceSound DEF Sound, tables, PCs, InTx

LEMMA UpdateRowSound ==
  ASSUME RInv, IInv', NEW s \in Slots, UpdateRow(s)
  PROVE  RInv'
  <1> DEFINE j == job[s]
             i == j.first.id
             place == IF LegDelta(j.first) # 0 THEN "first" ELSE "commit"
  <1>1. /\ pc[s] = "row" /\ j.kind = "update" /\ row[i].live
        /\ i \in TxIds /\ Sound(s) /\ j.ref = NoTx
    BY JobParts
       DEF UpdateRow, Matches, Live, RInv, IInv, TypeInv, JobTyped
  <1>2. /\ pc'[s] = place /\ place \in {"first", "commit"}
        /\ place = "commit" => LegDelta(j.first) = 0
        /\ write'[s] = [NoWrites EXCEPT ![i] =
                          [row[i] EXCEPT !.amt = IF j.amt > 0 THEN j.amt
                                                              ELSE @]]
        /\ \A o \in Slots \ {s} : write'[o] = write[o]
        /\ Goto(s, place) /\ UNCHANGED <<acct, row, job, delta>>
    BY <1>1, RowParts DEF UpdateRow, Goto, tables
  <1> HIDE DEF place
  <1>3. OwnAccounts(s)' /\ TrueLegs(s)' /\ TrueWrites(s)'
    BY <1>1, <1>2
       DEF Sound, OwnAccounts, TrueLegs, TrueWrites, Known, NoWrites
  <1>4. TrueDeltas(s)'
    <2>1. place = "commit" => Applied(j.first)' = 0
      BY <1>2 DEF Applied, LegDelta
    <2>2. QED
      BY <1>1, <1>2, <2>1, RowParts DEF TrueDeltas, FirstDone, SecondDone
  <1>5. QED
    BY <1>2, <1>3, <1>4, AdvanceSound DEF Sound, tables, PCs, InTx

LEMMA DeleteRowSound ==
  ASSUME RInv, IInv', NEW s \in Slots, DeleteRow(s)
  PROVE  RInv'
  <1>1. /\ pc[s] = "row" /\ job[s].kind = "delete" /\ Sound(s)
    BY DEF DeleteRow, RInv
  <1>2. /\ pc'[s] = "first"
        /\ \A o \in Slots \ {s} : write'[o] = write[o]
        /\ Goto(s, "first") /\ UNCHANGED <<acct, row, job, delta>>
    BY <1>1, RowParts DEF DeleteRow, Goto, tables
  <1>3. OwnAccounts(s)' /\ TrueLegs(s)' /\ TrueWrites(s)'
    BY <1>1, <1>2
       DEF Sound, OwnAccounts, TrueLegs, TrueWrites, Known
  <1>4. TrueDeltas(s)'
    BY <1>1, <1>2, RowParts DEF TrueDeltas, FirstDone, SecondDone
  <1>5. QED
    BY <1>2, <1>3, <1>4, AdvanceSound DEF Sound, tables, PCs, InTx

LEMMA DeleteMateSound ==
  ASSUME RInv, IInv', NEW s \in Slots, DeleteMate(s)
  PROVE  RInv'
  <1>1. /\ pc[s] = "mate" /\ job[s].kind = "delete" /\ Sound(s)
    BY DEF DeleteMate, RInv, IInv, TypeInv, Placed
  <1>2. /\ pc'[s] = "second"
        /\ \A o \in Slots \ {s} : write'[o] = write[o]
        /\ Goto(s, "second") /\ UNCHANGED <<acct, row, job, delta>>
    BY DEF DeleteMate, Goto, tables, RInv, IInv, TypeInv, TypeOK
  <1>3. OwnAccounts(s)' /\ TrueLegs(s)' /\ TrueWrites(s)'
    BY <1>1, <1>2
       DEF Sound, OwnAccounts, TrueLegs, TrueWrites, Known, ReadLeg
  <1>4. TrueDeltas(s)'
    BY <1>1, <1>2
       DEF Sound, TrueDeltas, FirstDone, SecondDone, Applied, IsOpen, LegDelta
  <1>5. QED
    BY <1>2, <1>3, <1>4, AdvanceSound DEF Sound, tables, PCs, InTx

LEMMA FindLinkedSound ==
  ASSUME RInv, IInv', NEW s \in Slots, FindLinked(s)
  PROVE  RInv'
  <1> DEFINE j == job[s]
             n == [j EXCEPT !.second = ReadLeg(j.ref, 0)]
  <1>1. /\ pc[s] = "link" /\ j.kind = "delete" /\ j.ref # NoTx
        /\ Live(j.ref) /\ j \in Job /\ Sound(s)
    BY MateIsLive DEF FindLinked, RInv, IInv, TypeInv, TypeOK, Placed
  <1>2. /\ n.kind = "delete" /\ n.user = j.user /\ n.first = j.first
        /\ n.ref = j.ref /\ n.second = ReadLeg(j.ref, 0)
    BY <1>1 DEF Job
  <1>3. /\ pc'[s] = "mate" /\ job'[s] = n
        /\ \A o \in Slots \ {s} : job'[o] = job[o]
        /\ Goto(s, "mate") /\ UNCHANGED <<acct, row, write, delta>>
    BY <1>1 DEF FindLinked, Goto, tables, RInv, IInv, TypeInv, TypeOK
  <1> HIDE DEF n
  <1>4. OwnAccounts(s)' /\ TrueLegs(s)' /\ TrueWrites(s)'
    BY <1>1, <1>2, <1>3
       DEF Sound, OwnAccounts, TrueLegs, TrueWrites, Known, ReadLeg
  <1>5. TrueDeltas(s)'
    BY <1>1, <1>2, <1>3
       DEF Sound, TrueDeltas, FirstDone, SecondDone, Applied, IsOpen, LegDelta
  <1>6. QED
    BY <1>3, <1>4, <1>5, AdvanceSound DEF Sound, tables, PCs, InTx

(* The second leg of a transfer, once it is due.                           *)
LEMMA SecondParts ==
  ASSUME RInv, NEW s \in Slots,
         pc[s] = "second" \/ SecondDone(s)
  PROVE  /\ job[s].second \in Leg
         /\ job[s].second.acc \in Accounts
         /\ job[s].second.acc # job[s].first.acc
         /\ Known(job[s].second.acc)
         /\ job[s].kind = "transfer" \/ (job[s].kind = "delete" /\ job[s].ref # NoTx)
  <1> DEFINE j == job[s]
  <1>1. /\ pc[s] \in {"second", "commit"} /\ pc[s] # "idle"
        /\ JobTyped(s) /\ Placed(s) /\ Sound(s) /\ IInv
    BY DEF SecondDone, RInv, IInv, TypeInv
  <1>2. CASE j.kind = "transfer"
    <2>1. Known(j.second.acc)
      BY <1>1, <1>2 DEF Sound, OwnAccounts
    <2>2. QED
      BY <1>1, <1>2, <2>1, JobParts
  <1>3. CASE j.kind # "transfer"
    <2>1. j.ref # NoTx /\ j.kind = "delete"
      BY <1>1, <1>3 DEF SecondDone, Placed, JobTyped
    <2>2. j.second = ReadLeg(j.ref, 0) /\ j.first.acc = row[j.first.id].acc
      BY <1>1, <2>1 DEF Sound, TrueLegs
    <2>3. /\ j.ref \in TxIds /\ row[j.ref] # None /\ row[j.ref] \in Row
          /\ row[j.ref].acc # row[j.first.id].acc
      BY <1>1, <2>1, MateParts DEF LegsMatch
    <2>4. Known(row[j.ref].acc)
      BY <2>3 DEF RInv, PostedByOwner, Known
    <2>5. j.second.acc = row[j.ref].acc
      BY <2>2 DEF ReadLeg
    <2>6. j.second \in Leg
      BY <2>2, <2>3 DEF ReadLeg, Leg, Row
    <2>7. QED
      BY <2>1, <2>2, <2>3, <2>4, <2>5, <2>6 DEF Row
  <1>4. QED
    BY <1>2, <1>3

(* UpdateBalance on an account the transaction has not touched.            *)
LEMMA UpdateBalanceAdds ==
  ASSUME TypeOK, NEW s \in Slots, NEW leg \in Leg, UpdateBalance(s, leg),
         delta[s][leg.acc] = 0
  PROVE  /\ delta'[s][leg.acc] = Applied(leg)
         /\ \A a \in Accounts \ {leg.acc} : delta'[s][a] = delta[s][a]
         /\ \A o \in Slots \ {s} : delta'[o] = delta[o]
  <1>1. leg.acc \in Accounts /\ LegDelta(leg) \in Int
    BY LegDeltaTyped DEF Leg
  <1>2. delta \in [Slots -> [Accounts -> Int]]
    BY DEF TypeOK
  <1>3. CASE IsOpen(leg.acc)
    <2>1. delta' = [delta EXCEPT ![s][leg.acc] = 0 + LegDelta(leg)]
      BY <1>3 DEF UpdateBalance
    <2>2. 0 + LegDelta(leg) = LegDelta(leg)
      BY <1>1
    <2>3. QED
      BY <1>1, <1>2, <1>3, <2>1, <2>2 DEF Applied
  <1>4. CASE ~IsOpen(leg.acc)
    BY <1>4 DEF UpdateBalance, Applied
  <1>5. QED
    BY <1>3, <1>4

LEMMA BalanceFirstSound ==
  ASSUME RInv, IInv', NEW s \in Slots, BalanceFirst(s)
  PROVE  RInv'
  <1> DEFINE j == job[s]
             place == IF j.kind = "transfer" THEN "second"
                      ELSE IF j.ref # NoTx THEN "link" ELSE "commit"
  <1>1. /\ pc[s] = "first" /\ Sound(s) /\ j.first \in Leg /\ TypeOK
    BY JobParts DEF BalanceFirst, RInv, IInv, TypeInv
  <1>2. /\ pc'[s] = place /\ Goto(s, place) /\ UpdateBalance(s, j.first)
        /\ UNCHANGED <<acct, row, job, write>>
    BY <1>1 DEF BalanceFirst, Goto, tables, TypeOK
  <1>3. \A a \in Accounts : delta[s][a] = 0
    BY <1>1 DEF Sound, TrueDeltas, FirstDone, SecondDone
  <1>4. /\ delta'[s][j.first.acc] = Applied(j.first)
        /\ \A a \in Accounts \ {j.first.acc} : delta'[s][a] = 0
        /\ \A o \in Slots \ {s} : delta'[o] = delta[o]
    BY <1>1, <1>2, <1>3, UpdateBalanceAdds DEF Leg
  <1>5. /\ place \in {"second", "link", "commit"}
        /\ place = "commit" => j.kind # "transfer" /\ j.ref = NoTx
        /\ place = "second" => j.kind = "transfer"
    OBVIOUS
  <1> HIDE DEF place
  <1>6. OwnAccounts(s)' /\ TrueWrites(s)'
    BY <1>1, <1>2, <1>5 DEF Sound, OwnAccounts, TrueWrites, Known, InTx
  <1>7. TrueLegs(s)'
    BY <1>1, <1>2, <1>5 DEF Sound, TrueLegs
  <1>8. TrueDeltas(s)'
    <2>1. Applied(j.first)' = Applied(j.first)
      BY <1>2 DEF Applied, IsOpen, LegDelta
    <2>2. FirstDone(s)' /\ ~SecondDone(s)'
      BY <1>2, <1>5 DEF FirstDone, SecondDone
    <2>3. QED
      BY <1>2, <1>4, <2>1, <2>2 DEF TrueDeltas
  <1>9. QED
    BY <1>2, <1>4, <1>5, <1>6, <1>7, <1>8, AdvanceSound
       DEF Sound, tables, PCs, InTx

LEMMA BalanceSecondSound ==
  ASSUME RInv, IInv', NEW s \in Slots, BalanceSecond(s)
  PROVE  RInv'
  <1> DEFINE j == job[s]
  <1>1. /\ pc[s] = "second" /\ Sound(s) /\ TypeOK
    BY DEF BalanceSecond, RInv, IInv, TypeInv
  <1>2. /\ j.second \in Leg /\ j.second.acc \in Accounts
        /\ j.second.acc # j.first.acc
        /\ j.kind = "transfer" \/ (j.kind = "delete" /\ j.ref # NoTx)
    BY <1>1, SecondParts
  <1>3. /\ pc'[s] = "commit" /\ Goto(s, "commit")
        /\ UpdateBalance(s, j.second) /\ UNCHANGED <<acct, row, job, write>>
    BY <1>1 DEF BalanceSecond, Goto, tables, TypeOK
  <1>4. \A a \in Accounts :
          delta[s][a] = IF a = j.first.acc THEN Applied(j.first) ELSE 0
    BY <1>1 DEF Sound, TrueDeltas, FirstDone, SecondDone
  <1>5. /\ delta'[s][j.second.acc] = Applied(j.second)
        /\ \A a \in Accounts \ {j.second.acc} : delta'[s][a] = delta[s][a]
        /\ \A o \in Slots \ {s} : delta'[o] = delta[o]
    BY <1>1, <1>2, <1>3, <1>4, UpdateBalanceAdds
  <1>6. OwnAccounts(s)' /\ TrueLegs(s)' /\ TrueWrites(s)'
    BY <1>1, <1>3
       DEF Sound, OwnAccounts, TrueLegs, TrueWrites, Known, InTx, ReadLeg
  <1>7. TrueDeltas(s)'
    <2>1. /\ Applied(j.first)' = Applied(j.first)
          /\ Applied(j.second)' = Applied(j.second)
      BY <1>3 DEF Applied, IsOpen, LegDelta
    <2>2. FirstDone(s)' /\ SecondDone(s)'
      BY <1>2, <1>3 DEF FirstDone, SecondDone
    <2>3. QED
      BY <1>2, <1>3, <1>4, <1>5, <2>1, <2>2 DEF TrueDeltas
  <1>8. QED
    BY <1>3, <1>5, <1>6, <1>7, AdvanceSound DEF Sound, tables, PCs, InTx

-----------------------------------------------------------------------------
(* The steps that change the tables.                                       *)

LEMMA OpenAccountSound ==
  ASSUME RInv, IInv', NEW a \in Accounts, OpenAccount(a)
  PROVE  RInv'
  <1>1. /\ ~Known(a) /\ UNCHANGED <<row, pc, job, write, delta>>
        /\ \A b \in Accounts \ {a} : acct'[b] = acct[b]
        /\ acct'[a].status = "open"
    BY DEF OpenAccount, NewAccount, Known, slotVars, RInv, IInv, TypeInv,
           TypeOK
  <1>2. \A o \in Slots : Kept(o)
    BY <1>1 DEF Kept, Known, IsOpen
  <1>3. PostedByOwner'
    <2> SUFFICES ASSUME NEW i \in TxIds, row[i] # None
                 PROVE  /\ row[i].user = Owner[row[i].acc]
                        /\ acct'[row[i].acc].status # "none"
      BY <1>1 DEF PostedByOwner
    <2>1. row[i].acc \in Accounts
      BY DEF RInv, IInv, TypeInv, TypeOK, Row
    <2>2. QED
      BY <1>1, <2>1 DEF RInv, PostedByOwner
  <1>4. \A o \in Slots : Sound(o)'
    BY <1>1, <1>2, OthersSound
  <1>5. QED
    BY <1>3, <1>4 DEF RInv

LEMMA CloseAccountSound ==
  ASSUME RInv, IInv', NEW s \in Slots, CloseAccount(s)
  PROVE  RInv'
  <1> DEFINE c == job[s].first.acc
  <1>1. c \in Accounts /\ IsOpen(c)
    BY JobParts DEF CloseAccount, RInv
  <1>2. /\ UNCHANGED row /\ Finish(s)
        /\ \A b \in Accounts \ {c} : acct'[b] = acct[b]
        /\ acct'[c].status = "deleted"
        /\ \A o \in Slots \ {s} : delta[o][c] = 0
    BY <1>1 DEF CloseAccount, AccountLockedByOther, RInv, IInv, TypeInv,
                TypeOK, Account
  <1>3. \A o \in Slots \ {s} : Kept(o)
    BY <1>1, <1>2 DEF Kept, Known, IsOpen
  <1>4. PostedByOwner'
    <2> SUFFICES ASSUME NEW i \in TxIds, row[i] # None
                 PROVE  /\ row[i].user = Owner[row[i].acc]
                        /\ acct'[row[i].acc].status # "none"
      BY <1>2 DEF PostedByOwner
    <2>1. row[i].acc \in Accounts
      BY DEF RInv, IInv, TypeInv, TypeOK, Row
    <2>2. QED
      BY <1>2, <2>1 DEF RInv, PostedByOwner
  <1>5. QED
    BY <1>2, <1>3, <1>4, FinishSound

(* What a request about to commit has written: a row nobody has yet, of    *)
(* its user on an account of its user, or a live row, with another amount  *)
(* unless it is a leg, or dead.                                            *)
LEMMA WrittenRow ==
  ASSUME RInv, NEW s \in Slots, pc[s] = "commit", NEW i \in TxIds,
         write[s][i] # None
  PROVE  /\ row[i] = None =>
              /\ write[s][i].user = Owner[write[s][i].acc]
              /\ Known(write[s][i].acc)
         /\ row[i] # None =>
              /\ row[i].live
              /\ write[s][i].acc = row[i].acc
              /\ write[s][i].type = row[i].type
              /\ write[s][i].ref = row[i].ref
              /\ write[s][i].user = row[i].user
              /\ row[i].ref # NoTx => write[s][i].amt = row[i].amt
  <1> DEFINE j == job[s]
             n == j.first.id
  <1>1. Sound(s) /\ IInv /\ pc[s] # "idle" /\ pc[s] \in InTx \ {"row"}
    BY DEF RInv, InTx
  <1>2. CASE j.kind = "create"
    <2>1. i = n /\ row[i] = None /\ write[s][i] = PostedRow(j, j.first, NoTx)
      BY <1>1, <1>2 DEF Sound, TrueWrites, NoWrites
    <2>2. QED
      BY <1>1, <1>2, <2>1 DEF Sound, OwnAccounts, PostedRow
  <1>3. CASE j.kind = "transfer"
    <2>1. /\ row[i] = None
          /\ \/ write[s][i] = PostedRow(j, j.first, j.second.id)
             \/ write[s][i] = PostedRow(j, j.second, j.first.id)
      BY <1>1, <1>3 DEF Sound, TrueWrites, NoWrites
    <2>2. QED
      BY <1>1, <1>3, <2>1 DEF Sound, OwnAccounts, PostedRow
  <1>4. CASE j.kind = "update"
    <2>1. n \in TxIds /\ row[n] \in Row /\ row[n] # None /\ row[n].ref = NoTx
      BY <1>1, <1>4, JobParts DEF IInv, TypeInv, JobTyped
    <2>2. /\ i = n /\ row[i].live
          /\ write[s][i] = [row[i] EXCEPT !.amt = IF j.amt > 0 THEN j.amt
                                                               ELSE @]
      BY <1>1, <1>4, <2>1 DEF Sound, TrueWrites, NoWrites
    <2>3. QED
      BY <2>1, <2>2 DEF Row
  <1>5. CASE j.kind = "delete"
    <2>1. /\ row[i] # None /\ row[i].live
          /\ write[s][i] = [row[i] EXCEPT !.live = FALSE]
      BY <1>1, <1>5 DEF IInv, SlotInv, DeletionWrites
    <2>2. row[i] \in Row
      BY <1>1, <2>1 DEF IInv, TypeInv, TypeOK
    <2>3. QED
      BY <2>1, <2>2 DEF Row
  <1>6. CASE j.kind = "close"
    BY <1>1, <1>6 DEF Sound, TrueWrites
  <1>7. j.kind \in AllKinds
    BY <1>1, JobParts DEF Job
  <1>8. QED
    BY <1>2, <1>3, <1>4, <1>5, <1>6, <1>7 DEF AllKinds

LEMMA CommitSound ==
  ASSUME RInv, IInv', NEW s \in Slots, Commit(s)
  PROVE  RInv'
  <1>1. /\ pc[s] = "commit" /\ Finish(s)
        /\ \A i \in TxIds :
             row'[i] = IF write[s][i] # None THEN write[s][i] ELSE row[i]
    BY DEF Commit, WithWrites
  <1>2. \A a \in Accounts : acct'[a].status = acct[a].status
    BY DEF Commit, RInv, IInv, TypeInv, TypeOK, Account
  <1>3. \A o \in Slots \ {s} : Kept(o)
    <2> SUFFICES ASSUME NEW o \in Slots \ {s} PROVE Kept(o)
      OBVIOUS
    <2>1. \A i \in TxIds : write[o][i] # None => row'[i] = row[i]
      BY <1>1 DEF RInv, IInv, Exclusive
    <2>2. \A i \in TxIds : row[i] # None =>
            /\ row'[i] # None
            /\ row'[i].acc = row[i].acc
            /\ row'[i].type = row[i].type
            /\ row'[i].ref = row[i].ref
            /\ row[i].ref # NoTx => row'[i].amt = row[i].amt
      BY <1>1, WrittenRow
    <2>3. QED
      BY <1>2, <2>1, <2>2 DEF Kept, Known, IsOpen
  <1>4. PostedByOwner'
    <2> SUFFICES ASSUME NEW i \in TxIds, row'[i] # None
                 PROVE  /\ row'[i].user = Owner[row'[i].acc]
                        /\ acct'[row'[i].acc].status # "none"
      BY DEF PostedByOwner
    <2>1. row'[i].acc \in Accounts
      BY DEF IInv, TypeInv, TypeOK, Row
    <2>2. row'[i].user = Owner[row'[i].acc] /\ Known(row'[i].acc)
      <3>1. CASE write[s][i] = None
        BY <1>1, <3>1 DEF RInv, PostedByOwner, Known
      <3>2. CASE write[s][i] # None /\ row[i] = None
        BY <1>1, <3>2, WrittenRow
      <3>3. CASE write[s][i] # None /\ row[i] # None
        BY <1>1, <3>3, WrittenRow DEF RInv, PostedByOwner, Known
      <3>4. QED
        BY <3>1, <3>2, <3>3
    <2>3. QED
      BY <1>2, <2>1, <2>2 DEF Known
  <1>5. QED
    BY <1>1, <1>3, <1>4, FinishSound

LEMMA NextSound ==
  ASSUME RInv, [Next]_vars
  PROVE  RInv'
  <1>1. IInv'
    BY NextInv DEF RInv
  <1>2. ASSUME NEW a \in Accounts, OpenAccount(a) PROVE RInv'
    BY <1>1, <1>2, OpenAccountSound
  <1>3. ASSUME NEW s \in Slots, Request(s) PROVE RInv'
    BY <1>1, <1>3, RequestSound
  <1>4. ASSUME NEW s \in Slots, Proceed(s) PROVE RInv'
    <2>1. CASE RefuseDest(s) \/ RefuseClose(s) \/ RowGone(s) \/ AccountGone(s)
      BY <1>1, <2>1, EndsSound
         DEF RefuseDest, RefuseClose, RowGone, AccountGone
    <2>2. QED
      BY <1>1, <1>4, <2>1, GoOnSound, InsertRowSound, InsertPairSound,
         UpdateRowSound, DeleteRowSound, BalanceFirstSound, FindLinkedSound,
         DeleteMateSound, BalanceSecondSound, CommitSound, CloseAccountSound
         DEF Proceed
  <1>5. ASSUME NEW s \in Slots, Abort(s) PROVE RInv'
    BY <1>1, <1>5, EndsSound DEF Abort
  <1>6. CASE UNCHANGED vars
    <2>1. \A o \in Slots : Sound(o)'
      BY <1>6, OthersSound, SameTablesKept DEF vars, tables
    <2>2. PostedByOwner'
      BY <1>6, SameTablesOwned DEF RInv, vars, tables
    <2>3. QED
      BY <1>1, <2>1, <2>2 DEF RInv
  <1>7. QED
    BY <1>2, <1>3, <1>4, <1>5, <1>6 DEF Next

LEMMA SoundAlways == Spec => []RInv
  BY InitSound, NextSound, PTL DEF Spec

(* Every row is of the owner of its account, whoever posts, edits and      *)
(* deletes at the same time.                                               *)
THEOREM OwnersPost == Spec => []PostedByOwner
  <1>1. RInv => PostedByOwner
    BY DEF RInv
  <1>2. QED
    BY <1>1, SoundAlways, PTL

-----------------------------------------------------------------------------
(* What a commit does.                                                     *)

(* Only these steps change a table.                                        *)
LEMMA TableSteps ==
  ASSUME [Next]_vars
  PROVE  \/ UNCHANGED <<acct, row>>
         \/ \E a \in Accounts : OpenAccount(a)
         \/ \E s \in Slots : CloseAccount(s) \/ Commit(s)
  <1>1. ASSUME NEW s \in Slots, Request(s) PROVE UNCHANGED <<acct, row>>
    BY <1>1 DEF Request, CreateRequest, TransferRequest, UpdateRequest,
                DeleteRequest, CloseRequest, Arrive, tables
  <1>2. ASSUME NEW s \in Slots, Proceed(s), ~CloseAccount(s), ~Commit(s)
        PROVE  UNCHANGED <<acct, row>>
    BY <1>2 DEF Proceed, CheckDest, RefuseDest, CountNone, RefuseClose, Begin,
                InsertRow, InsertPair, UpdateRow, DeleteRow, RowGone,
                BalanceFirst, FindLinked, DeleteMate, BalanceSecond,
                AccountGone, tables
  <1>3. ASSUME NEW s \in Slots, Abort(s) PROVE UNCHANGED <<acct, row>>
    BY <1>3 DEF Abort, tables
  <1>4. CASE UNCHANGED vars
    BY <1>4 DEF vars
  <1>5. QED
    BY <1>1, <1>2, <1>3, <1>4 DEF Next

(* d is added to the balance of an account if it is open.                  *)
LEMMA CommitMoves ==
  ASSUME RInv, NEW s \in Slots, Commit(s), NEW a \in Accounts, NEW d \in Int,
         delta[s][a] = IF IsOpen(a) THEN d ELSE 0
  PROVE  acct'[a] = Atomic!Moved(a, d)
  <1>1. acct[a] \in Account
    BY DEF RInv, IInv, TypeInv, TypeOK
  <1>2. acct'[a] = [acct[a] EXCEPT !.balance = @ + delta[s][a]]
    BY DEF Commit
  <1>3. ~IsOpen(a) => acct'[a] = acct[a]
    <2>1. acct[a].balance + 0 = acct[a].balance
      BY <1>1 DEF Account
    <2>2. ~IsOpen(a) =>
            acct'[a] = [acct[a] EXCEPT !.balance = acct[a].balance]
      BY <1>2, <2>1
    <2>3. [acct[a] EXCEPT !.balance = acct[a].balance] = acct[a]
      BY <1>1 DEF Account
    <2>4. QED
      BY <2>2, <2>3
  <1>4. QED
    BY <1>2, <1>3 DEF Atomic!Moved, Atomic!IsOpen, IsOpen

LEMMA CommitLeaves ==
  ASSUME RInv, NEW s \in Slots, Commit(s), NEW a \in Accounts,
         delta[s][a] = 0
  PROVE  acct'[a] = acct[a]
  <1>1. acct[a] \in Account
    BY DEF RInv, IInv, TypeInv, TypeOK
  <1>2. acct'[a] = [acct[a] EXCEPT !.balance = acct[a].balance + 0]
    BY DEF Commit
  <1>3. acct[a].balance + 0 = acct[a].balance
    BY <1>1 DEF Account
  <1>4. [acct[a] EXCEPT !.balance = acct[a].balance] = acct[a]
    BY <1>1 DEF Account
  <1>5. QED
    BY <1>2, <1>3, <1>4

(* What is deleted stays as it is, whatever was under way when it was      *)
(* deleted.                                                                *)
THEOREM DeletedStay == Spec => DeletedStays
  <1> DEFINE Stays == /\ \A i \in TxIds :
                           row[i] # None /\ ~row[i].live => row'[i] = row[i]
                      /\ \A a \in Accounts :
                           acct[a].status = "deleted" => acct'[a] = acct[a]
  <1>1. ASSUME RInv, [Next]_vars PROVE Stays
    <2>1. CASE UNCHANGED <<acct, row>>
      BY <2>1
    <2>2. ASSUME NEW a \in Accounts, OpenAccount(a) PROVE Stays
      BY <1>1, <2>2 DEF OpenAccount, RInv, IInv, TypeInv, TypeOK
    <2>3. ASSUME NEW s \in Slots, CloseAccount(s) PROVE Stays
      BY <1>1, <2>3
         DEF CloseAccount, IsOpen, RInv, IInv, TypeInv, TypeOK
    <2>4. ASSUME NEW s \in Slots, Commit(s) PROVE Stays
      <3>1. ASSUME NEW i \in TxIds, row[i] # None, ~row[i].live
            PROVE  row'[i] = row[i]
        <4>1. write[s][i] = None
          BY <1>1, <2>4, <3>1, WrittenRow DEF Commit
        <4>2. QED
          BY <2>4, <4>1 DEF Commit, WithWrites
      <3>2. ASSUME NEW a \in Accounts, acct[a].status = "deleted"
            PROVE  acct'[a] = acct[a]
        <4>1. delta[s][a] = 0
          BY <1>1, <3>2 DEF RInv, Sound, TrueDeltas, Applied, IsOpen
        <4>2. QED
          BY <1>1, <2>4, <4>1, CommitLeaves
      <3>3. QED
        BY <3>1, <3>2
    <2>5. QED
      BY <1>1, <2>1, <2>2, <2>3, <2>4, TableSteps
  <1>2. QED
    BY <1>1, SoundAlways, PTL DEF Spec, DeletedStays

(* AtomicLedger speaks of the same data.                                   *)
LEMMA SameData ==
  /\ Atomic!TxIds = TxIds
  /\ Atomic!Types = Types
  /\ Atomic!NoTx = NoTx
  /\ \A t, m : Atomic!Impact(t, m) = Impact(t, m)
  /\ \A i : Atomic!Live(i) = Live(i)
  /\ \A a : Atomic!IsOpen(a) = IsOpen(a)
  BY DEF Atomic!TxIds, Atomic!Types, Atomic!NoTx, Atomic!Impact, Atomic!Live,
         Atomic!IsOpen, TxIds, Types, NoTx, Impact, Live, IsOpen

LEMMA ImpactOfNothing ==
  ASSUME NEW t \in Types, NEW m \in Int, m <= 0, m >= 0
  PROVE  Impact(t, m) = 0
  BY DEF Impact

LEMMA LegDeltaNew ==
  ASSUME NEW leg \in Leg, leg.old = 0
  PROVE  /\ LegDelta(leg) = Impact(leg.type, leg.new)
         /\ LegDelta(leg) \in Int
         /\ leg.type = "expense" => LegDelta(leg) = -leg.new
         /\ leg.type = "income" => LegDelta(leg) = leg.new
  <1>1. Impact(leg.type, leg.new) \in Int
    BY ImpactTyped DEF Leg
  <1>2. Impact(leg.type, leg.old) = 0
    <2>1. leg.old \in Int /\ leg.old <= 0 /\ leg.old >= 0
      OBVIOUS
    <2>2. QED
      BY <2>1, ImpactOfNothing DEF Leg
  <1>3. LegDelta(leg) = Impact(leg.type, leg.new)
    BY <1>1, <1>2 DEF LegDelta
  <1>4. QED
    BY <1>1, <1>3 DEF Impact

LEMMA LegDeltaGone ==
  ASSUME NEW leg \in Leg, leg.new = 0
  PROVE  /\ LegDelta(leg) = -Impact(leg.type, leg.old)
         /\ LegDelta(leg) \in Int
  <1>1. Impact(leg.type, leg.old) \in Int
    BY ImpactTyped DEF Leg
  <1>2. Impact(leg.type, leg.new) = 0
    <2>1. leg.new \in Int /\ leg.new <= 0 /\ leg.new >= 0
      OBVIOUS
    <2>2. QED
      BY <2>1, ImpactOfNothing DEF Leg
  <1>3. QED
    BY <1>1, <1>2 DEF LegDelta

(* A request with one leg moves one account.                               *)
LEMMA OneAccountMoves ==
  ASSUME RInv, NEW s \in Slots, Commit(s), ~SecondDone(s),
         NEW d \in Int, LegDelta(job[s].first) = d
  PROVE  acct' = [acct EXCEPT ![job[s].first.acc] =
                    Atomic!Moved(job[s].first.acc, d)]
  <1> DEFINE a == job[s].first.acc
  <1>1. FirstDone(s) /\ pc[s] = "commit" /\ a \in Accounts
    BY JobParts DEF Commit, FirstDone, RInv
  <1>2. \A b \in Accounts :
          delta[s][b] = IF b = a THEN Applied(job[s].first) ELSE 0
    BY <1>1 DEF RInv, Sound, TrueDeltas
  <1>3. delta[s][a] = IF IsOpen(a) THEN d ELSE 0
    BY <1>1, <1>2 DEF Applied
  <1>4. acct'[a] = Atomic!Moved(a, d)
    BY <1>1, <1>3, CommitMoves
  <1>5. \A b \in Accounts \ {a} : acct'[b] = acct[b]
    BY <1>2, CommitLeaves
  <1>6. acct \in [Accounts -> Account] /\ acct' \in [Accounts -> Account]
    BY CommitTyped DEF RInv, IInv, TypeInv, TypeOK
  <1>7. QED
    BY <1>1, <1>4, <1>5, <1>6

(* A request with two legs moves two.                                      *)
LEMMA TwoAccountsMove ==
  ASSUME RInv, NEW s \in Slots, Commit(s), SecondDone(s),
         NEW d \in Int, LegDelta(job[s].first) = d,
         NEW e \in Int, LegDelta(job[s].second) = e
  PROVE  acct' = [acct EXCEPT
                    ![job[s].first.acc] = Atomic!Moved(job[s].first.acc, d),
                    ![job[s].second.acc] = Atomic!Moved(job[s].second.acc, e)]
  <1> DEFINE a == job[s].first.acc
             c == job[s].second.acc
  <1>1. /\ FirstDone(s) /\ pc[s] = "commit" /\ a \in Accounts
        /\ c \in Accounts /\ c # a
    BY JobParts, SecondParts DEF Commit, FirstDone, RInv
  <1>2. \A b \in Accounts :
          delta[s][b] = IF b = a THEN Applied(job[s].first)
                        ELSE IF b = c THEN Applied(job[s].second) ELSE 0
    BY <1>1 DEF RInv, Sound, TrueDeltas
  <1>3. /\ delta[s][a] = IF IsOpen(a) THEN d ELSE 0
        /\ delta[s][c] = IF IsOpen(c) THEN e ELSE 0
    BY <1>1, <1>2 DEF Applied
  <1>4. acct'[a] = Atomic!Moved(a, d)
    BY <1>1, <1>3, CommitMoves
  <1>5. acct'[c] = Atomic!Moved(c, e)
    BY <1>1, <1>3, CommitMoves
  <1>6. \A b \in Accounts \ {a, c} : acct'[b] = acct[b]
    BY <1>2, CommitLeaves
  <1>7. acct \in [Accounts -> Account] /\ acct' \in [Accounts -> Account]
    BY CommitTyped DEF RInv, IInv, TypeInv, TypeOK
  <1>8. QED
    BY <1>1, <1>4, <1>5, <1>6, <1>7

-----------------------------------------------------------------------------
(* What each commit does to the tables, by the kind of its request.        *)

Posted(i, a, t, m) ==
    /\ i \in TxIds /\ a \in Accounts /\ t \in Types /\ m \in Amounts
    /\ row[i] = None
    /\ Known(a)
    /\ row' = [row EXCEPT ![i] = Atomic!Posting(a, t, m, NoTx)]
    /\ acct' = [acct EXCEPT ![a] = Atomic!Moved(a, Impact(t, m))]

Transferred(i, k, a, b, m) ==
    /\ i \in TxIds /\ k \in TxIds /\ a \in Accounts /\ b \in Accounts
    /\ m \in Amounts
    /\ i # k /\ a # b
    /\ row[i] = None /\ row[k] = None
    /\ Known(a) /\ Known(b) /\ Owner[b] = Owner[a]
    /\ row' = [row EXCEPT ![i] = Atomic!Posting(a, "expense", m, k),
                          ![k] = Atomic!Posting(b, "income", m, i)]
    /\ acct' = [acct EXCEPT ![a] = Atomic!Moved(a, -m),
                            ![b] = Atomic!Moved(b, m)]

Edited(i, m, old) ==
    /\ i \in TxIds /\ m \in Amounts /\ old \in Amounts
    /\ Live(i)
    /\ row[i].ref = NoTx
    /\ row' = [row EXCEPT ![i].amt = m]
    /\ acct' = [acct EXCEPT ![row[i].acc] =
                  Atomic!Moved(row[i].acc, Impact(row[i].type, m)
                                             - Impact(row[i].type, old))]

Removed(i, old) ==
    /\ i \in TxIds /\ old \in Amounts
    /\ Live(i)
    /\ row[i].ref = NoTx
    /\ row' = [row EXCEPT ![i].live = FALSE]
    /\ acct' = [acct EXCEPT ![row[i].acc] =
                  Atomic!Moved(row[i].acc, -Impact(row[i].type, old))]

LEMMA CommitRows ==
  ASSUME RInv, NEW s \in Slots, Commit(s)
  PROVE  /\ pc[s] = "commit" /\ Sound(s) /\ IInv
         /\ row \in [TxIds -> Row \union {None}]
         /\ row' = [i \in TxIds |-> IF write[s][i] # None THEN write[s][i]
                                                          ELSE row[i]]
         /\ None \notin Row
  BY LedgerDataAssumption
     DEF Commit, WithWrites, RInv, IInv, TypeInv, TypeOK

LEMMA CreatePosts ==
  ASSUME RInv, NEW s \in Slots, Commit(s), job[s].kind = "create"
  PROVE  LET leg == job[s].first
         IN  Posted(leg.id, leg.acc, leg.type, leg.new)
  <1> DEFINE j == job[s]
             i == j.first.id
             a == j.first.acc
             t == j.first.type
             m == j.first.new
  <1>1. /\ pc[s] = "commit" /\ j.first \in Leg /\ a \in Accounts /\ t \in Types
        /\ j.first.new \in Amounts /\ j.ref = NoTx
    BY CommitRows, JobParts DEF IInv, TypeInv, JobTyped, Leg
  <1>2. /\ i \in TxIds /\ row[i] = None /\ j.first.old = 0
        /\ write[s] = [NoWrites EXCEPT ![i] = PostedRow(j, j.first, NoTx)]
        /\ Owner[a] = j.user /\ Known(a)
    BY <1>1, CommitRows
       DEF Sound, TrueLegs, TrueWrites, OwnAccounts, InTx
  <1>3. PostedRow(j, j.first, NoTx) = Atomic!Posting(a, t, m, NoTx)
    BY <1>2 DEF PostedRow, Atomic!Posting
  <1>4. PostedRow(j, j.first, NoTx) # None
    BY <1>1, CommitRows, PostedIsRow
  <1>5. row' = [row EXCEPT ![i] = Atomic!Posting(a, t, m, NoTx)]
    BY <1>2, <1>3, <1>4, CommitRows DEF NoWrites
  <1>6. acct' = [acct EXCEPT ![a] = Atomic!Moved(a, Impact(t, m))]
    <2>1. LegDelta(j.first) = Impact(t, m) /\ Impact(t, m) \in Int
      BY <1>1, <1>2, LegDeltaNew
    <2>2. ~SecondDone(s)
      BY <1>1 DEF SecondDone
    <2>3. QED
      BY <2>1, <2>2, OneAccountMoves
  <1>7. QED
    BY <1>1, <1>2, <1>5, <1>6 DEF Posted

LEMMA TransferTransfers ==
  ASSUME RInv, NEW s \in Slots, Commit(s), job[s].kind = "transfer"
  PROVE  LET leg == job[s].first
             mate == job[s].second
         IN  Transferred(leg.id, mate.id, leg.acc, mate.acc, leg.new)
  <1> DEFINE j == job[s]
             i == j.first.id
             k == j.second.id
             a == j.first.acc
             b == j.second.acc
             m == j.first.new
  <1>1. /\ pc[s] = "commit" /\ j.first \in Leg /\ j.second \in Leg
        /\ a \in Accounts /\ b \in Accounts /\ b # a
        /\ m \in Amounts /\ j.second.new = m
        /\ j.first.type = "expense" /\ j.second.type = "income"
    BY CommitRows, JobParts DEF IInv, TypeInv, JobTyped, Leg
  <1>2. /\ i \in TxIds /\ k \in TxIds /\ i # k
        /\ row[i] = None /\ row[k] = None
        /\ j.first.old = 0 /\ j.second.old = 0
        /\ write[s] = [NoWrites EXCEPT ![i] = PostedRow(j, j.first, k),
                                       ![k] = PostedRow(j, j.second, i)]
        /\ Owner[a] = j.user /\ Known(a) /\ Owner[b] = j.user /\ Known(b)
    BY <1>1, CommitRows
       DEF Sound, TrueLegs, TrueWrites, OwnAccounts, InTx
  <1>3. /\ PostedRow(j, j.first, k) = Atomic!Posting(a, "expense", m, k)
        /\ PostedRow(j, j.second, i) = Atomic!Posting(b, "income", m, i)
    BY <1>1, <1>2 DEF PostedRow, Atomic!Posting
  <1>4. PostedRow(j, j.first, k) # None /\ PostedRow(j, j.second, i) # None
    BY <1>1, <1>2, CommitRows, PostedIsRow
  <1>5. row' = [row EXCEPT ![i] = Atomic!Posting(a, "expense", m, k),
                           ![k] = Atomic!Posting(b, "income", m, i)]
    BY <1>2, <1>3, <1>4, CommitRows DEF NoWrites
  <1>6. acct' = [acct EXCEPT ![a] = Atomic!Moved(a, -m),
                             ![b] = Atomic!Moved(b, m)]
    <2>1. /\ LegDelta(j.first) = -m /\ LegDelta(j.second) = m
          /\ -m \in Int /\ m \in Int
      BY <1>1, <1>2, LegDeltaNew, LedgerDataAssumption
    <2>2. SecondDone(s)
      BY <1>1 DEF SecondDone
    <2>3. QED
      BY <2>1, <2>2, TwoAccountsMove
  <1>7. QED
    BY <1>1, <1>2, <1>5, <1>6 DEF Transferred

LEMMA AmountsAreNatural ==
  ASSUME NEW m \in Amounts \union {0}
  PROVE  m \in Nat
  BY LedgerDataAssumption

(* An update that sends no amount changes neither table.                   *)
LEMMA UpdateEdits ==
  ASSUME RInv, NEW s \in Slots, Commit(s), job[s].kind = "update"
  PROVE  LET leg == job[s].first
         IN  Edited(leg.id, leg.new, leg.old) \/ UNCHANGED <<acct, row>>
  <1> DEFINE j == job[s]
             i == j.first.id
             a == j.first.acc
             t == j.first.type
             old == j.first.old
             m == j.first.new
  <1>1. /\ pc[s] = "commit" /\ j \in Job /\ j.first \in Leg /\ a \in Accounts
        /\ j.ref = NoTx
        /\ i \in TxIds /\ row[i] \in Row /\ row[i] # None /\ row[i].ref = NoTx
    BY CommitRows, JobParts DEF IInv, TypeInv, JobTyped
  <1>2. /\ a = row[i].acc /\ t = row[i].type /\ old \in Amounts
        /\ m = IF j.amt > 0 THEN j.amt ELSE old
        /\ row[i].live
        /\ write[s] = [NoWrites EXCEPT ![i] =
                         [row[i] EXCEPT !.amt = IF j.amt > 0 THEN j.amt
                                                             ELSE @]]
    BY <1>1, CommitRows DEF Sound, TrueLegs, TrueWrites, InTx
  <1>3. j.amt \in Amounts \union {0} /\ j.amt \in Nat /\ t \in Types
    <2>1. j.amt \in Amounts \union {0}
      BY <1>1 DEF Job
    <2>2. t \in Types
      BY <1>1 DEF Leg
    <2>3. QED
      BY <2>1, <2>2, AmountsAreNatural
  <1>4. LegDelta(j.first) = Impact(t, m) - Impact(t, old)
    BY DEF LegDelta
  <1>5. /\ Impact(t, m) \in Int /\ Impact(t, old) \in Int
        /\ Impact(t, m) - Impact(t, old) \in Int
    BY <1>2, <1>3, ImpactTyped
  <1>6. ~SecondDone(s)
    BY <1>1 DEF SecondDone
  <1>7. acct' = [acct EXCEPT ![a] =
                   Atomic!Moved(a, Impact(t, m) - Impact(t, old))]
    BY <1>4, <1>5, <1>6, OneAccountMoves
  <1>8. CASE j.amt > 0
    <2>1. m = j.amt /\ m \in Amounts
      BY <1>2, <1>3, <1>8
    <2>2. [row[i] EXCEPT !.amt = m] \in Row
      BY <1>1, <2>1 DEF Row
    <2>3. write[s] = [NoWrites EXCEPT ![i] = [row[i] EXCEPT !.amt = m]]
      BY <1>2, <1>8, <2>1
    <2>4. row' = [row EXCEPT ![i] = [row[i] EXCEPT !.amt = m]]
      BY <1>1, <2>2, <2>3, CommitRows DEF NoWrites
    <2>5. row' = [row EXCEPT ![i].amt = m]
      BY <2>4
    <2>6. Live(i)
      BY <1>1, <1>2 DEF Live
    <2>7. QED
      BY <1>1, <1>2, <1>7, <2>1, <2>5, <2>6 DEF Edited
  <1>9. CASE ~(j.amt > 0)
    <2>1. m = old
      BY <1>2, <1>9
    <2>2. write[s] = [NoWrites EXCEPT ![i] =
                        [row[i] EXCEPT !.amt = row[i].amt]]
      BY <1>2, <1>9
    <2>3. [row[i] EXCEPT !.amt = row[i].amt] = row[i]
      BY <1>1 DEF Row
    <2>4. row' = row
      BY <1>1, <2>2, <2>3, CommitRows DEF NoWrites
    <2>5. LegDelta(j.first) = 0
      BY <1>4, <1>5, <2>1
    <2>6. \A b \in Accounts : delta[s][b] = 0
      BY <1>1, <1>6, <2>5, CommitRows DEF Sound, TrueDeltas, Applied
    <2>7. \A b \in Accounts : acct'[b] = acct[b]
      BY <2>6, CommitLeaves
    <2>8. acct \in [Accounts -> Account] /\ acct' \in [Accounts -> Account]
      BY CommitTyped DEF RInv, IInv, TypeInv, TypeOK
    <2>9. QED
      BY <2>4, <2>7, <2>8
  <1>10. QED
    BY <1>8, <1>9

LEMMA DeleteRemoves ==
  ASSUME RInv, NEW s \in Slots, Commit(s), job[s].kind = "delete"
  PROVE  LET leg == job[s].first
         IN  Removed(leg.id, leg.old) \/ Atomic!RemovePair(leg.id)
  <1> DEFINE j == job[s]
             i == j.first.id
             k == j.ref
             a == j.first.acc
             t == j.first.type
             old == j.first.old
  <1>1. /\ pc[s] = "commit" /\ j \in Job /\ j.first \in Leg /\ a \in Accounts
        /\ i \in TxIds /\ row[i] \in Row /\ row[i] # None /\ row[i].ref = k
    BY CommitRows, JobParts
  <1>2. /\ a = row[i].acc /\ t = row[i].type /\ old \in Amounts
        /\ j.first.new = 0
    BY <1>1, CommitRows DEF Sound, TrueLegs
  <1>3. /\ LegDelta(j.first) = -Impact(t, old)
        /\ -Impact(t, old) \in Int
    BY <1>1, <1>2, LegDeltaGone
  <1>4. /\ write[s][i] # None
        /\ \A n \in TxIds : write[s][n] # None =>
             /\ n \in {i, k}
             /\ row[n] # None
             /\ row[n].live
             /\ write[s][n] = [row[n] EXCEPT !.live = FALSE]
        /\ k # NoTx => write[s][k] # None
    BY <1>1, CommitRows DEF IInv, SlotInv, DeletionWrites, InTx
  <1>5. Live(i)
    BY <1>1, <1>4 DEF Live
  <1>6. CASE k = NoTx
    <2>1. k \notin TxIds
      BY <1>6 DEF TxIds, NoTx
    <2>2. row' = [row EXCEPT ![i] = [row[i] EXCEPT !.live = FALSE]]
      <3> DEFINE dead == [row[i] EXCEPT !.live = FALSE]
      <3>1. write[s][i] = dead /\ dead # None
        BY <1>1, <1>4
      <3>2. \A n \in TxIds \ {i} : write[s][n] = None
        BY <1>4, <2>1
      <3> HIDE DEF dead
      <3>3. row' = [row EXCEPT ![i] = dead]
        BY <1>1, <3>1, <3>2, CommitRows
      <3>4. QED
        BY <3>3 DEF dead
    <2>3. row' = [row EXCEPT ![i].live = FALSE]
      BY <2>2
    <2>4. ~SecondDone(s)
      BY <1>6 DEF SecondDone
    <2>5. acct' = [acct EXCEPT ![a] = Atomic!Moved(a, -Impact(t, old))]
      BY <1>3, <2>4, OneAccountMoves
    <2>6. QED
      BY <1>1, <1>2, <1>5, <1>6, <2>3, <2>5 DEF Removed
  <1>7. CASE k # NoTx
    <2> DEFINE b == row[k].acc
    <2>1. /\ k \in TxIds /\ row[k] \in Row /\ row[k] # None
          /\ LegsMatch(row, i, k)
      BY <1>1, <1>7, CommitRows, MateParts
    <2>2. b # a /\ Live(k) /\ i # k
      BY <1>2, <1>4, <1>7, <2>1 DEF LegsMatch, Live
    <2>3. j.second = ReadLeg(k, 0) /\ old = row[i].amt
      BY <1>1, <1>7, CommitRows DEF Sound, TrueLegs
    <2>4. /\ j.second \in Leg /\ j.second.acc = b /\ j.second.new = 0
          /\ j.second.type = row[k].type /\ j.second.old = row[k].amt
      BY <2>1, <2>3 DEF ReadLeg, Leg, Row
    <2>5. /\ LegDelta(j.second) = -Impact(row[k].type, row[k].amt)
          /\ -Impact(row[k].type, row[k].amt) \in Int
      BY <2>4, LegDeltaGone
    <2>6. SecondDone(s)
      BY <1>1, <1>7 DEF SecondDone
    <2>7. acct' = [acct EXCEPT
                     ![a] = Atomic!Moved(a, -Impact(t, old)),
                     ![j.second.acc] =
                        Atomic!Moved(j.second.acc,
                                     -Impact(row[k].type, row[k].amt))]
      BY <1>3, <2>5, <2>6, TwoAccountsMove
    <2>8. row' = [row EXCEPT ![i] = [row[i] EXCEPT !.live = FALSE],
                             ![k] = [row[k] EXCEPT !.live = FALSE]]
      <3> DEFINE dead == [row[i] EXCEPT !.live = FALSE]
                 mate == [row[k] EXCEPT !.live = FALSE]
      <3>1. /\ write[s][i] = dead /\ dead # None
            /\ write[s][k] = mate /\ mate # None
        BY <1>1, <1>4, <1>7, <2>1
      <3>2. \A n \in TxIds \ {i, k} : write[s][n] = None
        BY <1>4
      <3> HIDE DEF dead, mate
      <3>3. row' = [row EXCEPT ![i] = dead, ![k] = mate]
        BY <1>1, <2>1, <2>2, <3>1, <3>2, CommitRows
      <3>4. QED
        BY <3>3 DEF dead, mate
    <2>9. row' = [row EXCEPT ![i].live = FALSE, ![k].live = FALSE]
      BY <2>2, <2>8
    <2>10. QED
      BY <1>1, <1>2, <1>5, <1>7, <2>2, <2>3, <2>4, <2>7, <2>9, SameData
         DEF Atomic!RemovePair
  <1>8. QED
    BY <1>6, <1>7

-----------------------------------------------------------------------------
(* Each of them is a step of AtomicLedger.                                 *)

LEMMA KnownIsPostable ==
  ASSUME RInv, NEW a \in Accounts, Known(a)
  PROVE  Atomic!Postable(Owner[a], a)
  <1>1. acct[a].status \in {"open", "deleted"}
    BY DEF RInv, IInv, TypeInv, TypeOK, Account, Known
  <1>2. QED
    BY <1>1 DEF Atomic!Postable, Atomic!IsOpen

LEMMA EffectsAtomic ==
  ASSUME RInv, NEW i, NEW k, NEW a, NEW b, NEW t, NEW m, NEW old,
         \/ Posted(i, a, t, m) \/ Transferred(i, k, a, b, m)
         \/ Edited(i, m, old) \/ Removed(i, old)
  PROVE  Atomic!Next
  <1> USE SameData
  <1>1. CASE Posted(i, a, t, m)
    <2>1. Atomic!Postable(Owner[a], a)
      BY <1>1, KnownIsPostable DEF Posted
    <2>2. Atomic!Post(i)
      BY <1>1, <2>1 DEF Posted, Atomic!Post
    <2>3. QED
      BY <1>1, <2>2 DEF Posted, Atomic!Next
  <1>2. CASE Transferred(i, k, a, b, m)
    <2>1. Atomic!Postable(Owner[a], a) /\ Atomic!Postable(Owner[a], b)
      BY <1>2, KnownIsPostable DEF Transferred
    <2>2. Atomic!Transfer(i, k)
      BY <1>2, <2>1 DEF Transferred, Atomic!Transfer
    <2>3. QED
      BY <1>2, <2>2 DEF Transferred, Atomic!Next
  <1>3. CASE Edited(i, m, old)
    <2>1. old \in Atomic!BelievedAmount(i)
      BY <1>3 DEF Edited, Atomic!BelievedAmount
    <2>2. Atomic!Edit(i)
      BY <1>3, <2>1 DEF Edited, Atomic!Edit
    <2>3. QED
      BY <1>3, <2>2 DEF Edited, Atomic!Next
  <1>4. CASE Removed(i, old)
    <2>1. old \in Atomic!BelievedAmount(i)
      BY <1>4 DEF Removed, Atomic!BelievedAmount
    <2>2. Atomic!Remove(i)
      BY <1>4, <2>1 DEF Removed, Atomic!Remove
    <2>3. QED
      BY <1>4, <2>2 DEF Removed, Atomic!Next
  <1>5. QED
    BY <1>1, <1>2, <1>3, <1>4

LEMMA StepAtomic ==
  ASSUME RInv, [Next]_vars
  PROVE  [Atomic!Next]_Atomic!vars
  <1>1. CASE UNCHANGED <<acct, row>>
    BY <1>1 DEF Atomic!vars
  <1>2. ASSUME NEW a \in Accounts, OpenAccount(a) PROVE Atomic!Next
    <2>1. Atomic!Open(a)
      BY <1>2
         DEF OpenAccount, NewAccount, Atomic!Open, Atomic!NewAccount
    <2>2. QED
      BY <2>1 DEF Atomic!Next
  <1>3. ASSUME NEW s \in Slots, CloseAccount(s) PROVE Atomic!Next
    <2>1. job[s].first.acc \in Accounts
      BY <1>3, JobParts DEF CloseAccount, RInv
    <2>2. Atomic!Close(job[s].first.acc)
      BY <1>3 DEF CloseAccount, IsOpen, Atomic!Close, Atomic!IsOpen
    <2>3. QED
      BY <2>1, <2>2 DEF Atomic!Next
  <1>4. ASSUME NEW s \in Slots, Commit(s)
        PROVE  Atomic!Next \/ UNCHANGED <<acct, row>>
    <2>1. /\ Sound(s) /\ pc[s] = "commit" /\ job[s].kind \in AllKinds
          /\ job[s].kind = "delete" => job[s].first.id \in TxIds
      BY <1>4, CommitRows, JobParts DEF Job
    <2>2. CASE job[s].kind = "create"
      BY <1>4, <2>2, CreatePosts, EffectsAtomic
    <2>3. CASE job[s].kind = "transfer"
      BY <1>4, <2>3, TransferTransfers, EffectsAtomic
    <2>4. CASE job[s].kind = "update"
      BY <1>4, <2>4, UpdateEdits, EffectsAtomic
    <2>5. CASE job[s].kind = "delete"
      BY <1>4, <2>1, <2>5, DeleteRemoves, EffectsAtomic, SameData
         DEF Atomic!Next
    <2>6. CASE job[s].kind = "close"
      BY <2>1, <2>6 DEF Sound, TrueWrites, InTx
    <2>7. QED
      BY <2>1, <2>2, <2>3, <2>4, <2>5, <2>6 DEF AllKinds
  <1>5. QED
    BY <1>1, <1>2, <1>3, <1>4, TableSteps DEF Atomic!vars

(* Whatever requests overlap and wherever they fail, the tables change     *)
(* one whole request at a time.                                            *)
THEOREM LedgerIsAtomic == Spec => CommitsAreAtomic
  <1>1. Init => Atomic!Init
    BY SameData
       DEF Init, NoWrites, NoAccount, Atomic!Init, Atomic!NoAccount
  <1>2. QED
    BY <1>1, SoundAlways, StepAtomic, PTL
       DEF Spec, CommitsAreAtomic, Atomic!Spec

-----------------------------------------------------------------------------
(* Where no request can act on what is out of date.                        *)

(* One request at a time; or no account is closed, and either no row is    *)
(* edited or every edit sends the same amount.                             *)
Harmless ==
    \/ \A s, o \in Slots : s = o
    \/ /\ "close" \notin Kinds
       /\ "update" \notin Kinds \/ \A m, n \in Amounts : m = n

(* What a request has read and checked still holds.                        *)
UpToDate(s) ==
    pc[s] # "idle" =>
      /\ job[s].kind \in Kinds
      /\ job[s].kind \in {"create", "transfer", "close"} =>
           IsOpen(job[s].first.acc)
      /\ job[s].kind = "transfer" /\ pc[s] # "dest" =>
           IsOpen(job[s].second.acc)
      /\ job[s].kind \in {"update", "delete"} =>
           job[s].first.old = row[job[s].first.id].amt
      /\ job[s].kind = "close" /\ pc[s] # "count" =>
           ~HasTransactions(job[s].first.acc)

HInv ==
    /\ RInv
    /\ "close" \notin Kinds => \A a \in Accounts : acct[a].status # "deleted"
    /\ \A s \in Slots : UpToDate(s)

LEMMA InitUpToDate == Init => HInv
  BY InitSound DEF Init, HInv, NoAccount, UpToDate

(* A request that arrives has just read what it knows.                     *)
LEMMA ArrivesUpToDate ==
  ASSUME HInv, NEW s \in Slots, Request(s)
  PROVE  UpToDate(s)'
  <1>0. /\ job \in [Slots -> Job \union {None}] /\ pc \in [Slots -> PCs]
        /\ UNCHANGED <<acct, row>>
    BY DEF HInv, RInv, IInv, TypeInv, TypeOK, Request, CreateRequest,
           TransferRequest, UpdateRequest, DeleteRequest, CloseRequest, Arrive,
           tables
  <1>1. CASE CreateRequest(s)
    <2>1. PICK a \in Accounts, t \in Types, m \in Amounts :
            /\ Visible(Owner[a], a)
            /\ Arrive(s, [kind |-> "create", user |-> Owner[a], amt |-> m,
                          ref |-> NoTx, first |-> NewLeg(a, t, m),
                          second |-> None], "begin")
      BY <1>1 DEF CreateRequest
    <2>2. /\ job'[s].kind = "create" /\ job'[s].first.acc = a
          /\ "create" \in Kinds
      BY <1>0, <2>1 DEF Arrive, NewLeg
    <2>3. QED
      BY <1>0, <2>1, <2>2 DEF UpToDate, Visible, IsOpen
  <1>2. CASE TransferRequest(s)
    <2>1. PICK a, b \in Accounts, m \in Amounts :
            /\ Visible(Owner[a], a)
            /\ Arrive(s, [kind |-> "transfer", user |-> Owner[a], amt |-> m,
                          ref |-> NoTx, first |-> NewLeg(a, "expense", m),
                          second |-> NewLeg(b, "income", m)], "dest")
      BY <1>2 DEF TransferRequest
    <2>2. /\ job'[s].kind = "transfer" /\ job'[s].first.acc = a
          /\ pc'[s] = "dest" /\ "transfer" \in Kinds
      BY <1>0, <2>1 DEF Arrive, Goto, NewLeg
    <2>3. QED
      BY <1>0, <2>1, <2>2 DEF UpToDate, Visible, IsOpen
  <1>3. CASE UpdateRequest(s)
    <2>1. PICK i \in TxIds, m \in Amounts \union {0} :
            Arrive(s, [kind |-> "update", user |-> row[i].user, amt |-> m,
                       ref |-> NoTx, second |-> None,
                       first |-> ReadLeg(i, IF m > 0 THEN m
                                                     ELSE row[i].amt)],
                   "begin")
      BY <1>3 DEF UpdateRequest
    <2>2. /\ job'[s].kind = "update" /\ job'[s].first.id = i
          /\ job'[s].first.old = row[i].amt /\ "update" \in Kinds
      BY <1>0, <2>1 DEF Arrive, ReadLeg
    <2>3. QED
      BY <1>0, <2>2 DEF UpToDate
  <1>4. CASE DeleteRequest(s)
    <2>1. PICK i \in TxIds :
            Arrive(s, [kind |-> "delete", user |-> row[i].user, amt |-> 0,
                       ref |-> row[i].ref, first |-> ReadLeg(i, 0),
                       second |-> None], "begin")
      BY <1>4 DEF DeleteRequest
    <2>2. /\ job'[s].kind = "delete" /\ job'[s].first.id = i
          /\ job'[s].first.old = row[i].amt /\ "delete" \in Kinds
      BY <1>0, <2>1 DEF Arrive, ReadLeg
    <2>3. QED
      BY <1>0, <2>2 DEF UpToDate
  <1>5. CASE CloseRequest(s)
    <2>1. PICK a \in Accounts :
            /\ Visible(Owner[a], a)
            /\ Arrive(s, [kind |-> "close", user |-> Owner[a], amt |-> 0,
                          ref |-> NoTx, first |-> NewLeg(a, "income", 0),
                          second |-> None], "count")
      BY <1>5 DEF CloseRequest
    <2>2. /\ job'[s].kind = "close" /\ job'[s].first.acc = a
          /\ pc'[s] = "count" /\ "close" \in Kinds
      BY <1>0, <2>1 DEF Arrive, Goto, NewLeg
    <2>3. QED
      BY <1>0, <2>1, <2>2 DEF UpToDate, Visible, IsOpen
  <1>6. QED
    BY <1>1, <1>2, <1>3, <1>4, <1>5 DEF Request

(* A request that has posted its rows knows their ids; no other step       *)
(* touches what it has read.                                               *)
LEMMA ProceedsUpToDate ==
  ASSUME HInv, NEW s \in Slots, Proceed(s), ~CloseAccount(s), ~Commit(s)
  PROVE  UpToDate(s)'
  <1>1. /\ TypeOK /\ UpToDate(s) /\ Placed(s)
        /\ pc[s] # "idle" => job[s] \in Job /\ job[s].first \in Leg
        /\ \A i \in TxIds, m \in Amounts \union {0} :
             row[i] # None => ReadLeg(i, m) \in Leg
    BY JobParts
       DEF HInv, RInv, IInv, TypeInv, TypeOK, ReadLeg, Leg, Row
  <1>2. CASE RefuseDest(s) \/ RefuseClose(s) \/ RowGone(s) \/ AccountGone(s)
    BY <1>1, <1>2
       DEF RefuseDest, RefuseClose, RowGone, AccountGone, Finish, Goto,
           UpToDate, TypeOK
  <1>3. CASE CheckDest(s)
    BY <1>1, <1>3
       DEF CheckDest, Goto, UpToDate, TypeOK, tables, Visible, IsOpen, Placed
  <1>4. CASE CountNone(s)
    BY <1>1, <1>4
       DEF CountNone, Goto, UpToDate, TypeOK, tables, IsOpen, HasTransactions,
           Live
  <1>5. CASE \/ Begin(s) \/ UpdateRow(s) \/ DeleteRow(s) \/ BalanceFirst(s)
             \/ DeleteMate(s) \/ BalanceSecond(s)
    <2>1. /\ UNCHANGED <<acct, row, job>>
          /\ pc[s] \notin {"idle", "dest", "count"}
      BY <1>5 DEF Begin, UpdateRow, DeleteRow, BalanceFirst, DeleteMate,
                  BalanceSecond, tables
    <2>2. QED
      BY <1>1, <2>1 DEF UpToDate, IsOpen, HasTransactions, Live
  <1>6. CASE InsertRow(s) \/ InsertPair(s) \/ FindLinked(s)
    <2>1. /\ UNCHANGED <<acct, row>> /\ pc[s] \in {"row", "link"}
          /\ pc[s] = "row" => job[s].kind \in {"create", "transfer"}
      BY <1>6 DEF InsertRow, InsertPair, FindLinked, tables
    <2>2. /\ job'[s].kind = job[s].kind
          /\ job'[s].first.acc = job[s].first.acc
          /\ job[s].kind = "transfer" =>
               job'[s].second.acc = job[s].second.acc
          /\ job[s].kind \in {"update", "delete"} =>
               job'[s].first = job[s].first
      <3>1. job[s] \in Job /\ job[s].first \in Leg
        BY <1>1, <2>1
      <3>2. CASE InsertRow(s)
        BY <1>1, <2>1, <3>1, <3>2 DEF InsertRow, TypeOK, Job, Leg
      <3>3. CASE InsertPair(s)
        <4>1. job[s].second \in Leg
          BY <2>1, <3>3, JobParts DEF InsertPair, HInv, RInv
        <4>2. QED
          BY <1>1, <3>1, <3>3, <4>1 DEF InsertPair, TypeOK, Job, Leg
      <3>4. CASE FindLinked(s)
        <4>1. job[s].kind = "delete"
          BY <1>1, <3>4 DEF FindLinked, Placed
        <4>2. \/ UNCHANGED job
              \/ job' = [job EXCEPT ![s].second = ReadLeg(job[s].ref, 0)]
          BY <3>4 DEF FindLinked
        <4>3. QED
          BY <1>1, <3>1, <4>1, <4>2 DEF TypeOK, Job
      <3>5. QED
        BY <1>6, <3>2, <3>3, <3>4
    <2>3. QED
      BY <1>1, <2>1, <2>2 DEF UpToDate, IsOpen, HasTransactions, Live
  <1>7. QED
    BY <1>2, <1>3, <1>4, <1>5, <1>6 DEF Proceed

(* The tables change, but not what request o has read of them.             *)
LEMMA StaysUpToDate ==
  ASSUME HInv, Harmless, NEW s \in Slots, CloseAccount(s) \/ Commit(s),
         RInv', NEW o \in Slots, o # s, pc'[o] = pc[o], job'[o] = job[o]
  PROVE  UpToDate(o)'
  <1>1. /\ "close" \notin Kinds
        /\ "update" \notin Kinds \/ \A m, n \in Amounts : m = n
    BY DEF Harmless
  <1>2. UpToDate(o) /\ UpToDate(s) /\ RInv
    BY DEF HInv
  <1>3. pc[s] # "idle" /\ Commit(s)
    BY <1>1, <1>2 DEF CloseAccount, UpToDate, Commit
  <1>4. \A a \in Accounts : acct'[a].status = acct[a].status
    BY <1>2, <1>3 DEF Commit, RInv, IInv, TypeInv, TypeOK, Account
  <1>5. CASE pc[o] = "idle"
    BY <1>5 DEF UpToDate
  <1>6. CASE pc[o] # "idle"
    <2> DEFINE j == job[o]
               i == j.first.id
    <2>1. /\ j.kind \in Kinds /\ j.kind # "close" /\ j.first.acc \in Accounts
          /\ j.kind = "transfer" => j.second.acc \in Accounts
      BY <1>1, <1>2, <1>6, JobParts DEF UpToDate, RInv
    <2>2. ASSUME j.kind \in {"update", "delete"}
          PROVE  j.first.old = row'[i].amt
      <3>1. /\ i \in TxIds /\ row[i] # None /\ row[i] \in Row
            /\ j.first.old = row[i].amt
        BY <1>2, <1>6, <2>2, JobParts DEF RInv, UpToDate
      <3>2. row'[i] # None /\ row'[i] \in Row
        <4>1. KnowsRow(o)' /\ row' \in [TxIds -> Row \union {None}]
          BY DEF RInv, IInv, SlotInv, TypeInv, TypeOK
        <4>2. QED
          BY <1>6, <2>2, <3>1, <4>1 DEF KnowsRow
      <3>3. CASE "update" \notin Kinds
        <4>1. CASE write[s][i] = None
          BY <1>3, <3>1, <4>1 DEF Commit, WithWrites
        <4>2. CASE write[s][i] # None
          <5>1. job[s].kind = "delete"
            <6>1. job[s].kind \in AllKinds /\ job[s].kind # "update"
              BY <1>2, <1>3, <3>3, JobParts DEF RInv, UpToDate, Job
            <6>2. TrueWrites(s) /\ pc[s] \in InTx \ {"row"}
              BY <1>2, <1>3 DEF Commit, RInv, Sound, InTx
            <6>3. QED
              BY <3>1, <4>2, <6>1, <6>2 DEF TrueWrites, NoWrites, AllKinds
          <5>2. write[s][i] = [row[i] EXCEPT !.live = FALSE]
            BY <1>2, <1>3, <3>1, <4>2, <5>1
               DEF RInv, IInv, SlotInv, DeletionWrites
          <5>3. row'[i] = [row[i] EXCEPT !.live = FALSE]
            BY <1>3, <3>1, <4>2, <5>2 DEF Commit, WithWrites
          <5>4. QED
            BY <3>1, <5>3 DEF Row
        <4>3. QED
          BY <4>1, <4>2
      <3>4. CASE \A m, n \in Amounts : m = n
        BY <3>1, <3>2, <3>4 DEF Row
      <3>5. QED
        BY <1>1, <3>3, <3>4
    <2>3. QED
      BY <1>2, <1>4, <2>1, <2>2 DEF UpToDate, IsOpen
  <1>7. QED
    BY <1>5, <1>6

LEMMA NextUpToDate ==
  ASSUME HInv, Harmless, [Next]_vars
  PROVE  HInv'
  <1>1. RInv /\ RInv' /\ TypeOK /\ \A o \in Slots : UpToDate(o)
    BY NextSound DEF HInv, RInv, IInv, TypeInv
  <1> DEFINE Open == "close" \notin Kinds =>
                       \A a \in Accounts : acct[a].status # "deleted"
  <1>2. CASE UNCHANGED vars
    BY <1>1, <1>2
       DEF vars, HInv, UpToDate, IsOpen, HasTransactions, Live
  <1>3. ASSUME NEW a \in Accounts, OpenAccount(a) PROVE HInv'
    <2>1. /\ UNCHANGED <<row, pc, job>>
          /\ acct'[a].status = "open"
          /\ \A b \in Accounts \ {a} : acct'[b] = acct[b]
          /\ acct[a].status # "open"
      BY <1>1, <1>3 DEF OpenAccount, NewAccount, slotVars, TypeOK
    <2>2. Open'
      BY <2>1 DEF HInv
    <2>3. ASSUME NEW o \in Slots PROVE UpToDate(o)'
      <3>1. pc[o] # "idle" =>
              /\ job[o].first.acc \in Accounts
              /\ job[o].kind = "transfer" => job[o].second.acc \in Accounts
        BY <1>1, JobParts DEF RInv
      <3>2. QED
        BY <1>1, <2>1, <3>1 DEF UpToDate, IsOpen, HasTransactions, Live
    <2>4. QED
      BY <1>1, <2>2, <2>3 DEF HInv
  <1>4. ASSUME NEW s \in Slots, Request(s) \/ Proceed(s) \/ Abort(s),
               ~CloseAccount(s), ~Commit(s)
        PROVE  HInv'
    <2>1. UNCHANGED <<acct, row>>
      BY <1>4
         DEF Request, CreateRequest, TransferRequest, UpdateRequest,
             DeleteRequest, CloseRequest, Arrive, Proceed, CheckDest,
             RefuseDest, CountNone, RefuseClose, Begin, InsertRow, InsertPair,
             UpdateRow, DeleteRow, RowGone, BalanceFirst, FindLinked,
             DeleteMate, BalanceSecond, AccountGone, Abort, tables
    <2>2. Open'
      BY <2>1 DEF HInv
    <2>3. \A o \in Slots \ {s} : pc'[o] = pc[o] /\ job'[o] = job[o]
      <3>1. CASE Request(s) \/ Abort(s)
        BY <1>1, <3>1
           DEF Request, CreateRequest, TransferRequest, UpdateRequest,
               DeleteRequest, CloseRequest, Arrive, Abort, Finish, Goto, TypeOK
      <3>2. CASE Proceed(s)
        BY <1>1, <1>4, <3>2
           DEF Proceed, CheckDest, RefuseDest, CountNone, RefuseClose, Begin,
               InsertRow, InsertPair, UpdateRow, DeleteRow, RowGone,
               BalanceFirst, FindLinked, DeleteMate, BalanceSecond,
               AccountGone, Finish, Goto, TypeOK
      <3>3. QED
        BY <1>4, <3>1, <3>2
    <2>4. \A o \in Slots \ {s} : UpToDate(o)'
      BY <1>1, <2>1, <2>3 DEF UpToDate, IsOpen, HasTransactions, Live
    <2>5. UpToDate(s)'
      <3>1. CASE Abort(s)
        BY <1>1, <3>1 DEF Abort, Finish, Goto, UpToDate, TypeOK
      <3>2. QED
        BY <1>4, <3>1, ArrivesUpToDate, ProceedsUpToDate
    <2>6. QED
      BY <1>1, <2>2, <2>4, <2>5 DEF HInv
  <1>5. ASSUME NEW s \in Slots, CloseAccount(s) \/ Commit(s) PROVE HInv'
    <2>1. /\ pc'[s] = "idle" /\ pc[s] # "idle"
          /\ \A o \in Slots \ {s} : pc'[o] = pc[o] /\ job'[o] = job[o]
      BY <1>1, <1>5 DEF CloseAccount, Commit, Finish, Goto, TypeOK
    <2>2. \A o \in Slots \ {s} : UpToDate(o)'
      BY <1>1, <1>5, <2>1, StaysUpToDate
    <2>3. UpToDate(s)'
      BY <2>1 DEF UpToDate
    <2>4. Open'
      <3>1. CASE CloseAccount(s)
        BY <1>1, <2>1, <3>1 DEF CloseAccount, UpToDate
      <3>2. CASE Commit(s)
        BY <1>1, <3>2 DEF Commit, HInv, TypeOK, Account
      <3>3. QED
        BY <1>5, <3>1, <3>2
    <2>5. QED
      BY <1>1, <2>2, <2>3, <2>4 DEF HInv
  <1>6. QED
    BY <1>2, <1>3, <1>4, <1>5 DEF Next

LEMMA UpToDateAlways ==
  ASSUME Harmless
  PROVE  Spec => []HInv
  BY InitUpToDate, NextUpToDate, PTL DEF Spec

(* The intended ledger speaks of the same data.                            *)
LEMMA SameDataIntended ==
  /\ Intended!TxIds = TxIds
  /\ Intended!Types = Types
  /\ Intended!NoTx = NoTx
  /\ \A t, m : Intended!Impact(t, m) = Impact(t, m)
  /\ \A i : Intended!Live(i) = Live(i)
  /\ \A a : Intended!IsOpen(a) = IsOpen(a)
  /\ \A a, d : Intended!Moved(a, d) = Atomic!Moved(a, d)
  /\ \A a, t, m, r : Intended!Posting(a, t, m, r) = Atomic!Posting(a, t, m, r)
  BY DEF Intended!TxIds, Intended!Types, Intended!NoTx, Intended!Impact,
         Intended!Live, Intended!IsOpen, TxIds, Types, NoTx, Impact, Live,
         IsOpen, Intended!Moved, Atomic!Moved, Intended!Posting,
         Atomic!Posting, Atomic!IsOpen

LEMMA EffectsIntended ==
  ASSUME NEW i, NEW k, NEW a, NEW b, NEW t, NEW m, NEW old,
         \/ Posted(i, a, t, m) /\ IsOpen(a)
         \/ Transferred(i, k, a, b, m) /\ IsOpen(a) /\ IsOpen(b)
         \/ Edited(i, m, old) /\ old = row[i].amt
         \/ Removed(i, old) /\ old = row[i].amt
         \/ Atomic!RemovePair(i) /\ i \in TxIds
  PROVE  Intended!Next
  <1> USE SameDataIntended
  <1>1. CASE Posted(i, a, t, m) /\ IsOpen(a)
    <2>1. Intended!Postable(Owner[a], a)
      BY <1>1 DEF Intended!Postable
    <2>2. Intended!Post(i)
      BY <1>1, <2>1 DEF Posted, Intended!Post
    <2>3. QED
      BY <1>1, <2>2 DEF Posted, Intended!Next
  <1>2. CASE Transferred(i, k, a, b, m) /\ IsOpen(a) /\ IsOpen(b)
    <2>1. Intended!Postable(Owner[a], a) /\ Intended!Postable(Owner[a], b)
      BY <1>2 DEF Intended!Postable, Transferred
    <2>2. Intended!Transfer(i, k)
      BY <1>2, <2>1 DEF Transferred, Intended!Transfer
    <2>3. QED
      BY <1>2, <2>2 DEF Transferred, Intended!Next
  <1>3. CASE Edited(i, m, old) /\ old = row[i].amt
    <2>1. old \in Intended!BelievedAmount(i)
      BY <1>3 DEF Intended!BelievedAmount
    <2>2. Intended!Edit(i)
      BY <1>3, <2>1 DEF Edited, Intended!Edit
    <2>3. QED
      BY <1>3, <2>2 DEF Edited, Intended!Next
  <1>4. CASE Removed(i, old) /\ old = row[i].amt
    <2>1. old \in Intended!BelievedAmount(i)
      BY <1>4 DEF Intended!BelievedAmount
    <2>2. Intended!Remove(i)
      BY <1>4, <2>1 DEF Removed, Intended!Remove
    <2>3. QED
      BY <1>4, <2>2 DEF Removed, Intended!Next
  <1>5. CASE Atomic!RemovePair(i) /\ i \in TxIds
    <2>1. Intended!RemovePair(i)
      BY <1>5, SameData DEF Atomic!RemovePair, Intended!RemovePair
    <2>2. QED
      BY <1>5, <2>1 DEF Intended!Next
  <1>6. QED
    BY <1>1, <1>2, <1>3, <1>4, <1>5

LEMMA StepIntended ==
  ASSUME HInv, [Next]_vars
  PROVE  [Intended!Next]_Intended!vars
  <1>1. CASE UNCHANGED <<acct, row>>
    BY <1>1 DEF Intended!vars
  <1>2. ASSUME NEW a \in Accounts, OpenAccount(a) PROVE Intended!Next
    <2>1. Intended!Open(a)
      BY <1>2
         DEF OpenAccount, NewAccount, Intended!Open, Intended!NewAccount
    <2>2. QED
      BY <2>1 DEF Intended!Next
  <1>3. ASSUME NEW s \in Slots, CloseAccount(s) PROVE Intended!Next
    <2> DEFINE a == job[s].first.acc
    <2>1. a \in Accounts
      BY <1>3, JobParts DEF CloseAccount, HInv, RInv
    <2>2. ~HasTransactions(a)
      BY <1>3 DEF CloseAccount, HInv, UpToDate
    <2>3. Intended!LiveRowsOf(a) = {}
      BY <2>2, SameDataIntended DEF Intended!LiveRowsOf, HasTransactions
    <2>4. Intended!Close(a)
      BY <1>3, <2>3, SameDataIntended DEF CloseAccount, Intended!Close
    <2>5. QED
      BY <2>1, <2>4 DEF Intended!Next
  <1>4. ASSUME NEW s \in Slots, Commit(s)
        PROVE  Intended!Next \/ UNCHANGED <<acct, row>>
    <2> DEFINE leg == job[s].first
               mate == job[s].second
    <2>1. /\ RInv /\ Sound(s) /\ pc[s] = "commit" /\ job[s].kind \in AllKinds
          /\ job[s].kind = "delete" => leg.id \in TxIds
      BY <1>4, CommitRows, JobParts DEF HInv, Job
    <2>2. /\ job[s].kind \in {"create", "transfer"} => IsOpen(leg.acc)
          /\ job[s].kind = "transfer" => IsOpen(mate.acc)
          /\ job[s].kind \in {"update", "delete"} =>
               leg.old = row[leg.id].amt
      BY <2>1 DEF HInv, UpToDate
    <2>3. CASE job[s].kind = "create"
      BY <1>4, <2>1, <2>2, <2>3, CreatePosts, EffectsIntended
    <2>4. CASE job[s].kind = "transfer"
      BY <1>4, <2>1, <2>2, <2>4, TransferTransfers, EffectsIntended
    <2>5. CASE job[s].kind = "update"
      BY <1>4, <2>1, <2>2, <2>5, UpdateEdits, EffectsIntended
    <2>6. CASE job[s].kind = "delete"
      BY <1>4, <2>1, <2>2, <2>6, DeleteRemoves, EffectsIntended
    <2>7. CASE job[s].kind = "close"
      BY <2>1, <2>7 DEF Sound, TrueWrites, InTx
    <2>8. QED
      BY <2>1, <2>3, <2>4, <2>5, <2>6, <2>7 DEF AllKinds
  <1>5. QED
    BY <1>1, <1>2, <1>3, <1>4, TableSteps DEF Intended!vars

(* Without races, each request acts on the tables it finds when it takes   *)
(* effect: one request at a time, or any number of them as long as no      *)
(* account is closed and no amount changes.                                *)
THEOREM LedgerIsIntended ==
  ASSUME Harmless
  PROVE  Spec => ActsOnWhatItFinds
  <1>1. Init => Intended!Init
    BY SameDataIntended
       DEF Init, NoWrites, NoAccount, Intended!Init, Intended!NoAccount
  <1>2. QED
    BY <1>1, UpToDateAlways, StepIntended, PTL
       DEF Spec, ActsOnWhatItFinds, Intended!Spec

(* In the intended ledger no live row is left on a deleted account.        *)
LEMMA IntendedLeavesNoOrphans ==
  ASSUME TypeOK, NoOrphans, [Intended!Next]_Intended!vars
  PROVE  NoOrphans'
  <1> USE SameDataIntended
  <1>1. /\ row \in [TxIds -> Row \union {None}]
        /\ acct \in [Accounts -> Account]
    BY DEF TypeOK
  <1>2. ASSUME NEW a \in Accounts, NEW d
        PROVE  Atomic!Moved(a, d).status = acct[a].status
    BY <1>1 DEF Atomic!Moved, Account
  <1>3. CASE UNCHANGED Intended!vars
    BY <1>3 DEF Intended!vars, NoOrphans, Live, IsOpen
  <1>4. ASSUME NEW a \in Accounts, Intended!Open(a) PROVE NoOrphans'
    <2>1. /\ row' = row
          /\ \A c \in Accounts : IsOpen(c) => acct'[c].status = "open"
      BY <1>1, <1>4 DEF Intended!Open, IsOpen
    <2>2. \A i \in TxIds : Live(i) => row[i].acc \in Accounts
      BY <1>1 DEF Live, Row
    <2>3. QED
      BY <2>1, <2>2 DEF NoOrphans, Live, IsOpen
  <1>5. ASSUME NEW a \in Accounts, Intended!Close(a) PROVE NoOrphans'
    <2>1. /\ row' = row
          /\ \A c \in Accounts \ {a} : acct'[c] = acct[c]
          /\ \A i \in TxIds : Live(i) => row[i].acc # a
      BY <1>1, <1>5 DEF Intended!Close, Intended!LiveRowsOf
    <2>2. \A i \in TxIds : Live(i) => row[i].acc \in Accounts
      BY <1>1 DEF Live, Row
    <2>3. QED
      BY <2>1, <2>2 DEF NoOrphans, Live, IsOpen
  <1>6. ASSUME \A c \in Accounts : acct'[c].status = acct[c].status,
               \A i \in TxIds : row'[i] # None /\ row'[i].live =>
                  /\ row'[i].acc \in Accounts
                  /\ \/ Live(i) /\ row'[i].acc = row[i].acc
                     \/ IsOpen(row'[i].acc)
        PROVE  NoOrphans'
    BY <1>6 DEF NoOrphans, Live, IsOpen
  <1>7. ASSUME NEW i \in TxIds, Intended!Post(i) PROVE NoOrphans'
    <2>1. PICK a \in Accounts, t \in Intended!Types, m \in Amounts :
            /\ Intended!Postable(Owner[a], a)
            /\ row' = [row EXCEPT
                         ![i] = Intended!Posting(a, t, m, Intended!NoTx)]
            /\ acct' = [acct EXCEPT
                          ![a] = Intended!Moved(a, Intended!Impact(t, m))]
      BY <1>7, Zenon DEF Intended!Post
    <2>2. IsOpen(a)
      BY <2>1 DEF Intended!Postable
    <2>3. /\ Intended!Moved(a, Intended!Impact(t, m)).status = acct[a].status
          /\ Intended!Posting(a, t, m, Intended!NoTx).acc = a
      BY <1>2 DEF Intended!Posting
    <2>4. \A c \in Accounts : acct'[c].status = acct[c].status
      BY <1>1, <1>2, <2>1, <2>3
    <2>5. \A n \in TxIds : row'[n] # None /\ row'[n].live =>
            /\ row'[n].acc \in Accounts
            /\ \/ Live(n) /\ row'[n].acc = row[n].acc
               \/ IsOpen(row'[n].acc)
      BY <1>1, <2>1, <2>2, <2>3 DEF Live, Row
    <2>6. QED
      BY <1>6, <2>4, <2>5
  <1>8. ASSUME NEW i \in TxIds, NEW k \in TxIds, Intended!Transfer(i, k)
        PROVE  NoOrphans'
    <2>1. PICK a, b \in Accounts, m \in Amounts :
            /\ a # b
            /\ Intended!Postable(Owner[a], a) /\ Intended!Postable(Owner[a], b)
            /\ row' = [row EXCEPT ![i] = Intended!Posting(a, "expense", m, k),
                                  ![k] = Intended!Posting(b, "income", m, i)]
            /\ acct' = [acct EXCEPT ![a] = Intended!Moved(a, -m),
                                    ![b] = Intended!Moved(b, m)]
      BY <1>8, Zenon DEF Intended!Transfer
    <2>2. IsOpen(a) /\ IsOpen(b)
      BY <2>1 DEF Intended!Postable
    <2>3. /\ Intended!Moved(a, -m).status = acct[a].status
          /\ Intended!Moved(b, m).status = acct[b].status
          /\ Intended!Posting(a, "expense", m, k).acc = a
          /\ Intended!Posting(b, "income", m, i).acc = b
      BY <1>2 DEF Intended!Posting
    <2>4. \A c \in Accounts : acct'[c].status = acct[c].status
      BY <1>1, <1>2, <2>1, <2>3
    <2>5. \A n \in TxIds : row'[n] # None /\ row'[n].live =>
            /\ row'[n].acc \in Accounts
            /\ \/ Live(n) /\ row'[n].acc = row[n].acc
               \/ IsOpen(row'[n].acc)
      BY <1>1, <2>1, <2>2, <2>3 DEF Live, Row
    <2>6. QED
      BY <1>6, <2>4, <2>5
  <1>9. ASSUME NEW i \in TxIds, Intended!Edit(i) \/ Intended!Remove(i)
        PROVE  NoOrphans'
    <2>1. row[i] \in Row /\ Live(i)
      BY <1>1, <1>9 DEF Intended!Edit, Intended!Remove, Live
    <2>2. PICK d : acct' = [acct EXCEPT ![row[i].acc] =
                              Atomic!Moved(row[i].acc, d)]
      BY <1>9 DEF Intended!Edit, Intended!Remove
    <2>3. \/ \E m \in Amounts : row' = [row EXCEPT ![i].amt = m]
          \/ row' = [row EXCEPT ![i].live = FALSE]
      BY <1>9 DEF Intended!Edit, Intended!Remove
    <2>4. /\ row'[i].acc = row[i].acc
          /\ \A n \in TxIds \ {i} : row'[n] = row[n]
      BY <1>1, <2>1, <2>3 DEF Row
    <2>5. \A c \in Accounts : acct'[c].status = acct[c].status
      BY <1>1, <1>2, <2>1, <2>2 DEF Row
    <2>6. QED
      BY <1>1, <1>6, <2>1, <2>4, <2>5 DEF Live, Row
  <1>10. ASSUME NEW i \in TxIds, Intended!RemovePair(i) PROVE NoOrphans'
    <2> DEFINE k == row[i].ref
    <2>1. row[i] \in Row /\ Live(i) /\ Live(k) /\ k # NoTx
      BY <1>1, <1>10 DEF Intended!RemovePair, Live
    <2>2. k \in TxIds /\ row[k] \in Row
      BY <1>1, <2>1 DEF Row, Live
    <2>3. PICK d, e : acct' = [acct EXCEPT
                        ![row[i].acc] = Atomic!Moved(row[i].acc, d),
                        ![row[k].acc] = Atomic!Moved(row[k].acc, e)]
      BY <1>10 DEF Intended!RemovePair
    <2>4. row' = [row EXCEPT ![i].live = FALSE, ![k].live = FALSE]
      BY <1>10 DEF Intended!RemovePair
    <2>5. /\ row'[i].acc = row[i].acc /\ row'[k].acc = row[k].acc
          /\ \A n \in TxIds \ {i, k} : row'[n] = row[n]
      BY <1>1, <2>1, <2>2, <2>4 DEF Row
    <2>6. \A c \in Accounts : acct'[c].status = acct[c].status
      BY <1>1, <1>2, <2>1, <2>2, <2>3 DEF Row
    <2>7. QED
      BY <1>1, <1>6, <2>1, <2>2, <2>5, <2>6 DEF Live, Row
  <1>11. QED
    BY <1>3, <1>4, <1>5, <1>7, <1>8, <1>9, <1>10 DEF Intended!Next

(* Without races, accounts with live transactions are not deleted.         *)
THEOREM NoneOrphaned ==
  ASSUME Harmless
  PROVE  Spec => []NoOrphans
  <1>1. Init => NoOrphans
    BY DEF Init, NoWrites, NoOrphans, Live
  <1>2. ASSUME HInv, NoOrphans, [Next]_vars PROVE NoOrphans'
    <2>1. TypeOK
      BY <1>2 DEF HInv, RInv, IInv, TypeInv
    <2>2. QED
      BY <1>2, <2>1, StepIntended, IntendedLeavesNoOrphans
  <1>3. QED
    BY <1>1, <1>2, UpToDateAlways, PTL DEF Spec

=============================================================================
