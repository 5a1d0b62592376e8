--------------------------- MODULE ServiceProofs ---------------------------
(***************************************************************************)
(* Theorems about Server and Service, for any number of clients and tries  *)
(* and any timeouts that the grace period covers.  First the server: its   *)
(* types, and that a shutdown leaves every request its time.  Then the API:*)
(* that the tables of the handlers are as they have to be (HandlerFits);   *)
(* what is so of a request while it is served (ReqInv), and that every     *)
(* statement, its own or somebody else's, keeps it; and from that what the *)
(* answers are worth.                                                      *)
(***************************************************************************)
EXTENDS Service, TLAPS

(* What the deadline of a connection may be.                               *)
LEMMA ConnectionLeft ==
  ASSUME NEW k \in Connection
  PROVE  /\ k.left \in Nat
         /\ k.pc = "reading" => k.left <= ReadTimeout
         /\ k.pc = "working" => k.left <= WriteTimeout
BY TimesAssumption DEF Connection, Closed

(* A tick leaves a connection what it is, with less time.                  *)
LEMMA ConnectionTick ==
  ASSUME NEW k \in Connection
  PROVE  LET l == IF k.left > 0 THEN k.left - 1 ELSE 0
         IN [k EXCEPT !.left = l] \in Connection
<1> USE TimesAssumption DEF Connection, Closed
<1>1. CASE k = Closed
  BY <1>1
<1>2. CASE k \in [pc : {"reading"}, left : 0 .. ReadTimeout]
  BY <1>2
<1>3. CASE k \in [pc : {"working"}, left : 0 .. WriteTimeout]
  BY <1>3
<1> QED
  BY <1>1, <1>2, <1>3

(* A step keeps the types.                                                 *)
LEMMA ServerTypeStep ==
  ASSUME ServerTypeOK, [ServerNext]_serverVars
  PROVE  ServerTypeOK'
<1> USE TimesAssumption DEF ServerTypeOK
<1> Closed \in Connection
  BY DEF Connection
<1>1. CASE Exit
  BY <1>1 DEF Exit, AllClosed
<1>2. CASE Start \/ Signal
  BY <1>2 DEF Start, Signal
<1>3. CASE Tick
  <2>1. conn' \in [Clients -> Connection]
    <3>1. \A c \in Clients :
            [conn[c] EXCEPT !.left = IF @ > 0 THEN @ - 1 ELSE 0] \in Connection
      BY ConnectionTick
    <3> QED
      BY <1>3, <3>1 DEF Tick
  <2>2. process' \in {"down", "up", "draining"} /\ grace' \in 0 .. Grace
    BY <1>3 DEF Tick
  <2> QED
    BY <2>1, <2>2
<1>4. ASSUME NEW c \in Clients, Connect(c) \/ Header(c) \/ Close(c)
      PROVE  ServerTypeOK'
  <2>1. /\ [pc |-> "reading", left |-> ReadTimeout] \in Connection
        /\ [pc |-> "working", left |-> WriteTimeout] \in Connection
    BY DEF Connection
  <2> QED
    BY <1>4, <2>1 DEF Connect, Header, Close
<1>5. CASE UNCHANGED serverVars
  BY <1>5 DEF serverVars
<1> QED
  BY <1>1, <1>2, <1>3, <1>4, <1>5
     DEF ServerNext, Stop, ForcedStop, Crash, ReadTimedOut, Drop, Respond, Late

(* A step keeps what makes the grace period long enough.                   *)
LEMMA GraceLeftStep ==
  ASSUME ServerTypeOK, GraceLeft, [ServerNext]_serverVars
  PROVE  GraceLeft'
<1> USE TimesAssumption DEF GraceLeft
<1>0. /\ grace \in Nat
      /\ conn \in [Clients -> Connection]
      /\ \A c \in Clients :
           /\ conn[c].left \in Nat
           /\ conn[c].pc = "reading" => conn[c].left <= ReadTimeout
           /\ conn[c].pc = "working" => conn[c].left <= WriteTimeout
  BY ConnectionLeft DEF ServerTypeOK
<1>1. CASE Exit \/ Start
  BY <1>1 DEF Exit, Start
<1>2. CASE Signal
  BY <1>0, <1>2 DEF Signal
<1>3. CASE Tick
  <2> SUFFICES ASSUME process' = "draining", NEW c \in Clients
               PROVE  /\ conn'[c].pc = "reading"
                           => conn'[c].left + WriteTimeout <= grace'
                      /\ conn'[c].pc = "working" => conn'[c].left <= grace'
    OBVIOUS
  <2>1. process = "draining" /\ grace > 0 /\ grace' = grace - 1
    BY <1>0, <1>3 DEF Tick
  <2>2. /\ conn'[c].pc = conn[c].pc
        /\ conn'[c].left = IF conn[c].left > 0 THEN conn[c].left - 1 ELSE 0
    <3>1. conn'[c] = [conn[c] EXCEPT !.left = IF @ > 0 THEN @ - 1 ELSE 0]
      BY <1>3 DEF Tick
    <3>2. conn[c] \in Connection
      BY <1>0
    <3> QED
      BY <3>1, <3>2, TimesAssumption DEF Connection, Closed
  <2>3. conn[c].pc = "reading" => conn[c].left > 0
    BY <1>3 DEF Tick
  <2> QED
    BY <1>0, <2>1, <2>2, <2>3
<1>4. ASSUME NEW c \in Clients, Connect(c) \/ Header(c) \/ Close(c)
      PROVE  GraceLeft'
  <2>1. CASE Connect(c)
    BY <2>1 DEF Connect
  <2>2. CASE Header(c)
    BY <1>0, <2>2 DEF Header
  <2>3. CASE Close(c)
    BY <1>0, <2>3 DEF Close, Closed
  <2> QED
    BY <1>4, <2>1, <2>2, <2>3
<1>5. CASE UNCHANGED serverVars
  BY <1>5 DEF serverVars
<1> QED
  BY <1>1, <1>2, <1>3, <1>4, <1>5
     DEF ServerNext, Stop, ForcedStop, Crash, ReadTimedOut, Drop, Respond, Late

(* Types, and time enough, at the start.                                   *)
LEMMA ServerStart == ServerInit => ServerTypeOK /\ GraceLeft
BY TimesAssumption
   DEF ServerInit, ServerTypeOK, GraceLeft, AllClosed, Connection, Closed

(* When the time is over, nothing is left to answer.                       *)
LEMMA GraceLeftEnds == ServerTypeOK /\ GraceLeft => GraceCoversAnswers
<1> SUFFICES ASSUME ServerTypeOK, GraceLeft, process = "draining", grace = 0,
                    NEW c \in Clients
             PROVE  /\ conn[c].pc # "reading"
                    /\ conn[c].pc = "working" => conn[c].left = 0
  BY DEF GraceCoversAnswers
<1>1. conn[c].left \in Nat
  BY ConnectionLeft DEF ServerTypeOK
<1> QED
  BY <1>1, TimesAssumption DEF GraceLeft

-----------------------------------------------------------------------------
(* Every step of the service is one of the server, or leaves it alone.     *)
LEMMA StepOfServer == [Next]_vars => [ServerNext]_serverVars
BY DEF Next, vars, EndForced, Die, Others, Call, Handle, Reply, ReplyLate,
       ServerNext

(* The service is a server: whatever clients ask, handlers do and the      *)
(* database answers, its process behaves as Server says.                   *)
THEOREM ServiceIsServer == Spec => ServerSpec
<1>1. Init => ServerInit
  BY DEF Init
<1> QED
  BY <1>1, StepOfServer, PTL DEF Spec, ServerSpec

(* The ranges of the process, its connections and the grace period.        *)
THEOREM ServerTypeCorrect == ServerSpec => []ServerTypeOK
BY ServerStart, ServerTypeStep, PTL DEF ServerSpec

(* The forced end of a shutdown cuts off no request that could still have  *)
(* been answered, for any number of clients and any timeouts that the      *)
(* grace period covers.                                                    *)
THEOREM ShutdownCutsOffNone == Spec => []GraceCoversAnswers
BY ServiceIsServer, ServerTypeCorrect, ServerStart, GraceLeftStep,
   GraceLeftEnds, PTL DEF ServerSpec

-----------------------------------------------------------------------------
(* What the handlers are, as far as the answers depend on it.              *)

(* The status of an error, and the errors that a status may stand for.     *)
StatusesFit(k, h) ==
    /\ h.done \in {200, 201}
    /\ "Failed" \notin DOMAIN h.errors
    /\ None \notin DOMAIN h.errors
    /\ \A e \in DOMAIN h.errors :
         /\ h.errors[e] \in {400, 401, 403, 404, 409}
         /\ h.errors[e] = 404 <=> e = "NotFound"
         /\ h.errors[e] = 409 => e = IF k = "account" THEN "InUse" ELSE "Taken"

(* The refusals a service judges by name none of the reasons that the      *)
(* rows give.                                                              *)
RefusalsFit(o, h, s) ==
    /\ s.may \subseteq DOMAIN h.errors
    /\ s.may \intersect {"NotFound", "InUse", "Taken"} = {}
    /\ s.does \in Writes \/ o = "refresh" => s.may = {}

(* The errors of a statement name a row that it looks at.                  *)
ReasonsFit(k, o, h, s) ==
    /\ s.fail \notin {"InUse", "Taken"}
    /\ s.fail = "NotFound" => k = "category"
    /\ s.miss = "NotFound" =>
         IF k = "transaction" /\ o = "create" THEN s.does = "stands"
                               ELSE s.does \in {"find", "change", "remove"}
    /\ s.miss = "InUse" => s.does = "unused"
    /\ s.miss = "Taken" => s.does \in {"absent", "claim"}
    /\ s.miss \notin DOMAIN h.errors /\ s.miss # None =>
         \/ k = "transaction" /\ s.does \in {"change", "remove"}
         \/ k = "user" /\ s.does = "claim"

(* What must be there for a statement to be done.                          *)
NeedsFit(k, o, s) ==
    /\ s.does \in {"find", "stands"} => s.miss # None /\ s.fail # None
    /\ s.does \in {"change", "claim"} => s.miss # None
    /\ s.does = "remove" /\ s.miss = None =>
         k \in {"category", "rule", "session"} /\ o \in {"delete", "logout"}
    /\ s.does \in Writes =>
         /\ s.fail = "Failed" \/ (s.fail = None /\ o = "logout")
         /\ o \in {"update", "updateAll", "create", "delete", "logout"}
         /\ o \in {"delete", "logout"} => s.does = "remove"
         /\ o = "create" /\ k \in {"rule", "user"} => s.does = "claim"
    /\ o = "refresh" => s.does \in {"find", "stands"}

StmtFits(k, o, h, s) ==
    RefusalsFit(o, h, s) /\ ReasonsFit(k, o, h, s) /\ NeedsFit(k, o, s)

(* What may follow a write: a reading for the answer.                      *)
AfterWrite(k, o, s) ==
    /\ s.may = {} /\ s.fail = "Failed"
    /\ \/ s.does = "read"
       \/ /\ s.does = "find" /\ s.miss = "NotFound" /\ o = "update"
          /\ k \in {"account", "transaction", "budget"}

Lookups == {"get", "summary", "login", "refresh"}

HandlerFits(k, o, h) ==
    /\ StatusesFit(k, h)
    /\ Len(h.steps) \in Nat \ {0}
    /\ \A n \in 1 .. Len(h.steps) : StmtFits(k, o, h, h.steps[n])
    /\ \A n \in 1 .. Len(h.steps) : \A m \in 1 .. n - 1 :
         h.steps[m].does \in Writes => AfterWrite(k, o, h.steps[n])
    /\ o \in Lookups => h.steps[1].does = "find"
    /\ o = "refresh" => Len(h.steps) = 2 /\ h.steps[2].does = "stands"

(* A handler of one, two or three statements.                              *)
LEMMA OneStep ==
  ASSUME NEW k, NEW o, NEW h, NEW a,
         h.steps = <<a>>, StatusesFit(k, h), StmtFits(k, o, h, a),
         o \in Lookups => a.does = "find", o # "refresh"
  PROVE  HandlerFits(k, o, h)
<1>1. Len(h.steps) = 1 /\ h.steps[1] = a
  OBVIOUS
<1> QED
  BY <1>1 DEF HandlerFits

(* A handler of two statements.                                            *)
LEMMA TwoSteps ==
  ASSUME NEW k, NEW o, NEW h, NEW a, NEW b,
         h.steps = <<a, b>>, StatusesFit(k, h),
         StmtFits(k, o, h, a), StmtFits(k, o, h, b),
         a.does \in Writes => AfterWrite(k, o, b),
         o \in Lookups => a.does = "find",
         o = "refresh" => b.does = "stands"
  PROVE  HandlerFits(k, o, h)
<1>1. Len(h.steps) = 2 /\ h.steps[1] = a /\ h.steps[2] = b
  OBVIOUS
<1>2. \A n \in 1 .. Len(h.steps) : n \in {1, 2}
  BY <1>1
<1>3. \A n \in 1 .. Len(h.steps) : \A m \in 1 .. n - 1 : m = 1 /\ n = 2
  BY <1>1
<1> QED
  BY <1>1, <1>2, <1>3 DEF HandlerFits

(* A handler of three statements.                                          *)
LEMMA ThreeSteps ==
  ASSUME NEW k, NEW o, NEW h, NEW a, NEW b, NEW c,
         h.steps = <<a, b, c>>, StatusesFit(k, h),
         StmtFits(k, o, h, a), StmtFits(k, o, h, b), StmtFits(k, o, h, c),
         a.does \in Writes => AfterWrite(k, o, b) /\ AfterWrite(k, o, c),
         b.does \in Writes => AfterWrite(k, o, c),
         o \in Lookups => a.does = "find", o # "refresh"
  PROVE  HandlerFits(k, o, h)
<1>1. Len(h.steps) = 3 /\ h.steps[1] = a /\ h.steps[2] = b /\ h.steps[3] = c
  OBVIOUS
<1>2. \A n \in 1 .. Len(h.steps) : n \in {1, 2, 3}
  BY <1>1
<1>3. \A n \in 1 .. Len(h.steps) : \A m \in 1 .. n - 1 :
        (m = 1 /\ n = 2) \/ (m = 1 /\ n = 3) \/ (m = 2 /\ n = 3)
  BY <1>1
<1> QED
  BY <1>1, <1>2, <1>3 DEF HandlerFits

(* An update reads what it has written.                                    *)
LEMMA OneAndOne == ASSUME NEW a, NEW b PROVE <<a>> \o <<b>> = <<a, b>>
<1> DEFINE S == {a, b}
           u == <<a>> \o <<b>>
<1>1. /\ <<a>> \in Seq(S) /\ <<b>> \in Seq(S)
      /\ Len(<<a>>) = 1 /\ Len(<<b>>) = 1
  OBVIOUS
<1>2. u \in Seq(S) /\ Len(u) = 2 /\ u[1] = a /\ u[2] = b
  BY <1>1
<1> HIDE DEF u
<1>3. u = <<u[1], u[2]>>
  BY <1>2, Z3
<1> QED
  BY <1>2, <1>3 DEF u

(* One statement and two.                                                  *)
LEMMA OneAndTwo ==
  ASSUME NEW a, NEW b, NEW c
  PROVE  <<a>> \o <<b, c>> = <<a, b, c>>
<1> DEFINE S == {a, b, c}
           u == <<a>> \o <<b, c>>
<1>1. /\ <<a>> \in Seq(S) /\ <<b, c>> \in Seq(S)
      /\ Len(<<a>>) = 1 /\ Len(<<b, c>>) = 2
  OBVIOUS
<1>2. u \in Seq(S) /\ Len(u) = 3 /\ u[1] = a /\ u[2] = b /\ u[3] = c
  BY <1>1
<1> HIDE DEF u
<1>3. u = <<u[1], u[2], u[3]>>
  BY <1>2, Z3
<1> QED
  BY <1>2, <1>3 DEF u

(* Two statements and one.                                                 *)
LEMMA TwoAndOne ==
  ASSUME NEW a, NEW b, NEW c
  PROVE  <<a, b>> \o <<c>> = <<a, b, c>>
<1> DEFINE S == {a, b, c}
           u == <<a, b>> \o <<c>>
<1>1. /\ <<a, b>> \in Seq(S) /\ <<c>> \in Seq(S)
      /\ Len(<<a, b>>) = 2 /\ Len(<<c>>) = 1
  OBVIOUS
<1>2. u \in Seq(S) /\ Len(u) = 3 /\ u[1] = a /\ u[2] = b /\ u[3] = c
  BY <1>1
<1> HIDE DEF u
<1>3. u = <<u[1], u[2], u[3]>>
  BY <1>2, Z3
<1> QED
  BY <1>2, <1>3 DEF u

(* The tables of the handlers of each package are what they have to be.    *)
LEMMA AccountHandlersFit ==
  \A o \in DOMAIN Routes["account"] :
    HandlerFits("account", o, Routes["account"][o])
<1>1. HandlerFits("account", "create", accounts_create)
  <2>1. accounts_create.steps = <<Insert>>
    BY DEF accounts_create, Handler, CreateAccount
  <2>2. /\ StatusesFit("account", accounts_create)
        /\ StmtFits("account", "create", accounts_create, Insert)
    BY ClientsAssumption
       DEF StatusesFit, StmtFits, RefusalsFit, ReasonsFit, NeedsFit, Writes,
           accounts_create, Handler, NoErrors, Insert, Stmt
  <2> QED
    BY <2>1, <2>2, OneStep DEF Lookups, Insert, Stmt
<1>2. HandlerFits("account", "list", accounts_list)
  <2>1. accounts_list.steps = <<Read, Read>>
    BY DEF accounts_list, Handler, ListAccounts
  <2>2. /\ StatusesFit("account", accounts_list)
        /\ StmtFits("account", "list", accounts_list, Read)
    BY ClientsAssumption
       DEF StatusesFit, StmtFits, RefusalsFit, ReasonsFit, NeedsFit, Writes,
           accounts_list, Handler, NoErrors, Read, Stmt
  <2> QED
    BY <2>1, <2>2, TwoSteps
       DEF AfterWrite, Lookups, Writes, Read, Stmt
<1>3. HandlerFits("account", "get", accounts_getByID)
  <2>1. accounts_getByID.steps = <<Find>>
    BY DEF accounts_getByID, Handler, GetAccount
  <2>2. /\ StatusesFit("account", accounts_getByID)
        /\ StmtFits("account", "get", accounts_getByID, Find)
    BY ClientsAssumption
       DEF StatusesFit, StmtFits, RefusalsFit, ReasonsFit, NeedsFit, Writes,
           accounts_getByID, Handler, NotFound,
           Find, Stmt
  <2> QED
    BY <2>1, <2>2, OneStep DEF Lookups, Find, Stmt
<1>4. HandlerFits("account", "summary", accounts_getSummary)
  <2>1. accounts_getSummary.steps = <<Find, Stats>>
    BY DEF accounts_getSummary, Handler, GetSummary
  <2>2. /\ StatusesFit("account", accounts_getSummary)
        /\ StmtFits("account", "summary", accounts_getSummary, Find)
        /\ StmtFits("account", "summary", accounts_getSummary, Stats)
    BY ClientsAssumption
       DEF StatusesFit, StmtFits, RefusalsFit, ReasonsFit, NeedsFit, Writes,
           accounts_getSummary, Handler, NotFound,
           Find, Stats, Stmt
  <2> QED
    BY <2>1, <2>2, TwoSteps
       DEF AfterWrite, Lookups, Writes, Find, Stats, Stmt
<1>5. HandlerFits("account", "update", accounts_update)
  <2>1. accounts_update.steps = <<Change("NotFound"), Find>>
    <3>1. accounts_update.steps = UpdateAccount
      BY DEF accounts_update, Handler
    <3> QED
      BY <3>1, OneAndOne DEF UpdateAccount, GetAccount
  <2>2. /\ StatusesFit("account", accounts_update)
        /\ StmtFits("account", "update", accounts_update,
                    Change("NotFound"))
        /\ StmtFits("account", "update", accounts_update, Find)
    BY ClientsAssumption
       DEF StatusesFit, StmtFits, RefusalsFit, ReasonsFit, NeedsFit, Writes,
           accounts_update, Handler, NotFound,
           Change, Find, Stmt
  <2> QED
    BY <2>1, <2>2, TwoSteps
       DEF AfterWrite, Lookups, Writes, Change, Find, Stmt
<1>6. HandlerFits("account", "delete", accounts_delete)
  <2>1. accounts_delete.steps = <<Find, Unused, Remove("NotFound")>>
    BY DEF accounts_delete, Handler, DeleteAccount
  <2>2. /\ StatusesFit("account", accounts_delete)
        /\ StmtFits("account", "delete", accounts_delete, Find)
        /\ StmtFits("account", "delete", accounts_delete, Unused)
        /\ StmtFits("account", "delete", accounts_delete,
                    Remove("NotFound"))
    BY ClientsAssumption
       DEF StatusesFit, StmtFits, RefusalsFit, ReasonsFit, NeedsFit, Writes,
           accounts_delete, Handler,
           Find, Unused, Remove, Stmt
  <2> QED
    BY <2>1, <2>2, ThreeSteps
       DEF AfterWrite, Lookups, Writes, Find, Unused, Remove, Stmt
<1>7. \A o \in DOMAIN Routes["account"] :
        (o = "create" /\ Routes["account"][o] = accounts_create) \/
        (o = "list" /\ Routes["account"][o] = accounts_list) \/
        (o = "get" /\ Routes["account"][o] = accounts_getByID) \/
        (o = "summary" /\ Routes["account"][o] = accounts_getSummary) \/
        (o = "update" /\ Routes["account"][o] = accounts_update) \/
        (o = "delete" /\ Routes["account"][o] = accounts_delete)
  BY DEF Routes
<1> QED
  BY <1>1, <1>2, <1>3, <1>4, <1>5, <1>6, <1>7

(* The handlers of transactions.                                           *)
LEMMA TransactionHandlersFit ==
  \A o \in DOMAIN Routes["transaction"] :
    HandlerFits("transaction", o, Routes["transaction"][o])
<1>1. HandlerFits("transaction", "create", transactions_create)
  <2>1. transactions_create.steps = <<Stands, Insert>>
    BY DEF transactions_create, Handler, CreateTransaction
  <2>2. /\ StatusesFit("transaction", transactions_create)
        /\ StmtFits("transaction", "create", transactions_create,
                    Stands)
        /\ StmtFits("transaction", "create", transactions_create,
                    Insert)
    BY ClientsAssumption
       DEF StatusesFit, StmtFits, RefusalsFit, ReasonsFit, NeedsFit, Writes,
           transactions_create, Handler, transactions_handleServiceError,
           Stands, Insert, Stmt
  <2> QED
    BY <2>1, <2>2, TwoSteps
       DEF AfterWrite, Lookups, Writes, Stands, Insert, Stmt
<1>2. HandlerFits("transaction", "list", transactions_list)
  <2>1. transactions_list.steps = <<Read, Read>>
    BY DEF transactions_list, Handler, ListTransactions
  <2>2. /\ StatusesFit("transaction", transactions_list)
        /\ StmtFits("transaction", "list", transactions_list, Read)
    BY ClientsAssumption
       DEF StatusesFit, StmtFits, RefusalsFit, ReasonsFit, NeedsFit, Writes,
           transactions_list, Handler, NoErrors, Read, Stmt
  <2> QED
    BY <2>1, <2>2, TwoSteps
       DEF AfterWrite, Lookups, Writes, Read, Stmt
<1>3. HandlerFits("transaction", "get", transactions_getByID)
  <2>1. transactions_getByID.steps = <<Find>>
    BY DEF transactions_getByID, Handler, GetTransaction
  <2>2. /\ StatusesFit("transaction", transactions_getByID)
        /\ StmtFits("transaction", "get", transactions_getByID, Find)
    BY ClientsAssumption
       DEF StatusesFit, StmtFits, RefusalsFit, ReasonsFit, NeedsFit, Writes,
           transactions_getByID, Handler, transactions_handleServiceError,
           Find, Stmt
  <2> QED
    BY <2>1, <2>2, OneStep DEF Lookups, Find, Stmt
<1>4. HandlerFits("transaction", "update", transactions_update)
  <2>1. transactions_update.steps =
          <<Judged(Find, {"Invalid"}), Change("Failed"), Find>>
    <3>1. transactions_update.steps = UpdateTransaction
      BY DEF transactions_update, Handler
    <3> QED
      BY <3>1, TwoAndOne DEF UpdateTransaction, GetTransaction
  <2>2. /\ StatusesFit("transaction", transactions_update)
        /\ StmtFits("transaction", "update", transactions_update,
                    Judged(Find, {"Invalid"}))
        /\ StmtFits("transaction", "update", transactions_update,
                    Change("Failed"))
        /\ StmtFits("transaction", "update", transactions_update, Find)
    BY ClientsAssumption
       DEF StatusesFit, StmtFits, RefusalsFit, ReasonsFit, NeedsFit, Writes,
           transactions_update, Handler, transactions_handleServiceError,
           Judged, Find, Change, Stmt
  <2> QED
    BY <2>1, <2>2, ThreeSteps
       DEF AfterWrite, Lookups, Writes, Judged, Find, Change, Stmt
<1>5. HandlerFits("transaction", "delete", transactions_delete)
  <2>1. transactions_delete.steps = <<Find, Remove("Failed")>>
    BY DEF transactions_delete, Handler, DeleteTransaction
  <2>2. /\ StatusesFit("transaction", transactions_delete)
        /\ StmtFits("transaction", "delete", transactions_delete, Find)
        /\ StmtFits("transaction", "delete", transactions_delete,
                    Remove("Failed"))
    BY ClientsAssumption
       DEF StatusesFit, StmtFits, RefusalsFit, ReasonsFit, NeedsFit, Writes,
           transactions_delete, Handler, transactions_handleServiceError,
           Find, Remove, Stmt
  <2> QED
    BY <2>1, <2>2, TwoSteps
       DEF AfterWrite, Lookups, Writes, Find, Remove, Stmt
<1>6. \A o \in DOMAIN Routes["transaction"] :
        (o = "create" /\ Routes["transaction"][o] = transactions_create) \/
        (o = "list" /\ Routes["transaction"][o] = transactions_list) \/
        (o = "get" /\ Routes["transaction"][o] = transactions_getByID) \/
        (o = "update" /\ Routes["transaction"][o] = transactions_update) \/
        (o = "delete" /\ Routes["transaction"][o] = transactions_delete)
  BY DEF Routes
<1> QED
  BY <1>1, <1>2, <1>3, <1>4, <1>5, <1>6

(* The handlers of categories.                                             *)
LEMMA CategoryHandlersFit ==
  \A o \in DOMAIN Routes["category"] :
    HandlerFits("category", o, Routes["category"][o])
<1>1. HandlerFits("category", "create", categories_create)
  <2>1. categories_create.steps = <<Insert>>
    BY DEF categories_create, Handler, CreateCategory
  <2>2. /\ StatusesFit("category", categories_create)
        /\ StmtFits("category", "create", categories_create, Insert)
    BY ClientsAssumption
       DEF StatusesFit, StmtFits, RefusalsFit, ReasonsFit, NeedsFit, Writes,
           categories_create, Handler, categories_handleServiceError,
           Insert, Stmt
  <2> QED
    BY <2>1, <2>2, OneStep DEF Lookups, Insert, Stmt
<1>2. HandlerFits("category", "list", categories_list)
  <2>1. categories_list.steps = <<Read>>
    BY DEF categories_list, Handler, ListCategories
  <2>2. /\ StatusesFit("category", categories_list)
        /\ StmtFits("category", "list", categories_list, Read)
    BY ClientsAssumption
       DEF StatusesFit, StmtFits, RefusalsFit, ReasonsFit, NeedsFit, Writes,
           categories_list, Handler, categories_handleServiceError,
           Read, Stmt
  <2> QED
    BY <2>1, <2>2, OneStep DEF Lookups, Read, Stmt
<1>3. HandlerFits("category", "get", categories_getByID)
  <2>1. categories_getByID.steps = <<FindCategory>>
    BY DEF categories_getByID, Handler, GetCategory
  <2>2. /\ StatusesFit("category", categories_getByID)
        /\ StmtFits("category", "get", categories_getByID,
                    FindCategory)
    BY ClientsAssumption
       DEF StatusesFit, StmtFits, RefusalsFit, ReasonsFit, NeedsFit, Writes,
           categories_getByID, Handler, categories_handleServiceError,
           FindCategory, Stmt
  <2> QED
    BY <2>1, <2>2, OneStep DEF Lookups, FindCategory, Stmt
<1>4. HandlerFits("category", "update", categories_update)
  <2>1. categories_update.steps =
          <<Judged(FindCategory, {"System", "Invalid"}),
            Stmt("save", None, "Failed")>>
    BY DEF categories_update, Handler, UpdateCategory
  <2>2. /\ StatusesFit("category", categories_update)
        /\ StmtFits("category", "update", categories_update,
                    Judged(FindCategory, {"System", "Invalid"}))
        /\ StmtFits("category", "update", categories_update,
                    Stmt("save", None, "Failed"))
    BY ClientsAssumption
       DEF StatusesFit, StmtFits, RefusalsFit, ReasonsFit, NeedsFit, Writes,
           categories_update, Handler, categories_handleServiceError,
           Judged, FindCategory, Stmt
  <2> QED
    BY <2>1, <2>2, TwoSteps
       DEF AfterWrite, Lookups, Writes, Judged, FindCategory, Stmt
<1>5. HandlerFits("category", "delete", categories_delete)
  <2>1. categories_delete.steps =
          <<Judged(FindCategory, {"System"}), Remove(None)>>
    BY DEF categories_delete, Handler, DeleteCategory
  <2>2. /\ StatusesFit("category", categories_delete)
        /\ StmtFits("category", "delete", categories_delete,
                    Judged(FindCategory, {"System"}))
        /\ StmtFits("category", "delete", categories_delete,
                    Remove(None))
    BY ClientsAssumption
       DEF StatusesFit, StmtFits, RefusalsFit, ReasonsFit, NeedsFit, Writes,
           categories_delete, Handler, categories_handleServiceError,
           Judged, FindCategory, Remove, Stmt
  <2> QED
    BY <2>1, <2>2, TwoSteps
       DEF AfterWrite, Lookups, Writes, Judged, FindCategory, Remove, Stmt
<1>6. \A o \in DOMAIN Routes["category"] :
        (o = "create" /\ Routes["category"][o] = categories_create) \/
        (o = "list" /\ Routes["category"][o] = categories_list) \/
        (o = "get" /\ Routes["category"][o] = categories_getByID) \/
        (o = "update" /\ Routes["category"][o] = categories_update) \/
        (o = "delete" /\ Routes["category"][o] = categories_delete)
  BY DEF Routes
<1> QED
  BY <1>1, <1>2, <1>3, <1>4, <1>5, <1>6

(* The handlers of budgets.                                                *)
LEMMA BudgetHandlersFit ==
  \A o \in DOMAIN Routes["budget"] :
    HandlerFits("budget", o, Routes["budget"][o])
<1>1. HandlerFits("budget", "create", budgets_create)
  <2>1. budgets_create.steps = <<Insert, Read>>
    BY DEF budgets_create, Handler, CreateBudget
  <2>2. /\ StatusesFit("budget", budgets_create)
        /\ StmtFits("budget", "create", budgets_create, Insert)
        /\ StmtFits("budget", "create", budgets_create, Read)
    BY ClientsAssumption
       DEF StatusesFit, StmtFits, RefusalsFit, ReasonsFit, NeedsFit, Writes,
           budgets_create, Handler, budgets_handleError, NotFound,
           Insert, Read, Stmt
  <2> QED
    BY <2>1, <2>2, TwoSteps
       DEF AfterWrite, Lookups, Writes, Insert, Read, Stmt
<1>2. HandlerFits("budget", "list", budgets_list)
  <2>1. budgets_list.steps = <<Read, Read, Read>>
    BY DEF budgets_list, Handler, ListBudgets
  <2>2. /\ StatusesFit("budget", budgets_list)
        /\ StmtFits("budget", "list", budgets_list, Read)
    BY ClientsAssumption
       DEF StatusesFit, StmtFits, RefusalsFit, ReasonsFit, NeedsFit, Writes,
           budgets_list, Handler, NoErrors, Read, Stmt
  <2> QED
    BY <2>1, <2>2, ThreeSteps
       DEF AfterWrite, Lookups, Writes, Read, Stmt
<1>3. HandlerFits("budget", "get", budgets_getByID)
  <2>1. budgets_getByID.steps = <<Find, Read>>
    BY DEF budgets_getByID, Handler, GetBudget
  <2>2. /\ StatusesFit("budget", budgets_getByID)
        /\ StmtFits("budget", "get", budgets_getByID, Find)
        /\ StmtFits("budget", "get", budgets_getByID, Read)
    BY ClientsAssumption
       DEF StatusesFit, StmtFits, RefusalsFit, ReasonsFit, NeedsFit, Writes,
           budgets_getByID, Handler, budgets_handleError, NotFound,
           Find, Read, Stmt
  <2> QED
    BY <2>1, <2>2, TwoSteps
       DEF AfterWrite, Lookups, Writes, Find, Read, Stmt
<1>4. HandlerFits("budget", "update", budgets_update)
  <2>1. budgets_update.steps = <<Change("NotFound"), Find, Read>>
    <3>1. budgets_update.steps = UpdateBudget
      BY DEF budgets_update, Handler
    <3> QED
      BY <3>1, OneAndTwo DEF UpdateBudget, GetBudget
  <2>2. /\ StatusesFit("budget", budgets_update)
        /\ StmtFits("budget", "update", budgets_update,
                    Change("NotFound"))
        /\ StmtFits("budget", "update", budgets_update, Find)
        /\ StmtFits("budget", "update", budgets_update, Read)
    BY ClientsAssumption
       DEF StatusesFit, StmtFits, RefusalsFit, ReasonsFit, NeedsFit, Writes,
           budgets_update, Handler, budgets_handleError, NotFound,
           Change, Find, Read, Stmt
  <2> QED
    BY <2>1, <2>2, ThreeSteps
       DEF AfterWrite, Lookups, Writes, Change, Find, Read, Stmt
<1>5. HandlerFits("budget", "delete", budgets_delete)
  <2>1. budgets_delete.steps = <<Remove("NotFound")>>
    BY DEF budgets_delete, Handler, DeleteBudget
  <2>2. /\ StatusesFit("budget", budgets_delete)
        /\ StmtFits("budget", "delete", budgets_delete,
                    Remove("NotFound"))
    BY ClientsAssumption
       DEF StatusesFit, StmtFits, RefusalsFit, ReasonsFit, NeedsFit, Writes,
           budgets_delete, Handler, budgets_handleError, NotFound,
           Remove, Stmt
  <2> QED
    BY <2>1, <2>2, OneStep DEF Lookups, Remove, Stmt
<1>6. \A o \in DOMAIN Routes["budget"] :
        (o = "create" /\ Routes["budget"][o] = budgets_create) \/
        (o = "list" /\ Routes["budget"][o] = budgets_list) \/
        (o = "get" /\ Routes["budget"][o] = budgets_getByID) \/
        (o = "update" /\ Routes["budget"][o] = budgets_update) \/
        (o = "delete" /\ Routes["budget"][o] = budgets_delete)
  BY DEF Routes
<1> QED
  BY <1>1, <1>2, <1>3, <1>4, <1>5, <1>6

(* The handlers of alerts.                                                 *)
LEMMA AlertHandlersFit ==
  \A o \in DOMAIN Routes["alert"] :
    HandlerFits("alert", o, Routes["alert"][o])
<1>1. HandlerFits("alert", "list", alerts_list)
  <2>1. alerts_list.steps = <<Read, Read, Read>>
    BY DEF alerts_list, Handler, ListAlerts
  <2>2. /\ StatusesFit("alert", alerts_list)
        /\ StmtFits("alert", "list", alerts_list, Read)
    BY ClientsAssumption
       DEF StatusesFit, StmtFits, RefusalsFit, ReasonsFit, NeedsFit, Writes,
           alerts_list, Handler, NoErrors, Read, Stmt
  <2> QED
    BY <2>1, <2>2, ThreeSteps
       DEF AfterWrite, Lookups, Writes, Read, Stmt
<1>2. HandlerFits("alert", "update", alerts_markRead)
  <2>1. alerts_markRead.steps = <<Change("NotFound")>>
    BY DEF alerts_markRead, Handler, MarkRead
  <2>2. /\ StatusesFit("alert", alerts_markRead)
        /\ StmtFits("alert", "update", alerts_markRead,
                    Change("NotFound"))
    BY ClientsAssumption
       DEF StatusesFit, StmtFits, RefusalsFit, ReasonsFit, NeedsFit, Writes,
           alerts_markRead, Handler, NotFound,
           Change, Stmt
  <2> QED
    BY <2>1, <2>2, OneStep DEF Lookups, Change, Stmt
<1>3. HandlerFits("alert", "updateAll", alerts_markAllRead)
  <2>1. alerts_markAllRead.steps = <<Stmt("change all", None, "Failed")>>
    BY DEF alerts_markAllRead, Handler, MarkAllRead
  <2>2. /\ StatusesFit("alert", alerts_markAllRead)
        /\ StmtFits("alert", "updateAll", alerts_markAllRead,
                    Stmt("change all", None, "Failed"))
    BY ClientsAssumption
       DEF StatusesFit, StmtFits, RefusalsFit, ReasonsFit, NeedsFit, Writes,
           alerts_markAllRead, Handler, NoErrors, Stmt
  <2> QED
    BY <2>1, <2>2, OneStep DEF Lookups, Stmt
<1>4. HandlerFits("alert", "delete", alerts_delete)
  <2>1. alerts_delete.steps = <<Remove("NotFound")>>
    BY DEF alerts_delete, Handler, DeleteAlert
  <2>2. /\ StatusesFit("alert", alerts_delete)
        /\ StmtFits("alert", "delete", alerts_delete,
                    Remove("NotFound"))
    BY ClientsAssumption
       DEF StatusesFit, StmtFits, RefusalsFit, ReasonsFit, NeedsFit, Writes,
           alerts_delete, Handler, NotFound,
           Remove, Stmt
  <2> QED
    BY <2>1, <2>2, OneStep DEF Lookups, Remove, Stmt
<1>5. \A o \in DOMAIN Routes["alert"] :
        (o = "list" /\ Routes["alert"][o] = alerts_list) \/
        (o = "update" /\ Routes["alert"][o] = alerts_markRead) \/
        (o = "updateAll" /\ Routes["alert"][o] = alerts_markAllRead) \/
        (o = "delete" /\ Routes["alert"][o] = alerts_delete)
  BY DEF Routes
<1> QED
  BY <1>1, <1>2, <1>3, <1>4, <1>5

(* The handlers of rules.                                                  *)
LEMMA RuleHandlersFit ==
  \A o \in DOMAIN Routes["rule"] :
    HandlerFits("rule", o, Routes["rule"][o])
<1>1. HandlerFits("rule", "create", rules_create)
  <2>1. rules_create.steps = <<Claim("Taken")>>
    BY DEF rules_create, Handler, CreateRule
  <2>2. /\ StatusesFit("rule", rules_create)
        /\ StmtFits("rule", "create", rules_create, Claim("Taken"))
    BY ClientsAssumption
       DEF StatusesFit, StmtFits, RefusalsFit, ReasonsFit, NeedsFit, Writes,
           rules_create, Handler, rules_handleServiceError,
           Claim, Stmt
  <2> QED
    BY <2>1, <2>2, OneStep DEF Lookups, Claim, Stmt
<1>2. HandlerFits("rule", "list", rules_list)
  <2>1. rules_list.steps = <<Read>>
    BY DEF rules_list, Handler, ListRules
  <2>2. /\ StatusesFit("rule", rules_list)
        /\ StmtFits("rule", "list", rules_list, Read)
    BY ClientsAssumption
       DEF StatusesFit, StmtFits, RefusalsFit, ReasonsFit, NeedsFit, Writes,
           rules_list, Handler, rules_handleServiceError,
           Read, Stmt
  <2> QED
    BY <2>1, <2>2, OneStep DEF Lookups, Read, Stmt
<1>3. HandlerFits("rule", "delete", rules_delete)
  <2>1. rules_delete.steps = <<Find, Remove(None)>>
    BY DEF rules_delete, Handler, DeleteRule
  <2>2. /\ StatusesFit("rule", rules_delete)
        /\ StmtFits("rule", "delete", rules_delete, Find)
        /\ StmtFits("rule", "delete", rules_delete, Remove(None))
    BY ClientsAssumption
       DEF StatusesFit, StmtFits, RefusalsFit, ReasonsFit, NeedsFit, Writes,
           rules_delete, Handler, rules_handleServiceError,
           Find, Remove, Stmt
  <2> QED
    BY <2>1, <2>2, TwoSteps
       DEF AfterWrite, Lookups, Writes, Find, Remove, Stmt
<1>4. \A o \in DOMAIN Routes["rule"] :
        (o = "create" /\ Routes["rule"][o] = rules_create) \/
        (o = "list" /\ Routes["rule"][o] = rules_list) \/
        (o = "delete" /\ Routes["rule"][o] = rules_delete)
  BY DEF Routes
<1> QED
  BY <1>1, <1>2, <1>3, <1>4

(* The handlers of reports.                                                *)
LEMMA ReportHandlersFit ==
  \A o \in DOMAIN Routes["report"] :
    HandlerFits("report", o, Routes["report"][o])
<1>1. HandlerFits("report", "monthly", reports_monthly)
  <2>1. reports_monthly.steps = <<Read, Read, Read>>
    BY DEF reports_monthly, Handler, GetMonthlySummary
  <2>2. /\ StatusesFit("report", reports_monthly)
        /\ StmtFits("report", "monthly", reports_monthly, Read)
    BY ClientsAssumption
       DEF StatusesFit, StmtFits, RefusalsFit, ReasonsFit, NeedsFit, Writes,
           reports_monthly, Handler, NoErrors, Read, Stmt
  <2> QED
    BY <2>1, <2>2, ThreeSteps
       DEF AfterWrite, Lookups, Writes, Read, Stmt
<1>2. HandlerFits("report", "trends", reports_trends)
  <2>1. reports_trends.steps = <<Read>>
    BY DEF reports_trends, Handler, GetTrend
  <2>2. /\ StatusesFit("report", reports_trends)
        /\ StmtFits("report", "trends", reports_trends, Read)
    BY ClientsAssumption
       DEF StatusesFit, StmtFits, RefusalsFit, ReasonsFit, NeedsFit, Writes,
           reports_trends, Handler, NoErrors, Read, Stmt
  <2> QED
    BY <2>1, <2>2, OneStep DEF Lookups, Read, Stmt
<1>3. HandlerFits("report", "export", reports_export)
  <2>1. reports_export.steps = <<Read>>
    BY DEF reports_export, Handler, GetExportRows
  <2>2. /\ StatusesFit("report", reports_export)
        /\ StmtFits("report", "export", reports_export, Read)
    BY ClientsAssumption
       DEF StatusesFit, StmtFits, RefusalsFit, ReasonsFit, NeedsFit, Writes,
           reports_export, Handler, NoErrors, Read, Stmt
  <2> QED
    BY <2>1, <2>2, OneStep DEF Lookups, Read, Stmt
<1>4. \A o \in DOMAIN Routes["report"] :
        (o = "monthly" /\ Routes["report"][o] = reports_monthly) \/
        (o = "trends" /\ Routes["report"][o] = reports_trends) \/
        (o = "export" /\ Routes["report"][o] = reports_export)
  BY DEF Routes
<1> QED
  BY <1>1, <1>2, <1>3, <1>4

(* The handlers of users.                                                  *)
LEMMA UserHandlersFit ==
  \A o \in DOMAIN Routes["user"] :
    HandlerFits("user", o, Routes["user"][o])
<1>1. HandlerFits("user", "create", auth_register)
  <2>1. auth_register.steps =
          <<Stmt("absent", "Taken", "Failed"), Claim("Failed")>>
    BY DEF auth_register, Handler, Register
  <2>2. /\ StatusesFit("user", auth_register)
        /\ StmtFits("user", "create", auth_register,
                    Stmt("absent", "Taken", "Failed"))
        /\ StmtFits("user", "create", auth_register, Claim("Failed"))
    BY ClientsAssumption
       DEF StatusesFit, StmtFits, RefusalsFit, ReasonsFit, NeedsFit, Writes,
           auth_register, Handler,
           Stmt, Claim
  <2> QED
    BY <2>1, <2>2, TwoSteps
       DEF AfterWrite, Lookups, Writes, Stmt, Claim
<1>2. HandlerFits("user", "login", auth_login)
  <2>1. auth_login.steps =
          <<Judged(Stmt("find", "Credentials", "Credentials"),
                   {"Credentials", "Inactive"}),
            Stmt("store", None, "Failed")>>
    BY DEF auth_login, Handler, Login
  <2>2. /\ StatusesFit("user", auth_login)
        /\ StmtFits("user", "login", auth_login,
                    Judged(Stmt("find", "Credentials", "Credentials"),
                       {"Credentials", "Inactive"}))
        /\ StmtFits("user", "login", auth_login,
                    Stmt("store", None, "Failed"))
    BY ClientsAssumption
       DEF StatusesFit, StmtFits, RefusalsFit, ReasonsFit, NeedsFit, Writes,
           auth_login, Handler,
           Judged, Stmt
  <2> QED
    BY <2>1, <2>2, TwoSteps
       DEF AfterWrite, Lookups, Writes, Judged, Stmt
<1>3. \A o \in DOMAIN Routes["user"] :
        (o = "create" /\ Routes["user"][o] = auth_register) \/
        (o = "login" /\ Routes["user"][o] = auth_login)
  BY DEF Routes
<1> QED
  BY <1>1, <1>2, <1>3

(* The handlers of sessions.                                               *)
LEMMA SessionHandlersFit ==
  \A o \in DOMAIN Routes["session"] :
    HandlerFits("session", o, Routes["session"][o])
<1>1. HandlerFits("session", "refresh", auth_refresh)
  <2>1. auth_refresh.steps =
          <<Stmt("find", "Token", "Token"), Stmt("stands", "Token", "Token")>>
    BY DEF auth_refresh, Handler, Refresh
  <2>2. /\ StatusesFit("session", auth_refresh)
        /\ StmtFits("session", "refresh", auth_refresh,
                    Stmt("find", "Token", "Token"))
        /\ StmtFits("session", "refresh", auth_refresh,
                    Stmt("stands", "Token", "Token"))
    BY ClientsAssumption
       DEF StatusesFit, StmtFits, RefusalsFit, ReasonsFit, NeedsFit, Writes,
           auth_refresh, Handler,
           Stmt
  <2> QED
    BY <2>1, <2>2, TwoSteps
       DEF AfterWrite, Lookups, Writes, Stmt
<1>2. HandlerFits("session", "logout", auth_logout)
  <2>1. auth_logout.steps =
          <<Stmt("blacklist", None, None), Stmt("remove", None, None)>>
    BY DEF auth_logout, Handler, Logout
  <2>2. /\ StatusesFit("session", auth_logout)
        /\ StmtFits("session", "logout", auth_logout,
                    Stmt("blacklist", None, None))
        /\ StmtFits("session", "logout", auth_logout,
                    Stmt("remove", None, None))
    BY ClientsAssumption
       DEF StatusesFit, StmtFits, RefusalsFit, ReasonsFit, NeedsFit, Writes,
           auth_logout, Handler, NoErrors, Stmt
  <2> QED
    BY <2>1, <2>2, TwoSteps
       DEF AfterWrite, Lookups, Writes, Stmt
<1>3. \A o \in DOMAIN Routes["session"] :
        (o = "refresh" /\ Routes["session"][o] = auth_refresh) \/
        (o = "logout" /\ Routes["session"][o] = auth_logout)
  BY DEF Routes
<1> QED
  BY <1>1, <1>2, <1>3

(* Every route.                                                            *)
LEMMA RoutesFit ==
  ASSUME NEW k \in DOMAIN Routes, NEW o \in DOMAIN Routes[k]
  PROVE  HandlerFits(k, o, Routes[k][o])
<1>1. k \in {"account", "transaction", "category", "budget", "alert",
             "rule", "report", "user", "session"}
  BY DEF Routes
<1> QED
  BY <1>1, AccountHandlersFit, TransactionHandlersFit, CategoryHandlersFit,
     BudgetHandlersFit, AlertHandlersFit, RuleHandlersFit,
     ReportHandlersFit, UserHandlersFit, SessionHandlersFit

-----------------------------------------------------------------------------
(* What is so of a request while it is served, and when it is answered:    *)
(* k is the kind of its row, h its handler, is whether the row is there    *)
(* and stands whether the row it depends on stands.                        *)

(* A statement that the request is past.                                   *)
Passed(r, s) ==
    /\ s.does \in Writes =>
         \/ r.did
         \/ s.does = "remove" /\ s.miss = None /\ "gone" \in r.saw
         \/ s.fail = None /\ r.failed
    /\ s.does = "find" => "there" \in r.saw
    /\ s.does = "stands" => "other" \in r.saw

Underway(h, is, stands, r) ==
    /\ r.at \in 1 .. Len(h.steps)
    /\ Now(is, stands) \subseteq r.saw
    /\ \A n \in 1 .. r.at - 1 : Passed(r, h.steps[n])
    /\ r.did => \E n \in 1 .. r.at - 1 : h.steps[n].does \in Writes
    /\ ~r.did => r.made < r.tries

Success(k, h, r) ==
    r.out \in {200, 201} =>
        IF \E n \in 1 .. Len(h.steps) : h.steps[n].does \in Writes
        THEN \/ r.did
             \/ /\ k \in {"category", "rule", "session"}
                /\ r.op \in {"delete", "logout"}
                /\ "gone" \in r.saw
             \/ r.op = "logout" /\ r.failed
        ELSE /\ r.op \in {"get", "summary", "login", "refresh"}
                  => "there" \in r.saw
             /\ r.op = "refresh" => "other" \in r.saw

Refusal(k, r) ==
    r.out \in 400 .. 499 /\ r.did =>
        /\ r.op = "update" /\ r.out = 404
        /\ k \in {"account", "transaction", "budget"}
        /\ "gone" \in r.saw

Reason(k, r) ==
    /\ r.out = 404 =>
         CASE k = "transaction" /\ r.op = "create" -> "clear" \in r.saw
           [] k = "category" -> "gone" \in r.saw \/ r.failed
           [] OTHER -> "gone" \in r.saw
    /\ r.out = 409 =>
         (IF k = "account" THEN "other" ELSE "there") \in r.saw
    /\ r.out = 401 /\ r.op = "refresh" =>
         r.saw \intersect {"gone", "clear"} # {} \/ r.failed
    /\ r.out = 200 /\ r.empty => "clear" \in r.saw \/ r.failed

Failure(k, r) ==
    r.out = 500 /\ ~r.failed =>
        \/ k = "transaction" /\ "gone" \in r.saw
        \/ k = "user" /\ "there" \in r.saw
        \/ k = "rule" /\ "clear" \in r.saw

Answer(k, h, r) ==
    Success(k, h, r) /\ Refusal(k, r) /\ Reason(k, r) /\ Failure(k, r)

(* As long as nobody reverses it, what is deleted is gone and a rule or a  *)
(* user that was made is there, which keeps a second try from doing it     *)
(* again.                                                                  *)
Effect(k, is, r) ==
    r.made > 0 /\ ~r.undone =>
        /\ r.op \in {"delete", "logout"} => ~is
        /\ r.op = "create" /\ k \in {"rule", "user"} => is

Doubled(k, r) ==
    r.made > 1 =>
        \/ r.op \in {"update", "updateAll"}
        \/ r.op = "create" /\ k \notin {"rule", "user"}
        \/ r.undone

ReqInv(k, is, stands, r) ==
    /\ r \in Request
    /\ r.made <= r.tries
    /\ r.tries > 0 => r.op \in DOMAIN Routes[k]
    /\ r.at = 0 => r.out = 0 /\ ~r.did
    /\ r.at > 0 => r.tries > 0
    /\ r.at > 0 /\ r.out = 0 => Underway(Routes[k][r.op], is, stands, r)
    /\ r.out # 0 => Answer(k, Routes[k][r.op], r)
    /\ Effect(k, is, r)
    /\ Doubled(k, r)

-----------------------------------------------------------------------------
(* One statement.                                                          *)

FitsIn(k, is, stands, does) ==
    CASE does \in {"find", "change", "remove"} -> is
      [] does = "absent" -> ~is
      [] does = "claim" -> ~is /\ (k = "rule" => stands)
      [] does = "unused" -> ~stands
      [] does = "stands" -> stands
      [] OTHER -> TRUE

MisfitIn(is, s) == IF s.does = "claim" /\ ~is THEN "Failed" ELSE s.miss

(* The three ways a statement ends: done or refused, without its row, in   *)
(* failure.                                                                *)
DoneOr(k, is, stands, s, error, did, failed) ==
    /\ FitsIn(k, is, stands, s.does)
    /\ error \in {None} \union s.may
    /\ did = (s.does \in Writes)
    /\ ~failed

Missed(k, is, stands, s, error, did, failed) ==
    /\ ~FitsIn(k, is, stands, s.does)
    /\ error = MisfitIn(is, s)
    /\ ~did /\ ~failed

Fails(k, is, stands, s, error, did, failed) ==
    /\ error = s.fail
    /\ did => FitsIn(k, is, stands, s.does) /\ s.does \in Writes
    /\ failed

Outcome(k, is, stands, s, error, did, failed) ==
    \/ DoneOr(k, is, stands, s, error, did, failed)
    \/ Missed(k, is, stands, s, error, did, failed)
    \/ Fails(k, is, stands, s, error, did, failed)

(* What a request that is past its statement knows.                        *)
LEMMA PassedNow ==
  ASSUME NEW k, NEW o, NEW h, NEW s, StmtFits(k, o, h, s), StatusesFit(k, h),
         NEW is \in BOOLEAN, NEW stands \in BOOLEAN,
         NEW did \in BOOLEAN, NEW failed \in BOOLEAN,
         Outcome(k, is, stands, s, None, did, failed),
         NEW q, q.did \in BOOLEAN, q.failed \in BOOLEAN,
         did => q.did, failed => q.failed, Now(is, stands) \subseteq q.saw
  PROVE  Passed(q, s)
<1> USE ClientsAssumption
<1>1. CASE DoneOr(k, is, stands, s, None, did, failed)
  BY <1>1 DEF DoneOr, FitsIn, Passed, Now, Writes
<1>2. CASE Missed(k, is, stands, s, None, did, failed)
  <2>1. s.miss = None /\ ~FitsIn(k, is, stands, s.does)
    BY <1>2 DEF Missed, MisfitIn
  <2>2. s.does \notin {"find", "stands", "change", "claim"}
    BY <2>1 DEF StmtFits, NeedsFit
  <2> QED
    BY <2>1, <2>2 DEF FitsIn, Passed, Now, Writes
<1>3. CASE Fails(k, is, stands, s, None, did, failed)
  BY <1>3 DEF Fails, Passed, StmtFits, NeedsFit
<1> QED
  BY <1>1, <1>2, <1>3 DEF Outcome

StatusIn(h, error) ==
    IF error \in DOMAIN h.errors THEN h.errors[error] ELSE 500

(* The row, once a statement has done what it does.                        *)
RowAfter(is, does, did) ==
    CASE did /\ does \in {"save", "claim"} -> TRUE
      [] did /\ does = "remove" -> FALSE
      [] OTHER -> is

(* The request r, once its statement s has ended, is q.                    *)
EndsAs(h, s, is, stands, r, error, did, failed, q) ==
    /\ q.op = r.op /\ q.tries = r.tries /\ q.undone = r.undone
    /\ q.at = IF error = None /\ r.at < Len(h.steps) THEN r.at + 1 ELSE r.at
    /\ q.out = IF error # None THEN StatusIn(h, error)
               ELSE IF r.at < Len(h.steps) THEN 0 ELSE h.done
    /\ q.did <=> r.did \/ did
    /\ q.failed <=> r.failed \/ failed
    /\ q.made = IF did THEN r.made + 1 ELSE r.made
    /\ q.empty => s.does = "stats" /\ (failed \/ ~stands)
    /\ q.saw = IF q.out = 0
               THEN r.saw \union Now(RowAfter(is, s.does, did), stands)
               ELSE r.saw

(* The request r, under way in the handler h, has its statement end, and   *)
(* is q then.                                                              *)
Ending(k, h, is, stands, r, error, did, failed, q) ==
    /\ is \in BOOLEAN /\ stands \in BOOLEAN
    /\ did \in BOOLEAN /\ failed \in BOOLEAN
    /\ r \in Request /\ q \in Request
    /\ HandlerFits(k, r.op, h)
    /\ Underway(h, is, stands, r)
    /\ Outcome(k, is, stands, h.steps[r.at], error, did, failed)
    /\ EndsAs(h, h.steps[r.at], is, stands, r, error, did, failed, q)

(* A statement that took effect is a write, and the first of its request.  *)
LEMMA FirstWrite ==
  ASSUME NEW k, NEW h, NEW is \in BOOLEAN, NEW stands \in BOOLEAN,
         NEW r \in Request, HandlerFits(k, r.op, h),
         Underway(h, is, stands, r),
         NEW error, NEW did \in BOOLEAN, NEW failed \in BOOLEAN,
         Outcome(k, is, stands, h.steps[r.at], error, did, failed), did
  PROVE  /\ h.steps[r.at].does \in Writes
         /\ FitsIn(k, is, stands, h.steps[r.at].does)
         /\ ~r.did /\ r.made < r.tries
<1>1. /\ h.steps[r.at].does \in Writes
      /\ FitsIn(k, is, stands, h.steps[r.at].does)
  BY DEF Outcome, DoneOr, Missed, Fails
<1>2. ~r.did
  <2>1. ASSUME NEW n \in 1 .. r.at - 1, h.steps[n].does \in Writes
        PROVE  FALSE
    <3>1. AfterWrite(k, r.op, h.steps[r.at])
      BY <2>1 DEF HandlerFits, Underway
    <3> QED
      BY <1>1, <3>1 DEF AfterWrite, Writes
  <2> QED
    BY <2>1 DEF Underway
<1> QED
  BY <1>1, <1>2 DEF Underway

(* The next statement.                                                     *)
LEMMA GoesOn ==
  ASSUME NEW k, NEW h, NEW is, NEW stands, NEW r, NEW q,
         NEW did, NEW failed,
         Ending(k, h, is, stands, r, None, did, failed, q),
         r.at < Len(h.steps)
  PROVE  Underway(h, RowAfter(is, h.steps[r.at].does, did), stands, q)
<1> /\ is \in BOOLEAN /\ stands \in BOOLEAN
    /\ did \in BOOLEAN /\ failed \in BOOLEAN
    /\ r \in Request /\ q \in Request
    /\ HandlerFits(k, r.op, h)
    /\ Underway(h, is, stands, r)
    /\ Outcome(k, is, stands, h.steps[r.at], None, did, failed)
    /\ EndsAs(h, h.steps[r.at], is, stands, r, None, did, failed, q)
  BY DEF Ending
<1> DEFINE s == h.steps[r.at]
<1>0. /\ r.at \in Nat /\ r.made \in Nat /\ r.did \in BOOLEAN
      /\ r.failed \in BOOLEAN /\ q.did \in BOOLEAN /\ q.failed \in BOOLEAN
      /\ q.made \in Nat /\ r.tries \in Nat /\ Len(h.steps) \in Nat
  BY ClientsAssumption DEF Request, HandlerFits
<1>1. /\ q.at = r.at + 1 /\ q.out = 0 /\ q.tries = r.tries
      /\ q.saw = r.saw \union Now(RowAfter(is, s.does, did), stands)
      /\ q.did <=> r.did \/ did
      /\ q.failed <=> r.failed \/ failed
      /\ q.made = IF did THEN r.made + 1 ELSE r.made
  BY DEF EndsAs
<1>2. Passed(q, s)
  <2>1. StmtFits(k, r.op, h, s) /\ StatusesFit(k, h)
    BY DEF HandlerFits, Underway
  <2>2. Now(is, stands) \subseteq q.saw
    BY <1>1 DEF Underway
  <2> QED
    BY <1>0, <1>1, <2>1, <2>2, PassedNow
<1>3. ASSUME NEW n \in 1 .. q.at - 1
      PROVE  Passed(q, h.steps[n])
  <2>1. CASE n = r.at
    BY <1>2, <2>1
  <2>2. CASE n # r.at
    <3>1. Passed(r, h.steps[n])
      BY <1>0, <1>1, <2>2 DEF Underway
    <3> QED
      BY <1>0, <1>1, <3>1 DEF Passed
  <2> QED
    BY <2>1, <2>2
<1>4. q.did => \E n \in 1 .. q.at - 1 : h.steps[n].does \in Writes
  <2>1. CASE did
    <3>1. h.steps[r.at].does \in Writes
      BY <2>1, FirstWrite
    <3>2. r.at \in 1 .. q.at - 1
      BY <1>0, <1>1 DEF Underway
    <3> QED
      BY <3>1, <3>2
  <2>2. CASE ~did
    BY <1>0, <1>1, <2>2 DEF Underway
  <2> QED
    BY <2>1, <2>2
<1>5. ~q.did => q.made < q.tries
  BY <1>0, <1>1 DEF Underway
<1>6. q.at \in 1 .. Len(h.steps)
  BY <1>0, <1>1
<1>7. Now(RowAfter(is, s.does, did), stands) \subseteq q.saw
  BY <1>1
<1> QED
  BY <1>3, <1>4, <1>5, <1>6, <1>7 DEF Underway

(* The last statement.                                                     *)
LEMMA IsDone ==
  ASSUME NEW k, NEW h, NEW is, NEW stands, NEW r, NEW q,
         NEW did, NEW failed,
         Ending(k, h, is, stands, r, None, did, failed, q),
         ~(r.at < Len(h.steps))
  PROVE  Answer(k, h, q)
<1> /\ is \in BOOLEAN /\ stands \in BOOLEAN
    /\ did \in BOOLEAN /\ failed \in BOOLEAN
    /\ r \in Request /\ q \in Request
    /\ HandlerFits(k, r.op, h)
    /\ Underway(h, is, stands, r)
    /\ Outcome(k, is, stands, h.steps[r.at], None, did, failed)
    /\ EndsAs(h, h.steps[r.at], is, stands, r, None, did, failed, q)
  BY DEF Ending
<1> DEFINE s == h.steps[r.at]
<1>0. /\ r.at \in Nat /\ r.did \in BOOLEAN
      /\ r.failed \in BOOLEAN /\ q.did \in BOOLEAN /\ q.failed \in BOOLEAN
      /\ Len(h.steps) \in Nat \ {0} /\ h.done \in {200, 201}
      /\ r.at = Len(h.steps)
  BY DEF Request, HandlerFits, StatusesFit, Underway
<1>1. /\ q.out = h.done /\ q.op = r.op
      /\ q.saw = r.saw
      /\ q.did <=> r.did \/ did
      /\ q.failed <=> r.failed \/ failed
      /\ q.empty => s.does = "stats" /\ (failed \/ ~stands)
  BY <1>0 DEF EndsAs
<1>2. Passed(q, s)
  <2>1. StmtFits(k, r.op, h, s) /\ StatusesFit(k, h)
    BY DEF HandlerFits, Underway
  <2>2. Now(is, stands) \subseteq q.saw
    BY <1>1 DEF Underway
  <2> QED
    BY <1>0, <1>1, <2>1, <2>2, PassedNow
<1>3. ASSUME NEW n \in 1 .. Len(h.steps)
      PROVE  Passed(q, h.steps[n])
  <2>1. CASE n = r.at
    BY <1>2, <2>1
  <2>2. CASE n # r.at
    <3>1. Passed(r, h.steps[n])
      BY <1>0, <1>1, <2>2 DEF Underway
    <3> QED
      BY <1>0, <1>1, <3>1 DEF Passed
  <2> QED
    BY <2>1, <2>2
<1>4. Success(k, h, q)
  <2>1. CASE \E n \in 1 .. Len(h.steps) : h.steps[n].does \in Writes
    <3>1. PICK n \in 1 .. Len(h.steps) : h.steps[n].does \in Writes
      BY <2>1
    <3>2. /\ Passed(q, h.steps[n])
          /\ NeedsFit(k, q.op, h.steps[n])
      BY <1>1, <1>3 DEF HandlerFits, StmtFits
    <3>3. \/ q.did
          \/ /\ h.steps[n].does = "remove" /\ h.steps[n].miss = None
             /\ "gone" \in q.saw
          \/ h.steps[n].fail = None /\ q.failed
      BY <3>1, <3>2 DEF Passed
    <3>4. h.steps[n].fail = None => q.op = "logout"
      BY <3>1, <3>2, ClientsAssumption DEF NeedsFit
    <3> QED
      BY <2>1, <3>2, <3>3, <3>4 DEF Success, NeedsFit
  <2>2. CASE ~\E n \in 1 .. Len(h.steps) : h.steps[n].does \in Writes
    <3>1. q.op \in Lookups => "there" \in q.saw
      BY <1>0, <1>1, <1>3 DEF HandlerFits, Passed
    <3>2. q.op = "refresh" => "other" \in q.saw
      BY <1>0, <1>1, <1>3 DEF HandlerFits, Passed
    <3> QED
      BY <2>2, <3>1, <3>2 DEF Success, Lookups
  <2> QED
    BY <2>1, <2>2
<1>5. q.empty => "clear" \in q.saw \/ q.failed
  BY <1>0, <1>1 DEF Now, Underway
<1>6. q.out = 200 \/ q.out = 201
  BY <1>0, <1>1
<1>7. Refusal(k, q) /\ Failure(k, q)
  <2>1. 200 \notin 400 .. 499 /\ 201 \notin 400 .. 499
    OBVIOUS
  <2>2. q.out # 500
    BY <1>6
  <2> QED
    BY <1>6, <2>1, <2>2, Zenon DEF Refusal, Failure
<1>8. Reason(k, q)
  <2>1. q.out # 404 /\ q.out # 409 /\ q.out # 401
    BY <1>6
  <2> QED
    BY <1>5, <2>1 DEF Reason
<1> QED
  BY <1>4, <1>7, <1>8 DEF Answer

(* An error.                                                               *)
LEMMA IsRefused ==
  ASSUME NEW k, NEW h, NEW is, NEW stands, NEW r, NEW q,
         NEW error, NEW did, NEW failed,
         Ending(k, h, is, stands, r, error, did, failed, q), error # None
  PROVE  Answer(k, h, q)
<1> /\ is \in BOOLEAN /\ stands \in BOOLEAN
    /\ did \in BOOLEAN /\ failed \in BOOLEAN
    /\ r \in Request /\ q \in Request
    /\ HandlerFits(k, r.op, h)
    /\ Underway(h, is, stands, r)
    /\ Outcome(k, is, stands, h.steps[r.at], error, did, failed)
    /\ EndsAs(h, h.steps[r.at], is, stands, r, error, did, failed, q)
  BY DEF Ending
<1> DEFINE s == h.steps[r.at]
<1>0. /\ r.at \in Nat /\ r.did \in BOOLEAN
      /\ r.failed \in BOOLEAN /\ q.did \in BOOLEAN /\ q.failed \in BOOLEAN
      /\ r.at \in 1 .. Len(h.steps)
      /\ StatusesFit(k, h) /\ RefusalsFit(r.op, h, s)
      /\ ReasonsFit(k, r.op, h, s) /\ NeedsFit(k, r.op, s)
      /\ Now(is, stands) \subseteq r.saw
  BY DEF Request, HandlerFits, Underway, StmtFits
<1> DEFINE e == error \in DOMAIN h.errors
<1>1. /\ q.out = StatusIn(h, error) /\ q.op = r.op
      /\ q.did <=> r.did \/ did
      /\ q.failed <=> r.failed \/ failed
  BY DEF EndsAs
<1>2. /\ q.out \in {400, 401, 403, 404, 409, 500}
      /\ q.out = 404 => error = "NotFound"
      /\ q.out = 409 => error = IF k = "account" THEN "InUse" ELSE "Taken"
      /\ q.out = 500 => error \notin DOMAIN h.errors
      /\ error = "NotFound" => q.out \in {404, 500}
      /\ error = "Failed" => q.out = 500
  BY <1>0, <1>1 DEF StatusesFit, StatusIn
<1>3. q.saw = r.saw
  BY <1>2 DEF EndsAs
<1>4. Success(k, h, q)
  BY <1>2 DEF Success
<1>5. CASE DoneOr(k, is, stands, s, error, did, failed)
  <2>1. /\ error \in s.may /\ error \in DOMAIN h.errors
        /\ error \notin {"NotFound", "InUse", "Taken"}
        /\ s.does \notin Writes /\ ~did /\ q.op # "refresh"
    BY <1>0, <1>1, <1>5 DEF DoneOr, RefusalsFit
  <2>2. q.out \notin {404, 409, 500}
    BY <1>2, <2>1
  <2>3. ~q.did
    <3>1. ASSUME NEW n \in 1 .. r.at - 1, h.steps[n].does \in Writes
          PROVE  FALSE
      <4>1. AfterWrite(k, r.op, s)
        BY <1>0, <3>1 DEF HandlerFits
      <4> QED
        BY <2>1, <4>1 DEF AfterWrite
    <3> QED
      BY <1>0, <1>1, <2>1, <3>1 DEF Underway
  <2>4. Reason(k, q)
    BY <1>2, <2>1, <2>2 DEF Reason
  <2> QED
    BY <1>4, <2>2, <2>3, <2>4 DEF Answer, Refusal, Failure
<1>6. CASE Missed(k, is, stands, s, error, did, failed)
  <2>0. /\ ~FitsIn(k, is, stands, s.does) /\ error = MisfitIn(is, s)
        /\ ~did /\ ~failed
    BY <1>6 DEF Missed
  <2>1. s.does = "claim" /\ ~is => k = "rule" /\ ~stands /\ q.out = 500
    BY <1>2, <2>0 DEF FitsIn, MisfitIn
  <2>2. ~(s.does = "claim" /\ ~is) => error = s.miss
    BY <2>0 DEF MisfitIn
  <2>3. CASE s.does = "claim" /\ ~is
    <3>1. "clear" \in q.saw
      BY <1>0, <1>3, <2>1, <2>3 DEF Now
    <3>2. Reason(k, q) /\ Refusal(k, q)
      BY <2>1, <2>3 DEF Reason, Refusal
    <3>3. Failure(k, q)
      BY <3>1, <2>1, <2>3 DEF Failure
    <3> QED
      BY <1>4, <3>2, <3>3 DEF Answer
  <2>4. CASE ~(s.does = "claim" /\ ~is)
    <3>1. error = s.miss
      BY <2>2, <2>4
    <3>2. /\ s.does \in {"find", "change", "remove"} => "gone" \in q.saw
          /\ s.does = "stands" => "clear" \in q.saw
          /\ s.does = "unused" => "other" \in q.saw
          /\ s.does = "absent" => "there" \in q.saw
          /\ s.does = "claim" => "there" \in q.saw
      BY <1>0, <1>3, <2>0, <2>4 DEF FitsIn, Now
    <3>3. Refusal(k, q)
      <4> SUFFICES ASSUME q.did, q.out \in 400 .. 499
                   PROVE  /\ q.op = "update" /\ q.out = 404
                          /\ k \in {"account", "transaction", "budget"}
                          /\ "gone" \in q.saw
        BY DEF Refusal
      <4>1. r.did
        BY <1>0, <1>1, <2>0
      <4>2. PICK n \in 1 .. r.at - 1 : h.steps[n].does \in Writes
        BY <4>1 DEF Underway
      <4>3. AfterWrite(k, r.op, s)
        BY <1>0, <4>2 DEF HandlerFits
      <4>4. s.does # "read"
        BY <2>0 DEF FitsIn
      <4>5. error = "NotFound" /\ s.does = "find"
        BY <3>1, <4>3, <4>4 DEF AfterWrite
      <4>6. q.out = 404
        BY <1>2, <4>5
      <4> QED
        BY <1>1, <3>2, <4>3, <4>4, <4>5, <4>6 DEF AfterWrite
    <3>4. Failure(k, q)
      BY <1>0, <1>2, <3>1, <3>2 DEF Failure, ReasonsFit
    <3>5. Reason(k, q)
      <4>1. q.out = 404 =>
              CASE k = "transaction" /\ q.op = "create" -> "clear" \in q.saw
                [] k = "category" -> "gone" \in q.saw \/ q.failed
                [] OTHER -> "gone" \in q.saw
        BY <1>0, <1>1, <1>2, <3>1, <3>2 DEF ReasonsFit
      <4>2. q.out = 409 =>
              (IF k = "account" THEN "other" ELSE "there") \in q.saw
        BY <1>0, <1>2, <3>1, <3>2 DEF ReasonsFit
      <4>3. q.op = "refresh" => "gone" \in q.saw \/ "clear" \in q.saw
        BY <1>0, <1>1, <3>2 DEF NeedsFit
      <4> QED
        BY <1>2, <4>1, <4>2, <4>3 DEF Reason
    <3> QED
      BY <1>4, <3>3, <3>4, <3>5 DEF Answer
  <2> QED
    BY <2>3, <2>4
<1>7. CASE Fails(k, is, stands, s, error, did, failed)
  <2>1. error = s.fail /\ failed /\ q.failed
    BY <1>0, <1>1, <1>7 DEF Fails
  <2>2. Failure(k, q)
    BY <2>1 DEF Failure
  <2>3. q.did => q.out = 500
    <3>1. CASE did
      <4>1. error = "Failed"
        BY <1>0, <1>7, <2>1, <3>1, ClientsAssumption DEF Fails, NeedsFit
      <4> QED
        BY <1>2, <4>1
    <3>2. CASE r.did
      <4>1. PICK n \in 1 .. r.at - 1 : h.steps[n].does \in Writes
        BY <3>2 DEF Underway
      <4>2. AfterWrite(k, r.op, s)
        BY <1>0, <4>1 DEF HandlerFits
      <4> QED
        BY <1>2, <2>1, <4>2 DEF AfterWrite
    <3> QED
      BY <1>0, <1>1, <3>1, <3>2
  <2>4. Refusal(k, q)
    BY <2>3 DEF Refusal
  <2>5. Reason(k, q)
    BY <1>0, <1>2, <2>1 DEF Reason, ReasonsFit
  <2> QED
    BY <1>4, <2>2, <2>4, <2>5 DEF Answer
<1> QED
  BY <1>5, <1>6, <1>7 DEF Outcome

(* What the tables of routes call an operation.                            *)
OpNames ==
    {"none", "create", "list", "get", "summary", "update", "updateAll",
     "delete", "login", "refresh", "logout", "monthly", "trends", "export"}

(* Every operation of a route is named.                                    *)
LEMMA OpsAreNamed ==
  ASSUME NEW k \in DOMAIN Routes, NEW o \in DOMAIN Routes[k]
  PROVE  o \in OpNames
<1>1. CASE k \in {"account", "transaction", "category", "budget", "alert"}
  BY <1>1 DEF Routes, OpNames
<1>2. CASE k \in {"rule", "report", "user", "session"}
  BY <1>2 DEF Routes, OpNames
<1> QED
  BY <1>1, <1>2 DEF Routes

(* The effect of a statement on its own request.                           *)
LEMMA EffectOfOwn ==
  ASSUME NEW k, NEW h, NEW is, NEW stands, NEW r, NEW q,
         NEW error, NEW did, NEW failed,
         Ending(k, h, is, stands, r, error, did, failed, q),
         r.made <= r.tries, Effect(k, is, r), Doubled(k, r)
  PROVE  /\ q.made <= q.tries
         /\ Effect(k, RowAfter(is, h.steps[r.at].does, did), q)
         /\ Doubled(k, q)
<1> /\ is \in BOOLEAN /\ stands \in BOOLEAN
    /\ did \in BOOLEAN /\ failed \in BOOLEAN
    /\ r \in Request /\ q \in Request
    /\ HandlerFits(k, r.op, h)
    /\ Underway(h, is, stands, r)
    /\ Outcome(k, is, stands, h.steps[r.at], error, did, failed)
    /\ EndsAs(h, h.steps[r.at], is, stands, r, error, did, failed, q)
  BY DEF Ending
<1> DEFINE s == h.steps[r.at]
<1>0. /\ r.made \in Nat /\ r.tries \in Nat
      /\ r.undone \in BOOLEAN /\ q.undone \in BOOLEAN
      /\ q.op = r.op /\ q.tries = r.tries /\ q.undone = r.undone
      /\ q.made = IF did THEN r.made + 1 ELSE r.made
      /\ NeedsFit(k, r.op, s)
  BY ClientsAssumption DEF Request, EndsAs, HandlerFits, Underway, StmtFits
<1>1. CASE ~did
  BY <1>0, <1>1 DEF RowAfter, Effect, Doubled
<1>2. CASE did
  <2>5. s.does \in Writes
    BY <1>2, FirstWrite
  <2>6. FitsIn(k, is, stands, s.does)
    BY <1>2, FirstWrite
  <2>7. r.made < r.tries
    BY <1>2, FirstWrite
  <2>1. /\ s.does \in Writes /\ FitsIn(k, is, stands, s.does)
        /\ r.made < r.tries
    BY <2>5, <2>6, <2>7
  <2>2. q.made <= q.tries
    BY <1>0, <1>2, <2>1
  <2>3. Effect(k, RowAfter(is, s.does, did), q)
    BY <1>0, <1>2, <2>1 DEF Effect, RowAfter, NeedsFit
  <2>4. Doubled(k, q)
    <3> SUFFICES ASSUME r.made > 0, ~r.undone
                 PROVE  \/ r.op \in {"update", "updateAll"}
                        \/ r.op = "create" /\ k \notin {"rule", "user"}
      BY <1>0, <1>2 DEF Doubled
    <3>1. r.op \in {"update", "updateAll", "create", "delete", "logout"}
      BY <1>0, <2>1 DEF NeedsFit
    <3>2. r.op \notin {"delete", "logout"}
      BY <1>0, <2>1 DEF Effect, NeedsFit, FitsIn
    <3>3. ~(r.op = "create" /\ k \in {"rule", "user"})
      BY <1>0, <2>1 DEF Effect, NeedsFit, FitsIn
    <3> QED
      BY <3>1, <3>2, <3>3
  <2> QED
    BY <2>2, <2>3, <2>4
<1> QED
  BY <1>1, <1>2

(* A statement ends: what is so of its request stays so.                   *)
OwnEnding(k, h, is, stands, r, error, did, failed, q) ==
    /\ k \in DOMAIN Routes /\ is \in BOOLEAN /\ stands \in BOOLEAN
    /\ ReqInv(k, is, stands, r) /\ r.at > 0 /\ r.out = 0
    /\ h = Routes[k][r.op]
    /\ did \in BOOLEAN /\ failed \in BOOLEAN
    /\ Outcome(k, is, stands, h.steps[r.at], error, did, failed)
    /\ q \in Request
    /\ EndsAs(h, h.steps[r.at], is, stands, r, error, did, failed, q)

(* A request whose statement ends keeps the invariant.                     *)
LEMMA OwnStep ==
  ASSUME NEW k, NEW h, NEW is, NEW stands, NEW r, NEW error,
         NEW did, NEW failed, NEW q,
         OwnEnding(k, h, is, stands, r, error, did, failed, q)
  PROVE  ReqInv(k, RowAfter(is, h.steps[r.at].does, did), stands, q)
<1> /\ k \in DOMAIN Routes /\ is \in BOOLEAN /\ stands \in BOOLEAN
    /\ ReqInv(k, is, stands, r) /\ r.at > 0 /\ r.out = 0
    /\ h = Routes[k][r.op]
    /\ did \in BOOLEAN /\ failed \in BOOLEAN
    /\ Outcome(k, is, stands, h.steps[r.at], error, did, failed)
    /\ q \in Request
    /\ EndsAs(h, h.steps[r.at], is, stands, r, error, did, failed, q)
  BY DEF OwnEnding
<1> DEFINE s == h.steps[r.at]
<1>1. /\ r \in Request /\ r.made <= r.tries /\ r.tries > 0
      /\ r.op \in DOMAIN Routes[k]
      /\ Underway(h, is, stands, r)
      /\ Effect(k, is, r) /\ Doubled(k, r)
  BY DEF ReqInv
<1>2. HandlerFits(k, r.op, h)
  BY <1>1, RoutesFit
<1>0. Ending(k, h, is, stands, r, error, did, failed, q)
  BY <1>1, <1>2 DEF Ending
<1>3. /\ q.made <= q.tries
      /\ Effect(k, RowAfter(is, s.does, did), q)
      /\ Doubled(k, q)
  BY <1>0, <1>1, EffectOfOwn
<1>4. q.op = r.op /\ q.tries = r.tries
  BY DEF EndsAs
<1>5. r.at \in Nat /\ Len(h.steps) \in Nat /\ q.at > 0 /\ q.at # 0
  BY <1>1, <1>2 DEF Request, HandlerFits, Underway, EndsAs
<1>6. CASE error = None /\ r.at < Len(h.steps)
  <2>1. q.out = 0
    BY <1>6 DEF EndsAs
  <2>2. Underway(h, RowAfter(is, s.does, did), stands, q)
    BY <1>0, <1>6, GoesOn
  <2> QED
    BY <1>1, <1>3, <1>4, <1>5, <2>1, <2>2 DEF ReqInv
<1>7. CASE ~(error = None /\ r.at < Len(h.steps))
  <2>1. q.out # 0
    <3>1. CASE error = None
      BY <1>2, <1>7, <3>1 DEF EndsAs, HandlerFits, StatusesFit
    <3>2. CASE error # None
      BY <1>2, <3>2 DEF EndsAs, StatusIn, HandlerFits, StatusesFit
    <3> QED
      BY <3>1, <3>2
  <2>2. Answer(k, h, q)
    <3>1. CASE error = None
      BY <1>0, <1>7, <3>1, IsDone
    <3>2. CASE error # None
      BY <1>0, <3>2, IsRefused
    <3> QED
      BY <3>1, <3>2
  <2> QED
    BY <1>1, <1>3, <1>4, <1>5, <2>1, <2>2 DEF ReqInv
<1> QED
  BY <1>6, <1>7

(* Somebody else's step: who is served sees the rows as they are now, and  *)
(* whose effect is reversed remembers it.                                  *)
SawThen(now, stands, r) ==
    IF r.at > 0 /\ r.out = 0 THEN r.saw \union Now(now, stands) ELSE r.saw

SeesAs(is, now, stands, r, q) ==
    /\ q.op = r.op /\ q.at = r.at /\ q.out = r.out /\ q.empty = r.empty
    /\ q.tries = r.tries /\ q.made = r.made /\ q.did = r.did
    /\ q.failed = r.failed
    /\ q.saw = SawThen(now, stands, r)
    /\ q.undone = (r.undone \/ (r.made > 0 /\ now # is))

(* So does one that only sees what the row has become.                     *)
LEMMA SeesFits ==
  ASSUME NEW k \in DOMAIN Routes, NEW is \in BOOLEAN, NEW stands \in BOOLEAN,
         NEW now \in BOOLEAN, NEW still \in BOOLEAN,
         NEW r, ReqInv(k, is, stands, r),
         NEW q \in Request, SeesAs(is, now, still, r, q)
  PROVE  ReqInv(k, now, still, q)
<1>1. r \in Request /\ r.undone \in BOOLEAN /\ q.undone \in BOOLEAN
  BY DEF ReqInv, Request
<1>2. /\ q.op = r.op /\ q.at = r.at /\ q.out = r.out /\ q.empty = r.empty
      /\ q.tries = r.tries /\ q.made = r.made /\ q.did = r.did
      /\ q.failed = r.failed
      /\ q.saw = IF r.at > 0 /\ r.out = 0
                 THEN r.saw \union Now(now, still) ELSE r.saw
      /\ q.undone = (r.undone \/ (r.made > 0 /\ now # is))
  BY DEF SeesAs, SawThen
<1>3. Effect(k, now, q) /\ Doubled(k, q)
  BY <1>1, <1>2 DEF ReqInv, Effect, Doubled
<1>4. q.at > 0 /\ q.out = 0 => Underway(Routes[k][q.op], now, still, q)
  <2> SUFFICES ASSUME r.at > 0, r.out = 0
               PROVE  Underway(Routes[k][q.op], now, still, q)
    BY <1>2
  <2>1. Underway(Routes[k][r.op], is, stands, r)
    BY DEF ReqInv
  <2> QED
    BY <1>2, <2>1 DEF Underway, Passed
<1>5. q.out # 0 => Answer(k, Routes[k][q.op], q)
  <2> SUFFICES ASSUME r.out # 0
               PROVE  Answer(k, Routes[k][q.op], q)
    BY <1>2
  <2>1. Answer(k, Routes[k][r.op], r)
    BY DEF ReqInv
  <2>2. q.saw = r.saw
    BY <1>2
  <2> QED
    BY <1>2, <2>1, <2>2 DEF Answer, Success, Refusal, Reason, Failure
<1>6. /\ q.made <= q.tries
      /\ q.tries > 0 => q.op \in DOMAIN Routes[k]
      /\ q.at = 0 => q.out = 0 /\ ~q.did
      /\ q.at > 0 => q.tries > 0
  BY <1>2 DEF ReqInv
<1> QED
  BY <1>3, <1>4, <1>5, <1>6 DEF ReqInv

-----------------------------------------------------------------------------
(* Records: a request with one field changed.                              *)

Outs == {0, 200, 201, 400, 401, 403, 404, 409, 500}

(* A request with another value of op.                                     *)
LEMMA With_op ==
  ASSUME NEW r \in Request, NEW v \in OpNames,
         NEW p, p = [r EXCEPT !.op = v]
  PROVE  /\ p \in Request
         /\ p.op = v /\ p.at = r.at /\ p.out = r.out /\ p.empty = r.empty
         /\ p.tries = r.tries /\ p.made = r.made /\ p.undone = r.undone
         /\ p.did = r.did /\ p.failed = r.failed /\ p.saw = r.saw
BY DEF Request, OpNames

(* A request with another value of at.                                     *)
LEMMA With_at ==
  ASSUME NEW r \in Request, NEW v \in Nat,
         NEW p, p = [r EXCEPT !.at = v]
  PROVE  /\ p \in Request
         /\ p.op = r.op /\ p.at = v /\ p.out = r.out /\ p.empty = r.empty
         /\ p.tries = r.tries /\ p.made = r.made /\ p.undone = r.undone
         /\ p.did = r.did /\ p.failed = r.failed /\ p.saw = r.saw
BY DEF Request

(* A request with another value of out.                                    *)
LEMMA With_out ==
  ASSUME NEW r \in Request, NEW v \in Outs,
         NEW p, p = [r EXCEPT !.out = v]
  PROVE  /\ p \in Request
         /\ p.op = r.op /\ p.at = r.at /\ p.out = v /\ p.empty = r.empty
         /\ p.tries = r.tries /\ p.made = r.made /\ p.undone = r.undone
         /\ p.did = r.did /\ p.failed = r.failed /\ p.saw = r.saw
BY DEF Request, Outs

(* A request with another value of tries.                                  *)
LEMMA With_tries ==
  ASSUME NEW r \in Request, NEW v \in 0 .. MaxTries,
         NEW p, p = [r EXCEPT !.tries = v]
  PROVE  /\ p \in Request
         /\ p.op = r.op /\ p.at = r.at /\ p.out = r.out /\ p.empty = r.empty
         /\ p.tries = v /\ p.made = r.made /\ p.undone = r.undone
         /\ p.did = r.did /\ p.failed = r.failed /\ p.saw = r.saw
BY DEF Request

(* A request with another value of did.                                    *)
LEMMA With_did ==
  ASSUME NEW r \in Request, NEW v \in BOOLEAN,
         NEW p, p = [r EXCEPT !.did = v]
  PROVE  /\ p \in Request
         /\ p.op = r.op /\ p.at = r.at /\ p.out = r.out /\ p.empty = r.empty
         /\ p.tries = r.tries /\ p.made = r.made /\ p.undone = r.undone
         /\ p.did = v /\ p.failed = r.failed /\ p.saw = r.saw
BY DEF Request

(* A request with another value of made.                                   *)
LEMMA With_made ==
  ASSUME NEW r \in Request, NEW v \in 0 .. MaxTries,
         NEW p, p = [r EXCEPT !.made = v]
  PROVE  /\ p \in Request
         /\ p.op = r.op /\ p.at = r.at /\ p.out = r.out /\ p.empty = r.empty
         /\ p.tries = r.tries /\ p.made = v /\ p.undone = r.undone
         /\ p.did = r.did /\ p.failed = r.failed /\ p.saw = r.saw
BY DEF Request

(* A request with another value of failed.                                 *)
LEMMA With_failed ==
  ASSUME NEW r \in Request, NEW v \in BOOLEAN,
         NEW p, p = [r EXCEPT !.failed = v]
  PROVE  /\ p \in Request
         /\ p.op = r.op /\ p.at = r.at /\ p.out = r.out /\ p.empty = r.empty
         /\ p.tries = r.tries /\ p.made = r.made /\ p.undone = r.undone
         /\ p.did = r.did /\ p.failed = v /\ p.saw = r.saw
BY DEF Request

(* A request with another value of empty.                                  *)
LEMMA With_empty ==
  ASSUME NEW r \in Request, NEW v \in BOOLEAN,
         NEW p, p = [r EXCEPT !.empty = v]
  PROVE  /\ p \in Request
         /\ p.op = r.op /\ p.at = r.at /\ p.out = r.out /\ p.empty = v
         /\ p.tries = r.tries /\ p.made = r.made /\ p.undone = r.undone
         /\ p.did = r.did /\ p.failed = r.failed /\ p.saw = r.saw
BY DEF Request

(* A request with another value of saw.                                    *)
LEMMA With_saw ==
  ASSUME NEW r \in Request, NEW v \in SUBSET Facts,
         NEW p, p = [r EXCEPT !.saw = v]
  PROVE  /\ p \in Request
         /\ p.op = r.op /\ p.at = r.at /\ p.out = r.out /\ p.empty = r.empty
         /\ p.tries = r.tries /\ p.made = r.made /\ p.undone = r.undone
         /\ p.did = r.did /\ p.failed = r.failed /\ p.saw = v
BY DEF Request

(* A request with another value of undone.                                 *)
LEMMA With_undone ==
  ASSUME NEW r \in Request, NEW v \in BOOLEAN,
         NEW p, p = [r EXCEPT !.undone = v]
  PROVE  /\ p \in Request
         /\ p.op = r.op /\ p.at = r.at /\ p.out = r.out /\ p.empty = r.empty
         /\ p.tries = r.tries /\ p.made = r.made /\ p.undone = v
         /\ p.did = r.did /\ p.failed = r.failed /\ p.saw = r.saw
BY DEF Request

(* What a statement leaves of the request, but for what is seen after it.  *)
FourOf(r, done, made, fails, empty) ==
    [r EXCEPT !.did = done, !.made = made, !.failed = fails, !.empty = empty]

(* Four fields of a request are set one after the other.                   *)
LEMMA WithFour ==
  ASSUME NEW r \in Request, NEW done \in BOOLEAN, NEW made \in 0 .. MaxTries,
         NEW fails \in BOOLEAN, NEW empty \in BOOLEAN
  PROVE  LET m == FourOf(r, done, made, fails, empty)
         IN /\ m \in Request
            /\ m.op = r.op /\ m.at = r.at /\ m.out = r.out
            /\ m.empty = empty /\ m.tries = r.tries /\ m.made = made
            /\ m.undone = r.undone /\ m.did = done /\ m.failed = fails
            /\ m.saw = r.saw
<1> DEFINE a == [r EXCEPT !.did = done]
           b == [a EXCEPT !.made = made]
           c == [b EXCEPT !.failed = fails]
           d == [c EXCEPT !.empty = empty]
<1>1. /\ a \in Request
      /\ a.op = r.op /\ a.at = r.at /\ a.out = r.out /\ a.empty = r.empty
      /\ a.tries = r.tries /\ a.made = r.made /\ a.undone = r.undone
      /\ a.did = done /\ a.failed = r.failed /\ a.saw = r.saw
  BY With_did
<1> HIDE DEF a
<1>2. /\ b \in Request
      /\ b.op = a.op /\ b.at = a.at /\ b.out = a.out /\ b.empty = a.empty
      /\ b.tries = a.tries /\ b.made = made /\ b.undone = a.undone
      /\ b.did = a.did /\ b.failed = a.failed /\ b.saw = a.saw
  BY <1>1, With_made
<1> HIDE DEF b
<1>3. /\ c \in Request
      /\ c.op = b.op /\ c.at = b.at /\ c.out = b.out /\ c.empty = b.empty
      /\ c.tries = b.tries /\ c.made = b.made /\ c.undone = b.undone
      /\ c.did = b.did /\ c.failed = fails /\ c.saw = b.saw
  BY <1>2, With_failed
<1> HIDE DEF c
<1>4. /\ d \in Request
      /\ d.op = c.op /\ d.at = c.at /\ d.out = c.out /\ d.empty = empty
      /\ d.tries = c.tries /\ d.made = c.made /\ d.undone = c.undone
      /\ d.did = c.did /\ d.failed = c.failed /\ d.saw = c.saw
  BY <1>3, With_empty
<1> HIDE DEF d
<1>5. /\ d \in Request
      /\ d.op = r.op /\ d.at = r.at /\ d.out = r.out /\ d.empty = empty
      /\ d.tries = r.tries /\ d.made = made /\ d.undone = r.undone
      /\ d.did = done /\ d.failed = fails /\ d.saw = r.saw
  BY <1>1, <1>2, <1>3, <1>4
<1> QED
  BY <1>5 DEF a, b, c, d, FourOf

MarkedOf(r, did, failed, empty) ==
    [r EXCEPT !.did = @ \/ did, !.made = IF did THEN @ + 1 ELSE @,
              !.failed = @ \/ failed, !.empty = empty]

MarkFits(r, did, failed, empty) ==
    /\ r \in Request /\ did \in BOOLEAN /\ failed \in BOOLEAN
    /\ empty \in BOOLEAN /\ (did => r.made < MaxTries)

MarkedAs(r, did, failed, empty, m) ==
    /\ m \in Request
    /\ m.op = r.op /\ m.at = r.at /\ m.out = r.out /\ m.tries = r.tries
    /\ m.undone = r.undone /\ m.saw = r.saw
    /\ m.did <=> r.did \/ did
    /\ m.failed <=> r.failed \/ failed
    /\ m.made = IF did THEN r.made + 1 ELSE r.made
    /\ m.empty <=> empty

(* A statement that has ended marks its request.                           *)
LEMMA Marked ==
  ASSUME NEW r, NEW did, NEW failed, NEW empty, MarkFits(r, did, failed, empty)
  PROVE  MarkedAs(r, did, failed, empty, MarkedOf(r, did, failed, empty))
<1> /\ r \in Request /\ did \in BOOLEAN /\ failed \in BOOLEAN
    /\ empty \in BOOLEAN /\ (did => r.made < MaxTries)
  BY DEF MarkFits
<1> DEFINE made == IF did THEN r.made + 1 ELSE r.made
           done == r.did \/ did
           fails == r.failed \/ failed
           m == FourOf(r, done, made, fails, empty)
<1>1. made \in 0 .. MaxTries /\ done \in BOOLEAN /\ fails \in BOOLEAN
  BY ClientsAssumption DEF Request
<1> HIDE DEF made, done, fails
<1>2. /\ m \in Request
      /\ m.op = r.op /\ m.at = r.at /\ m.out = r.out /\ m.empty = empty
      /\ m.tries = r.tries /\ m.made = made /\ m.undone = r.undone
      /\ m.did = done /\ m.failed = fails /\ m.saw = r.saw
  BY <1>1, WithFour
<1> HIDE DEF m
<1>3. m.did <=> r.did \/ did
  BY <1>2 DEF done
<1>4. m.failed <=> r.failed \/ failed
  BY <1>2 DEF fails
<1>5. m.made = IF did THEN r.made + 1 ELSE r.made
  BY <1>2 DEF made
<1>6. m.empty <=> empty
  BY <1>2
<1>7. /\ m \in Request
      /\ m.op = r.op /\ m.at = r.at /\ m.out = r.out /\ m.tries = r.tries
      /\ m.undone = r.undone /\ m.saw = r.saw
      /\ m.did <=> r.did \/ did
      /\ m.failed <=> r.failed \/ failed
      /\ m.made = IF did THEN r.made + 1 ELSE r.made
      /\ m.empty <=> empty
  BY <1>2, <1>3, <1>4, <1>5, <1>6
<1> QED
  BY <1>7 DEF m, made, done, fails, FourOf, MarkedOf, MarkedAs

(* What it has seen then.                                                  *)
SeenOf(r, is, stands, reversed) ==
    [IF r.at > 0 /\ r.out = 0
     THEN [r EXCEPT !.saw = @ \union Now(is, stands)] ELSE r
     EXCEPT !.undone = @ \/ reversed]

SeeFits(r, is, stands, reversed) ==
    /\ r \in Request /\ is \in BOOLEAN /\ stands \in BOOLEAN
    /\ reversed \in BOOLEAN

SawAs(r, is, stands, reversed, q) ==
    /\ q \in Request
    /\ q.op = r.op /\ q.at = r.at /\ q.out = r.out /\ q.empty = r.empty
    /\ q.tries = r.tries /\ q.made = r.made /\ q.did = r.did
    /\ q.failed = r.failed
    /\ q.saw = SawThen(is, stands, r)
    /\ q.undone = (r.undone \/ reversed)

(* A request sees what the rows are.                                       *)
LEMMA SeenAs ==
  ASSUME NEW r, NEW is, NEW stands, NEW reversed,
         SeeFits(r, is, stands, reversed)
  PROVE  SawAs(r, is, stands, reversed, SeenOf(r, is, stands, reversed))
<1> /\ r \in Request /\ is \in BOOLEAN /\ stands \in BOOLEAN
    /\ reversed \in BOOLEAN
  BY DEF SeeFits
<1> DEFINE saw == r.saw \union Now(is, stands)
           undone == r.undone \/ reversed
           a == [r EXCEPT !.saw = saw]
           p == IF r.at > 0 /\ r.out = 0 THEN a ELSE r
<1>1. saw \in SUBSET Facts /\ undone \in BOOLEAN
  BY DEF Request, Now, Facts
<1> HIDE DEF saw
<1>3. /\ a \in Request
      /\ a.op = r.op /\ a.at = r.at /\ a.out = r.out /\ a.empty = r.empty
      /\ a.tries = r.tries /\ a.made = r.made /\ a.undone = r.undone
      /\ a.did = r.did /\ a.failed = r.failed /\ a.saw = saw
  BY <1>1, With_saw
<1> HIDE DEF a
<1>4. /\ p \in Request
      /\ p.op = r.op /\ p.at = r.at /\ p.out = r.out /\ p.empty = r.empty
      /\ p.tries = r.tries /\ p.made = r.made /\ p.undone = r.undone
      /\ p.did = r.did /\ p.failed = r.failed
      /\ p.saw = IF r.at > 0 /\ r.out = 0 THEN saw ELSE r.saw
  BY <1>3
<1>5. SeenOf(r, is, stands, reversed) = [p EXCEPT !.undone = undone]
  BY <1>4 DEF SeenOf, p, a, saw
<1> HIDE DEF undone, p
<1> DEFINE d == [p EXCEPT !.undone = undone]
<1>6. /\ d \in Request
      /\ d.op = p.op /\ d.at = p.at /\ d.out = p.out /\ d.empty = p.empty
      /\ d.tries = p.tries /\ d.made = p.made /\ d.undone = undone
      /\ d.did = p.did /\ d.failed = p.failed /\ d.saw = p.saw
  BY <1>1, <1>4, With_undone
<1> HIDE DEF d
<1>7. SeenOf(r, is, stands, reversed) = d
  BY <1>5 DEF d
<1> QED
  BY <1>4, <1>6, <1>7 DEF SawThen, saw, undone, SawAs

-----------------------------------------------------------------------------
(* The invariant of the requests.                                          *)
RequestsInv ==
    /\ kind \in DOMAIN Routes
    /\ there \in BOOLEAN
    /\ other \in BOOLEAN
    /\ req \in [Clients -> Request]
    /\ \A c \in Clients : ReqInv(kind, there, other, req[c])

(* It gives the answers, and what is done twice.                           *)
LEMMA RequestsInvEnds ==
  RequestsInv => ApiTypeOK /\ AnswersHold /\ OnlyInsertsDouble
<1> SUFFICES ASSUME RequestsInv
             PROVE  ApiTypeOK /\ AnswersHold /\ OnlyInsertsDouble
  OBVIOUS
<1>1. ApiTypeOK
  BY DEF RequestsInv, ApiTypeOK
<1>2. ASSUME NEW c \in Clients
      PROVE  /\ SuccessIsDone(c) /\ RefusalIsUndone(c)
             /\ ReasonHolds(c) /\ FailureIsReal(c)
  <2>1. ReqInv(kind, there, other, req[c])
    BY DEF RequestsInv
  <2>2. CASE req[c].out = 0
    <3>1. req[c].out \notin 400 .. 499 /\ req[c].out \notin {200, 201}
      BY <2>2
    <3> QED
      BY <2>2, <3>1
         DEF SuccessIsDone, RefusalIsUndone, ReasonHolds, FailureIsReal
  <2>3. CASE req[c].out # 0
    <3>1. Answer(kind, HandlerOf(c), req[c])
      BY <2>1, <2>3 DEF ReqInv, HandlerOf
    <3>2. SuccessIsDone(c)
      BY <3>1 DEF Answer, Success, SuccessIsDone, WritesOf
    <3>3. RefusalIsUndone(c)
      BY <3>1 DEF Answer, Refusal, RefusalIsUndone
    <3>4. ReasonHolds(c)
      BY <3>1 DEF Answer, Reason, ReasonHolds
    <3>5. FailureIsReal(c)
      BY <3>1 DEF Answer, Failure, FailureIsReal
    <3> QED
      BY <3>2, <3>3, <3>4, <3>5
  <2> QED
    BY <2>2, <2>3
<1>3. AnswersHold
  BY <1>2 DEF AnswersHold
<1>4. OnlyInsertsDouble
  BY DEF RequestsInv, ReqInv, Doubled, OnlyInsertsDouble
<1> QED
  BY <1>1, <1>3, <1>4

(* A request that is not served.                                           *)
LEMMA AtRest ==
  ASSUME NEW k, NEW is, NEW stands, NEW r \in Request,
         r.at = 0, r.out = 0, ~r.did, r.made <= r.tries,
         r.tries > 0 => r.op \in DOMAIN Routes[k],
         Effect(k, is, r), Doubled(k, r)
  PROVE  ReqInv(k, is, stands, r)
BY DEF ReqInv

(* A client at rest.                                                       *)
LEMMA IdleFits ==
  ASSUME NEW k, NEW is, NEW stands
  PROVE  Idle \in Request /\ ReqInv(k, is, stands, Idle)
<1>1. Idle \in Request
  BY ClientsAssumption DEF Idle, Request
<1> QED
  BY <1>1, AtRest DEF Idle, Effect, Doubled

(* Nobody asks anything at the start.                                      *)
LEMMA RequestsStart == ApiInit => RequestsInv
<1> SUFFICES ASSUME ApiInit
             PROVE  RequestsInv
  OBVIOUS
<1>1. /\ kind \in DOMAIN Routes /\ there \in BOOLEAN /\ other \in BOOLEAN
      /\ req = [c \in Clients |-> Idle]
  BY DEF ApiInit
<1> QED
  BY <1>1, IdleFits DEF RequestsInv

(* The end of a try.                                                       *)
LEMMA WithoutAnswerFits ==
  ASSUME NEW k, NEW is \in BOOLEAN, NEW stands \in BOOLEAN,
         NEW r, ReqInv(k, is, stands, r)
  PROVE  WithoutAnswer(r) \in Request
         /\ ReqInv(k, is, stands, WithoutAnswer(r))
<1>1. CASE r.tries < MaxTries
  <2> DEFINE q == [op |-> r.op, at |-> 0, out |-> 0, empty |-> FALSE,
                   tries |-> r.tries, made |-> r.made, undone |-> r.undone,
                   did |-> FALSE, failed |-> FALSE, saw |-> {}]
  <2>1. WithoutAnswer(r) = q
    BY <1>1 DEF WithoutAnswer, Idle
  <2>2. q \in Request
    BY DEF ReqInv, Request
  <2>3. /\ q.op = r.op /\ q.at = 0 /\ q.out = 0 /\ q.tries = r.tries
        /\ q.made = r.made /\ q.undone = r.undone /\ ~q.did
    OBVIOUS
  <2> HIDE DEF q
  <2>4. Effect(k, is, q) /\ Doubled(k, q)
    BY <2>3 DEF ReqInv, Effect, Doubled
  <2>5. q.made <= q.tries /\ (q.tries > 0 => q.op \in DOMAIN Routes[k])
    BY <2>3 DEF ReqInv
  <2> QED
    BY <2>1, <2>2, <2>3, <2>4, <2>5, AtRest
<1>2. CASE ~(r.tries < MaxTries)
  BY <1>2, IdleFits DEF WithoutAnswer
<1> QED
  BY <1>1, <1>2

(* It begins.                                                              *)
LEMMA Begins ==
  ASSUME NEW k \in DOMAIN Routes, NEW is \in BOOLEAN, NEW stands \in BOOLEAN,
         NEW q \in Request, q.at = 1, q.out = 0, ~q.did, q.made < q.tries,
         q.op \in DOMAIN Routes[k], q.saw = Now(is, stands),
         Effect(k, is, q), Doubled(k, q)
  PROVE  ReqInv(k, is, stands, q)
<1> DEFINE h == Routes[k][q.op]
<1>1. HandlerFits(k, q.op, h)
  BY RoutesFit
<1> HIDE DEF h
<1>2. Underway(h, is, stands, q)
  <2>1. Len(h.steps) \in Nat \ {0}
    BY <1>1 DEF HandlerFits
  <2> QED
    BY <2>1 DEF Underway
<1>3. q.made \in Nat /\ q.tries \in Nat
  BY ClientsAssumption DEF Request
<1> QED
  BY <1>2, <1>3 DEF ReqInv, h

(* A client asks something new.                                            *)
LEMMA AskStep ==
  ASSUME RequestsInv, NEW c \in Clients, NEW op \in Ops, Ask(c, op)
  PROVE  RequestsInv'
<1> DEFINE seen == Now(there, other)
           a == [Idle EXCEPT !.op = op]
           b == [a EXCEPT !.at = 1]
           e == [b EXCEPT !.tries = 1]
           q == [e EXCEPT !.saw = seen]
<1>1. req' = [req EXCEPT ![c] = q]
  BY DEF Ask
<1>2. /\ op \in OpNames
      /\ seen \in SUBSET Facts
      /\ 1 \in 0 .. MaxTries
  BY OpsAreNamed, ClientsAssumption DEF RequestsInv, Ops, Now, Facts
<1>3. /\ Idle \in Request /\ Idle.out = 0 /\ Idle.made = 0 /\ ~Idle.did
      /\ Idle.did = FALSE
  BY IdleFits DEF Idle
<1> HIDE DEF seen
<1>4. /\ a \in Request /\ a.op = op /\ a.out = 0 /\ a.made = 0
      /\ a.did = FALSE
  BY <1>2, <1>3, With_op
<1> HIDE DEF a
<1>5. /\ b \in Request /\ b.at = 1 /\ b.op = op /\ b.out = 0 /\ b.made = 0
      /\ b.did = FALSE
  BY <1>4, With_at
<1> HIDE DEF b
<1>6. /\ e \in Request /\ e.at = 1 /\ e.op = op /\ e.out = 0 /\ e.made = 0
      /\ e.did = FALSE /\ e.tries = 1
  BY <1>2, <1>5, With_tries
<1> HIDE DEF e
<1>7. /\ q \in Request /\ q.at = 1 /\ q.op = op /\ q.out = 0 /\ q.made = 0
      /\ q.did = FALSE /\ q.tries = 1 /\ q.saw = seen
  BY <1>2, <1>6, With_saw
<1> HIDE DEF q
<1>8. ReqInv(kind, there, other, q)
  <2>1. Effect(kind, there, q) /\ Doubled(kind, q)
    BY <1>7 DEF Effect, Doubled
  <2>2. q.made < q.tries /\ q.op \in DOMAIN Routes[kind]
    BY <1>7 DEF Ops
  <2> QED
    BY <1>7, <2>1, <2>2, Begins DEF RequestsInv, seen
<1>9. kind' = kind /\ there' = there /\ other' = other
  BY DEF Ask
<1> QED
  BY <1>1, <1>7, <1>8, <1>9 DEF RequestsInv

(* He asks once more.                                                      *)
LEMMA AskAgainStep ==
  ASSUME RequestsInv, NEW c \in Clients, AskAgain(c)
  PROVE  RequestsInv'
<1> DEFINE r == req[c]
           seen == Now(there, other)
           again == r.tries + 1
           a == [r EXCEPT !.at = 1]
           b == [a EXCEPT !.tries = again]
           q == [b EXCEPT !.saw = seen]
<1>0. /\ r \in Request /\ ReqInv(kind, there, other, r)
      /\ r.at = 0 /\ r.tries \in 1 .. MaxTries - 1
  BY DEF RequestsInv, AskAgain
<1>1. req' = [req EXCEPT ![c] = q]
  BY <1>0 DEF AskAgain, RequestsInv, Request
<1>2. /\ seen \in SUBSET Facts
      /\ again \in 0 .. MaxTries
  BY <1>0, ClientsAssumption DEF Now, Facts
<1> HIDE DEF seen, again
<1>3. /\ a \in Request /\ a.at = 1 /\ a.out = r.out /\ a.op = r.op
      /\ a.made = r.made /\ a.undone = r.undone /\ a.did = r.did
  BY <1>0, With_at
<1> HIDE DEF a
<1>4. /\ b \in Request /\ b.at = 1 /\ b.out = r.out /\ b.op = r.op
      /\ b.made = r.made /\ b.undone = r.undone /\ b.did = r.did
      /\ b.tries = again
  BY <1>2, <1>3, With_tries
<1> HIDE DEF b
<1>5. /\ q \in Request /\ q.at = 1 /\ q.out = r.out /\ q.op = r.op
      /\ q.made = r.made /\ q.undone = r.undone /\ q.did = r.did
      /\ q.tries = again /\ q.saw = seen
  BY <1>2, <1>4, With_saw
<1> HIDE DEF q
<1>6. ReqInv(kind, there, other, q)
  <2>1. Effect(kind, there, q) /\ Doubled(kind, q)
    BY <1>0, <1>5 DEF ReqInv, Effect, Doubled
  <2>2. q.made < q.tries
    BY <1>0, <1>5, ClientsAssumption DEF ReqInv, Request, again
  <2>3. q.op \in DOMAIN Routes[kind] /\ q.out = 0 /\ ~q.did
    BY <1>0, <1>5 DEF ReqInv
  <2> QED
    BY <1>5, <2>1, <2>2, <2>3, Begins DEF RequestsInv, seen
<1>7. kind' = kind /\ there' = there /\ other' = other
  BY DEF AskAgain
<1> QED
  BY <1>1, <1>5, <1>6, <1>7 DEF RequestsInv

(* It is refused before it has done anything.                              *)
LEMMA RefuseStep ==
  ASSUME RequestsInv, NEW c \in Clients, Refuse(c)
  PROVE  RequestsInv'
<1> DEFINE r == req[c]
<1>1. PICK status \in Refusals(c) : req' = [req EXCEPT ![c].out = status]
  BY DEF Refuse
<1> DEFINE q == [r EXCEPT !.out = status]
<1>2. /\ r \in Request /\ ReqInv(kind, there, other, r)
      /\ r.at = 1 /\ r.out = 0
      /\ kind' = kind /\ there' = there /\ other' = other
  BY DEF RequestsInv, Refuse, Serving
<1>3. status \in Outs /\ (status = 400 \/ status = 401)
      /\ (status = 401 => r.op # "refresh")
  BY DEF Refusals, Outs
<1>4. /\ q \in Request
      /\ q.op = r.op /\ q.at = 1 /\ q.out = status
      /\ q.tries = r.tries /\ q.made = r.made /\ q.undone = r.undone
      /\ q.did = r.did /\ q.failed = r.failed /\ q.saw = r.saw
  BY <1>2, <1>3, With_out
<1>5. req' = [req EXCEPT ![c] = q]
  BY <1>1
<1> HIDE DEF q
<1>6. ~r.did
  BY <1>2 DEF ReqInv, Underway
<1>7. Answer(kind, Routes[kind][q.op], q)
  <2>1. q.out \notin {200, 201} /\ q.out # 404 /\ q.out # 409
        /\ q.out # 500 /\ q.out # 200
    BY <1>3, <1>4
  <2>2. ~q.did /\ (q.out = 401 => q.op # "refresh")
    BY <1>3, <1>4, <1>6
  <2> QED
    BY <2>1, <2>2 DEF Answer, Success, Refusal, Reason, Failure
<1>8. ReqInv(kind, there, other, q)
  <2>1. q.out # 0 /\ q.at > 0 /\ q.at # 0
    BY <1>3, <1>4
  <2>2. Effect(kind, there, q) /\ Doubled(kind, q)
    BY <1>2, <1>4 DEF ReqInv, Effect, Doubled
  <2>3. /\ q.made <= q.tries /\ q.tries > 0
        /\ q.op \in DOMAIN Routes[kind]
    BY <1>2, <1>4 DEF ReqInv
  <2> QED
    BY <1>4, <1>7, <2>1, <2>2, <2>3 DEF ReqInv
<1> QED
  BY <1>2, <1>4, <1>5, <1>8 DEF RequestsInv

-----------------------------------------------------------------------------
(* What Witnessed leaves of a request.                                     *)
WitnessedIn(r, is, stands, reversed, q) ==
    /\ q \in Request
    /\ q.op = r.op /\ q.at = r.at /\ q.out = r.out
    /\ q.empty = r.empty /\ q.tries = r.tries /\ q.made = r.made
    /\ q.did = r.did /\ q.failed = r.failed
    /\ q.saw = SawThen(is, stands, r)
    /\ q.undone = (r.undone \/ (r.made > 0 /\ reversed))

(* What Witnessed leaves of a request, of each of them.                    *)
LEMMA WitnessedAs ==
  ASSUME NEW f \in [Clients -> Request], NEW is, is \in BOOLEAN,
         NEW stands, stands \in BOOLEAN, NEW by, NEW d \in Clients
  PROVE  WitnessedIn(f[d], is, stands, d # by /\ is # there,
                     Witnessed(f, is, stands, by)[d])
<1> DEFINE r == f[d]
           q == Witnessed(f, is, stands, by)[d]
           reversed == r.made > 0 /\ d # by /\ is # there
<1>1. r \in Request /\ reversed \in BOOLEAN
  OBVIOUS
<1>2. q = SeenOf(r, is, stands, reversed)
  BY DEF Witnessed, SeenOf
<1> HIDE DEF q, reversed, r
<1>3. SeeFits(r, is, stands, reversed)
  BY <1>1 DEF SeeFits, r
<1>4. SawAs(r, is, stands, reversed, q)
  BY <1>2, <1>3, SeenAs
<1> QED
  BY <1>4 DEF SawAs, WitnessedIn, q, reversed, r

(* The row is there or not.                                                *)
LEMMA RowAfterIs ==
  ASSUME NEW is \in BOOLEAN, NEW does, NEW did \in BOOLEAN
  PROVE  RowAfter(is, does, did) \in BOOLEAN
BY DEF RowAfter

(* Where the error of a statement, or none, takes the request.             *)
StepOf(h, r, error) ==
    CASE error # None -> [r EXCEPT !.out = StatusIn(h, error)]
      [] error = None /\ r.at < Len(h.steps) -> [r EXCEPT !.at = @ + 1]
      [] OTHER -> [r EXCEPT !.out = h.done]

MovedAs(h, r, error, p) ==
    /\ p \in Request
    /\ p.op = r.op /\ p.tries = r.tries /\ p.undone = r.undone
    /\ p.did = r.did /\ p.made = r.made /\ p.failed = r.failed
    /\ p.saw = r.saw
    /\ p.at = IF error = None /\ r.at < Len(h.steps) THEN r.at + 1 ELSE r.at
    /\ p.out = IF error # None THEN StatusIn(h, error)
               ELSE IF r.at < Len(h.steps) THEN r.out ELSE h.done

(* A request goes on, or is answered.                                      *)
LEMMA StepAs ==
  ASSUME NEW k, NEW h, NEW r, r \in Request, NEW error,
         HandlerFits(k, r.op, h)
  PROVE  MovedAs(h, r, error, StepOf(h, r, error))
<1> DEFINE p == StepOf(h, r, error)
<1>1. StatusIn(h, error) \in Outs /\ h.done \in Outs
  BY DEF StatusIn, HandlerFits, StatusesFit, Outs
<1>2. r.at \in Nat /\ r.at + 1 \in Nat /\ Len(h.steps) \in Nat
  BY DEF Request, HandlerFits
<1>3. CASE error # None
  <2> DEFINE x == [r EXCEPT !.out = StatusIn(h, error)]
  <2>1. p = x
    BY <1>3 DEF StepOf
  <2>2. /\ x \in Request /\ x.out = StatusIn(h, error)
        /\ x.at = r.at /\ x.op = r.op /\ x.tries = r.tries
        /\ x.undone = r.undone /\ x.did = r.did /\ x.made = r.made
        /\ x.failed = r.failed /\ x.saw = r.saw
    BY <1>1, With_out
  <2> HIDE DEF x
  <2> QED
    BY <1>3, <2>1, <2>2 DEF MovedAs
<1>4. CASE error = None /\ r.at < Len(h.steps)
  <2> DEFINE x == [r EXCEPT !.at = r.at + 1]
  <2>1. p = x
    BY <1>4 DEF StepOf
  <2>2. /\ x \in Request /\ x.out = r.out
        /\ x.at = r.at + 1 /\ x.op = r.op /\ x.tries = r.tries
        /\ x.undone = r.undone /\ x.did = r.did /\ x.made = r.made
        /\ x.failed = r.failed /\ x.saw = r.saw
    BY <1>2, With_at
  <2> HIDE DEF x
  <2> QED
    BY <1>4, <2>1, <2>2 DEF MovedAs
<1>5. CASE error = None /\ ~(r.at < Len(h.steps))
  <2> DEFINE x == [r EXCEPT !.out = h.done]
  <2>1. p = x
    BY <1>5 DEF StepOf
  <2>2. /\ x \in Request /\ x.out = h.done
        /\ x.at = r.at /\ x.op = r.op /\ x.tries = r.tries
        /\ x.undone = r.undone /\ x.did = r.did /\ x.made = r.made
        /\ x.failed = r.failed /\ x.saw = r.saw
    BY <1>1, With_out
  <2> HIDE DEF x
  <2> QED
    BY <1>5, <2>1, <2>2 DEF MovedAs
<1> QED
  BY <1>3, <1>4, <1>5

(* The statement s of the request r of kind k ends, and is is what the row *)
(* was, stands what the other row is: the request is like q then.          *)
EndedAs(k, h, s, is, stands, r, error, did, failed, q) ==
    /\ is \in BOOLEAN /\ stands \in BOOLEAN
    /\ did \in BOOLEAN /\ failed \in BOOLEAN
    /\ ReqInv(k, is, stands, r) /\ r.at > 0 /\ r.out = 0
    /\ k \in DOMAIN Routes /\ h = Routes[k][r.op] /\ s = h.steps[r.at]
    /\ Outcome(k, is, stands, s, error, did, failed)
    /\ \E mine :
         /\ mine = MarkedOf(StepOf(h, r, error), did, failed,
                            s.does = "stats" /\ (failed \/ ~stands))
         /\ q = SeenOf(mine, RowAfter(is, s.does, did), stands, FALSE)

(* What a request is like when its statement has ended.                    *)
LEMMA EndedFits ==
  ASSUME NEW k, NEW h, NEW s, NEW is, NEW stands, NEW r, NEW error,
         NEW did, NEW failed, NEW q,
         EndedAs(k, h, s, is, stands, r, error, did, failed, q)
  PROVE  /\ q \in Request
         /\ ReqInv(k, RowAfter(is, s.does, did), stands, q)
         /\ did => r.made < MaxTries
<1> DEFINE step == StepOf(h, r, error)
           empty == s.does = "stats" /\ (failed \/ ~stands)
           mine == MarkedOf(step, did, failed, empty)
           now == RowAfter(is, s.does, did)
<1>1. /\ is \in BOOLEAN /\ stands \in BOOLEAN
      /\ did \in BOOLEAN /\ failed \in BOOLEAN
      /\ r.at > 0 /\ r.out = 0
      /\ s = h.steps[r.at]
  BY DEF EndedAs
<1>2. /\ ReqInv(k, is, stands, r)
      /\ k \in DOMAIN Routes /\ h = Routes[k][r.op]
  BY DEF EndedAs
<1>3. Outcome(k, is, stands, h.steps[r.at], error, did, failed)
  BY DEF EndedAs
<1>4. q = SeenOf(mine, now, stands, FALSE)
  BY DEF EndedAs
<1>5. /\ r \in Request /\ Underway(h, is, stands, r)
      /\ r.op \in DOMAIN Routes[k] /\ r.made <= r.tries
  BY <1>1, <1>2 DEF ReqInv
<1>6. HandlerFits(k, r.op, h)
  BY <1>2, <1>5, RoutesFit
<1>7. did => r.made < MaxTries
  <2> SUFFICES ASSUME did
               PROVE  r.made < MaxTries
    OBVIOUS
  <2>1. r.made < r.tries
    BY <1>1, <1>3, <1>5, <1>6, FirstWrite
  <2> QED
    BY <1>5, <2>1, ClientsAssumption DEF Request
<1>8. /\ step \in Request
      /\ step.op = r.op /\ step.tries = r.tries /\ step.undone = r.undone
      /\ step.did = r.did /\ step.made = r.made /\ step.failed = r.failed
      /\ step.saw = r.saw
      /\ step.at = IF error = None /\ r.at < Len(h.steps) THEN r.at + 1
                                                          ELSE r.at
      /\ step.out = IF error # None THEN StatusIn(h, error)
                    ELSE IF r.at < Len(h.steps) THEN 0 ELSE h.done
  <2>1. MovedAs(h, r, error, step)
    BY <1>5, <1>6, StepAs
  <2> HIDE DEF step
  <2> QED
    BY <1>1, <2>1 DEF MovedAs
<1>9. empty \in BOOLEAN /\ now \in BOOLEAN
  BY <1>1, RowAfterIs
<1> HIDE DEF step, empty, now
<1>10. /\ mine \in Request
       /\ mine.op = step.op /\ mine.at = step.at /\ mine.out = step.out
       /\ mine.tries = step.tries /\ mine.undone = step.undone
       /\ mine.saw = step.saw
       /\ mine.did <=> step.did \/ did
       /\ mine.failed <=> step.failed \/ failed
       /\ mine.made = IF did THEN step.made + 1 ELSE step.made
       /\ mine.empty <=> empty
  <2>1. MarkFits(step, did, failed, empty)
    BY <1>1, <1>7, <1>8, <1>9 DEF MarkFits
  <2>2. MarkedAs(step, did, failed, empty, mine)
    BY <2>1, Marked
  <2> HIDE DEF mine
  <2> QED
    BY <2>2 DEF MarkedAs
<1> HIDE DEF mine
<1>11. /\ q \in Request
       /\ q.op = mine.op /\ q.at = mine.at /\ q.out = mine.out
       /\ q.empty = mine.empty /\ q.tries = mine.tries
       /\ q.made = mine.made /\ q.did = mine.did
       /\ q.failed = mine.failed
       /\ q.saw = SawThen(now, stands, mine)
       /\ q.undone = (mine.undone \/ FALSE)
  <2>1. SeeFits(mine, now, stands, FALSE)
    BY <1>1, <1>9, <1>10 DEF SeeFits
  <2>2. SawAs(mine, now, stands, FALSE, q)
    BY <1>4, <2>1, SeenAs
  <2> QED
    BY <2>2 DEF SawAs
<1>12. EndsAs(h, s, is, stands, r, error, did, failed, q)
  <2>0. r.at \in Nat /\ Len(h.steps) \in Nat
    BY <1>5, <1>6 DEF Request, HandlerFits
  <2>1. q.saw = IF q.out = 0 THEN r.saw \union Now(now, stands) ELSE r.saw
    BY <1>1, <1>8, <1>10, <1>11, <2>0 DEF SawThen
  <2>2. q.op = r.op /\ q.tries = r.tries /\ q.undone = r.undone
    BY <1>5, <1>8, <1>10, <1>11 DEF Request
  <2>3. /\ q.at = IF error = None /\ r.at < Len(h.steps) THEN r.at + 1
                                                         ELSE r.at
        /\ q.out = IF error # None THEN StatusIn(h, error)
                   ELSE IF r.at < Len(h.steps) THEN 0 ELSE h.done
    BY <1>8, <1>10, <1>11
  <2>4. /\ q.did <=> r.did \/ did
        /\ q.failed <=> r.failed \/ failed
    BY <1>8, <1>10, <1>11
  <2>5. q.made = IF did THEN r.made + 1 ELSE r.made
    BY <1>8, <1>10, <1>11
  <2>6. q.empty => s.does = "stats" /\ (failed \/ ~stands)
    BY <1>10, <1>11 DEF empty
  <2> QED
    BY <2>1, <2>2, <2>3, <2>4, <2>5, <2>6 DEF EndsAs, now
<1>13. ReqInv(k, now, stands, q)
  <2>1. Outcome(k, is, stands, h.steps[r.at], error, did, failed)
    BY <1>3
  <2>2. EndsAs(h, h.steps[r.at], is, stands, r, error, did, failed, q)
    BY <1>1, <1>12
  <2>3. q \in Request
    BY <1>11
  <2>5. OwnEnding(k, h, is, stands, r, error, did, failed, q)
    BY <1>1, <1>2, <2>1, <2>2, <2>3 DEF OwnEnding
  <2>4. ReqInv(k, RowAfter(is, h.steps[r.at].does, did), stands, q)
    BY <2>5, OwnStep
  <2> QED
    BY <1>1, <2>4 DEF now
<1> QED
  BY <1>7, <1>11, <1>13 DEF now

(* Somebody else's request, while a row is not or no longer what it was.   *)
LEMMA OthersSee ==
  ASSUME RequestsInv, NEW f \in [Clients -> Request], NEW is, is \in BOOLEAN,
         NEW stands, stands \in BOOLEAN, NEW by, NEW d \in Clients, d # by,
         f[d] = req[d]
  PROVE  LET q == Witnessed(f, is, stands, by)[d]
         IN q \in Request /\ ReqInv(kind, is, stands, q)
<1> DEFINE r == req[d]
           q == Witnessed(f, is, stands, by)[d]
<1>1. /\ kind \in DOMAIN Routes /\ there \in BOOLEAN /\ other \in BOOLEAN
      /\ ReqInv(kind, there, other, r)
  BY DEF RequestsInv
<1>2. WitnessedIn(f[d], is, stands, d # by /\ is # there, q)
  BY WitnessedAs
<1> HIDE DEF q
<1>3. q \in Request /\ SeesAs(there, is, stands, r, q)
  BY <1>1, <1>2 DEF SeesAs, WitnessedIn
<1>4. ReqInv(kind, is, stands, q)
  BY <1>1, <1>3, SeesFits
<1> QED
  BY <1>3, <1>4 DEF q

(* A statement ends as it may.                                             *)
EndedWell(c, error, did, failed) ==
    /\ Serving(c)
    /\ did \in BOOLEAN /\ failed \in BOOLEAN
    /\ Outcome(kind, there, other, Current(c), error, did, failed)
    /\ Ended(c, error, did, failed)

(* The statement of one request ends, and the others see it.               *)
LEMMA EndedStep ==
  ASSUME RequestsInv, NEW c \in Clients, NEW error, NEW did, NEW failed,
         EndedWell(c, error, did, failed)
  PROVE  RequestsInv'
<1> DEFINE r == req[c]
           h == HandlerOf(c)
           s == Current(c)
           is == RowAfter(there, s.does, did)
           step == StepOf(h, r, error)
           mine == MarkedOf(step, did, failed,
                            s.does = "stats" /\ (failed \/ ~other))
           f == [req EXCEPT ![c] = mine]
           g == Witnessed(f, is, other, c)
           q == SeenOf(mine, is, other, FALSE)
<1>0. /\ Serving(c) /\ did \in BOOLEAN /\ failed \in BOOLEAN
      /\ Outcome(kind, there, other, s, error, did, failed)
      /\ Ended(c, error, did, failed)
  BY DEF EndedWell
<1>1. /\ kind \in DOMAIN Routes /\ there \in BOOLEAN /\ other \in BOOLEAN
      /\ req \in [Clients -> Request]
      /\ ReqInv(kind, there, other, r)
      /\ r \in Request /\ r.at > 0 /\ r.out = 0
      /\ h = Routes[kind][r.op] /\ s = h.steps[r.at]
  BY <1>0 DEF RequestsInv, Serving, HandlerOf, Current
<1>2. is \in BOOLEAN
  BY <1>0, <1>1, RowAfterIs
<1>3. there' = is /\ kind' = kind /\ other' = other
  BY <1>0 DEF Ended, RowAfter
<1>4. req' = g
  <2>1. Status(c, error) = StatusIn(h, error)
    BY DEF Status, StatusIn
  <2>2. step = CASE error # None -> [r EXCEPT !.out = Status(c, error)]
                 [] error = None /\ r.at < Len(h.steps) ->
                       [r EXCEPT !.at = @ + 1]
                 [] OTHER -> [r EXCEPT !.out = h.done]
    BY <2>1 DEF StepOf
  <2>3. mine = [step EXCEPT !.did = @ \/ did,
                            !.made = IF did THEN @ + 1 ELSE @,
                            !.failed = @ \/ failed,
                            !.empty = s.does = "stats"
                                        /\ (failed \/ ~other)]
    BY DEF MarkedOf
  <2> HIDE DEF mine, is
  <2>4. req' = Witnessed([req EXCEPT ![c] = mine], there', other, c)
    BY <1>0, <2>2, <2>3 DEF Ended
  <2> QED
    BY <1>3, <2>4
<1>5. EndedAs(kind, h, s, there, other, r, error, did, failed, q)
  BY <1>0, <1>1 DEF EndedAs
<1> HIDE DEF is
<1>6. /\ q \in Request /\ ReqInv(kind, is, other, q)
      /\ did => r.made < MaxTries
  BY <1>5, EndedFits DEF is
<1>7. mine \in Request
  <2>1. /\ Underway(h, there, other, r) /\ r.op \in DOMAIN Routes[kind]
        /\ r.made <= r.tries
    BY <1>1 DEF ReqInv
  <2>2. HandlerFits(kind, r.op, h)
    BY <1>1, <2>1, RoutesFit
  <2>3. MovedAs(h, r, error, step)
    BY <1>1, <2>2, StepAs
  <2> DEFINE empty == s.does = "stats" /\ (failed \/ ~other)
  <2>5. empty \in BOOLEAN
    OBVIOUS
  <2> HIDE DEF step, empty
  <2>6. MarkFits(step, did, failed, empty)
    BY <1>0, <1>6, <2>3, <2>5 DEF MarkFits, MovedAs
  <2>7. MarkedAs(step, did, failed, empty,
                 MarkedOf(step, did, failed, empty))
    BY <2>6, Marked
  <2> QED
    BY <2>7 DEF MarkedAs, empty
<1> HIDE DEF mine
<1>8. f \in [Clients -> Request] /\ f[c] = mine
      /\ \A d \in Clients : d # c => f[d] = req[d]
  BY <1>1, <1>7
<1>9. g[c] = q
  BY <1>8 DEF Witnessed, SeenOf
<1> HIDE DEF f, q
<1>10. ASSUME NEW d \in Clients, d # c
       PROVE  g[d] \in Request /\ ReqInv(kind, is, other, g[d])
  BY <1>1, <1>2, <1>8, <1>10, OthersSee
<1>11. g \in [Clients -> Request]
  <2>1. g = [d \in Clients |-> g[d]]
    BY DEF Witnessed
  <2> HIDE DEF g
  <2> QED
    BY <1>6, <1>9, <1>10, <2>1
<1> HIDE DEF g
<1>12. \A d \in Clients : ReqInv(kind, is, other, g[d])
  BY <1>6, <1>9, <1>10
<1> QED
  BY <1>1, <1>2, <1>3, <1>4, <1>11, <1>12 DEF RequestsInv

(* A statement.                                                            *)
LEMMA StatementStep ==
  ASSUME RequestsInv, NEW c \in Clients, Statement(c)
  PROVE  RequestsInv'
<1> DEFINE s == Current(c)
           fits == Fits(s.does)
           writes == s.does \in Writes
<1>1. Serving(c)
  BY DEF Statement
<1>2. fits <=> FitsIn(kind, there, other, s.does)
  BY DEF Fits, FitsIn
<1>3. Misfit(s) = MisfitIn(there, s)
  BY DEF Misfit, MisfitIn
<1>4. ASSUME fits, NEW error \in {None} \union s.may,
             Ended(c, error, writes, FALSE)
      PROVE  RequestsInv'
  <2>1. CASE writes
    <3>1. writes = TRUE
      BY <2>1, Zenon
    <3>2. Ended(c, error, TRUE, FALSE)
      BY <1>4, <3>1, Zenon
    <3>3. Outcome(kind, there, other, s, error, TRUE, FALSE)
      BY <1>2, <1>4, <2>1 DEF Outcome, DoneOr
    <3>4. EndedWell(c, error, TRUE, FALSE)
      BY <1>1, <3>2, <3>3 DEF EndedWell
    <3> QED
      BY <3>4, EndedStep
  <2>2. CASE ~writes
    <3>1. writes = FALSE
      BY <2>2
    <3>2. Ended(c, error, FALSE, FALSE)
      BY <1>4, <3>1, Zenon
    <3>3. Outcome(kind, there, other, s, error, FALSE, FALSE)
      <4>1. FALSE = (s.does \in Writes)
        BY <3>1
      <4>2. FitsIn(kind, there, other, s.does)
        BY <1>2, <1>4
      <4> QED
        BY <1>4, <4>1, <4>2, Zenon DEF Outcome, DoneOr
    <3>4. EndedWell(c, error, FALSE, FALSE)
      BY <1>1, <3>2, <3>3 DEF EndedWell
    <3> QED
      BY <3>4, EndedStep
  <2> QED
    BY <2>1, <2>2
<1>5. ASSUME ~fits, Ended(c, Misfit(s), FALSE, FALSE)
      PROVE  RequestsInv'
  <2>1. EndedWell(c, Misfit(s), FALSE, FALSE)
    <3>1. Outcome(kind, there, other, s, Misfit(s), FALSE, FALSE)
      BY <1>2, <1>3, <1>5 DEF Outcome, Missed
    <3> QED
      BY <1>1, <1>5, <3>1 DEF EndedWell
  <2> QED
    BY <2>1, EndedStep
<1>6. ASSUME NEW did \in {FALSE, fits /\ writes},
             Ended(c, s.fail, did, TRUE)
      PROVE  RequestsInv'
  <2>1. did \in BOOLEAN
    BY <1>6
  <2>2. EndedWell(c, s.fail, did, TRUE)
    <3>1. Outcome(kind, there, other, s, s.fail, did, TRUE)
      BY <1>2, <1>6 DEF Outcome, Fails
    <3> QED
      BY <1>1, <1>6, <2>1, <3>1 DEF EndedWell
  <2> QED
    BY <2>2, EndedStep
<1> QED
  BY <1>4, <1>5, <1>6 DEF Statement

(* Other requests change the rows.                                         *)
LEMMA ElsewhereStep ==
  ASSUME RequestsInv, Elsewhere
  PROVE  RequestsInv'
<1> DEFINE g == Witnessed(req, there', other', None)
<1>1. /\ kind \in DOMAIN Routes /\ there \in BOOLEAN /\ other \in BOOLEAN
      /\ req \in [Clients -> Request]
  BY DEF RequestsInv
<1>2. /\ there' \in BOOLEAN /\ other' \in BOOLEAN
      /\ req' = g /\ kind' = kind
  BY <1>1 DEF Elsewhere
<1>3. ASSUME NEW d \in Clients
      PROVE  g[d] \in Request /\ ReqInv(kind, there', other', g[d])
  <2>1. d # None
    BY ClientsAssumption
  <2> QED
    BY <1>1, <1>2, <2>1, OthersSee
<1>4. g \in [Clients -> Request]
  <2>1. g = [d \in Clients |-> g[d]]
    BY DEF Witnessed
  <2> HIDE DEF g
  <2> QED
    BY <1>3, <2>1
<1> HIDE DEF g
<1> QED
  BY <1>1, <1>2, <1>3, <1>4 DEF RequestsInv

(* A try ends for one client, and the rows are left alone.                 *)
LEMMA OneEnds ==
  ASSUME RequestsInv, NEW c \in Clients, NEW q,
         q \in {Idle, WithoutAnswer(req[c])},
         req' = [req EXCEPT ![c] = q],
         UNCHANGED <<kind, there, other>>
  PROVE  RequestsInv'
<1>1. /\ kind \in DOMAIN Routes /\ there \in BOOLEAN /\ other \in BOOLEAN
      /\ req \in [Clients -> Request]
      /\ \A d \in Clients : ReqInv(kind, there, other, req[d])
  BY DEF RequestsInv
<1>2. q \in Request /\ ReqInv(kind, there, other, q)
  <2>1. CASE q = Idle
    BY <2>1, IdleFits
  <2>2. CASE q = WithoutAnswer(req[c])
    BY <1>1, <2>2, WithoutAnswerFits
  <2> QED
    BY <2>1, <2>2
<1> QED
  BY <1>1, <1>2 DEF RequestsInv

(* The answer reaches the client, or does not.                             *)
LEMMA AnsweredStep ==
  ASSUME RequestsInv, NEW c \in Clients, Answered(c) \/ Unanswered(c)
  PROVE  RequestsInv'
<1>1. req \in [Clients -> Request]
  BY DEF RequestsInv
<1> DEFINE w == WithoutAnswer(req[c])
           q == IF Answered(c) /\ req[c].out # 500 THEN Idle ELSE w
<1>2. q \in {Idle, w}
  OBVIOUS
<1>3. req' = [req EXCEPT ![c] = q]
  <2>1. CASE Answered(c)
    <3>1. req' = [req EXCEPT ![c] = IF @.out = 500 THEN WithoutAnswer(@)
                                                   ELSE Idle]
      BY <2>1 DEF Answered
    <3> QED
      BY <1>1, <2>1, <3>1
  <2>2. CASE Unanswered(c) /\ ~Answered(c)
    <3>1. req' = [req EXCEPT ![c] = WithoutAnswer(@)]
      BY <2>2 DEF Unanswered
    <3> QED
      BY <1>1, <2>2, <3>1
  <2> QED
    BY <2>1, <2>2
<1>4. UNCHANGED <<kind, there, other>>
  BY DEF Answered, Unanswered
<1> HIDE DEF q
<1> QED
  BY <1>2, <1>3, <1>4, OneEnds

(* The process ends.                                                       *)
LEMMA CutOffStep ==
  ASSUME RequestsInv, CutOff
  PROVE  RequestsInv'
<1> DEFINE f == [c \in Clients |-> IF req[c].at > 0
                                   THEN WithoutAnswer(req[c]) ELSE req[c]]
<1>1. /\ kind \in DOMAIN Routes /\ there \in BOOLEAN /\ other \in BOOLEAN
      /\ req \in [Clients -> Request]
      /\ \A d \in Clients : ReqInv(kind, there, other, req[d])
  BY DEF RequestsInv
<1>2. req' = f /\ UNCHANGED <<kind, there, other>>
  BY DEF CutOff
<1>3. ASSUME NEW d \in Clients
      PROVE  f[d] \in Request /\ ReqInv(kind, there, other, f[d])
  <2>1. /\ WithoutAnswer(req[d]) \in Request
        /\ ReqInv(kind, there, other, WithoutAnswer(req[d]))
    BY <1>1, WithoutAnswerFits
  <2>2. f[d] = WithoutAnswer(req[d]) \/ f[d] = req[d]
    OBVIOUS
  <2> HIDE DEF f
  <2> QED
    BY <1>1, <2>1, <2>2
<1>4. f \in [Clients -> Request]
  <2>1. f = [d \in Clients |-> f[d]]
    OBVIOUS
  <2> HIDE DEF f
  <2> QED
    BY <1>3, <2>1
<1> HIDE DEF f
<1> QED
  BY <1>1, <1>2, <1>3, <1>4 DEF RequestsInv

(* Every step.                                                             *)
LEMMA RequestsStep ==
  ASSUME RequestsInv, [Next]_vars
  PROVE  RequestsInv'
<1>1. CASE UNCHANGED apiVars
  BY <1>1 DEF apiVars, RequestsInv
<1>2. CASE Others
  BY <1>2, ElsewhereStep DEF Others
<1>3. CASE EndForced \/ Die
  BY <1>3, CutOffStep DEF EndForced, Die
<1>4. ASSUME NEW c \in Clients, Call(c)
      PROVE  RequestsInv'
  BY <1>4, AskStep, AskAgainStep DEF Call
<1>5. ASSUME NEW c \in Clients, Handle(c)
      PROVE  RequestsInv'
  BY <1>5, RefuseStep, StatementStep DEF Handle
<1>6. ASSUME NEW c \in Clients, Reply(c) \/ ReplyLate(c)
      PROVE  RequestsInv'
  BY <1>6, AnsweredStep DEF Reply, ReplyLate
<1> QED
  BY <1>1, <1>2, <1>3, <1>4, <1>5, <1>6 DEF Next, vars

(* The invariant of the requests.                                          *)
LEMMA RequestsHold == Spec => []RequestsInv
<1>1. Init => RequestsInv
  BY RequestsStart DEF Init
<1> QED
  BY <1>1, RequestsStep, PTL DEF Spec

(* The ranges of the process, its connections, the requests and the rows.  *)
THEOREM ServiceTypeCorrect == Spec => []TypeOK
<1>1. ServerTypeOK /\ RequestsInv => TypeOK
  BY RequestsInvEnds DEF TypeOK
<1> QED
  BY <1>1, RequestsHold, ServiceIsServer, ServerTypeCorrect, PTL

(* Whatever the handlers of the API answer is true of the request: a success *)
(* is done, a refusal is not, the reason given held at some time of it, and *)
(* a 500 has a cause; for any number of clients and of tries.              *)
THEOREM AnswersAreTrue == Spec => []AnswersHold
BY RequestsHold, RequestsInvEnds, PTL

(* What a client asks again because no answer came is done twice only by an *)
(* update or an insert without a key, or if somebody reversed it in between. *)
THEOREM OnlyInsertsAreDoubled == Spec => []OnlyInsertsDouble
BY RequestsHold, RequestsInvEnds, PTL

=============================================================================
