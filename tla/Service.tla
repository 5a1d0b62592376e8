------------------------------ MODULE Service ------------------------------
(***************************************************************************)
(* The API as its clients meet it: requests (Api) over the connections of  *)
(* a process that is started, stopped and may die (Server).  The database  *)
(* outlives the process.  A client of a connection that ends without an    *)
(* answer does not know what became of his request.                        *)
(***************************************************************************)
EXTENDS Server

CONSTANTS None, MaxTries  \* of Api

(* No error is none of the errors, and nobody's name.                      *)
ASSUME ClientsAssumption ==
    /\ None \notin Clients
    /\ None \notin {"NotFound", "InUse", "Invalid", "System", "Taken",
                    "Credentials", "Inactive", "Token", "Failed"}
    /\ MaxTries \in Nat \ {0}

VARIABLES kind, there, other, req  \* of Api

INSTANCE Api

apiVars == <<kind, there, other, req>>

vars == <<serverVars, apiVars>>

Init == ServerInit /\ ApiInit

TypeOK == ServerTypeOK /\ ApiTypeOK

(* The handler is called once the header of the request is read.           *)
Call(c) ==
    /\ Header(c)
    /\ AskAgain(c) \/ \E op \in Ops : Ask(c, op)

Reply(c) == Respond(c) /\ Answered(c)

ReplyLate(c) == Late(c) /\ Unanswered(c)

EndForced == ForcedStop /\ CutOff

Die == Crash /\ CutOff

Handle(c) == (Refuse(c) \/ Statement(c)) /\ UNCHANGED serverVars

(* Other requests are served as long as the process is there.              *)
Others == process # "down" /\ Elsewhere /\ UNCHANGED serverVars

Next ==
    \/ (Start \/ Signal \/ Stop \/ Tick) /\ UNCHANGED apiVars
    \/ EndForced
    \/ Die
    \/ Others
    \/ \E c \in Clients :
         \/ (Connect(c) \/ ReadTimedOut(c) \/ Drop(c)) /\ UNCHANGED apiVars
         \/ Call(c)
         \/ Handle(c)
         \/ Reply(c)
         \/ ReplyLate(c)

(* Time passes, and net/http and main act on it.  Nothing is assumed of    *)
(* clients, handlers or operators.                                         *)
Fairness ==
    /\ WF_vars(Tick /\ UNCHANGED apiVars)
    /\ \A c \in Clients : WF_vars(ReadTimedOut(c) /\ UNCHANGED apiVars)
    /\ WF_vars(Stop /\ UNCHANGED apiVars)
    /\ WF_vars(EndForced)

Spec == Init /\ [][Next]_vars /\ Fairness

(* A shutdown ends, however long a handler takes: the grace period does    *)
(* not depend on it (cmd/server/main.go:229-235).                          *)
ShutdownEnds == process = "draining" ~> process = "down"

=============================================================================
