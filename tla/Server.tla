------------------------------- MODULE Server -------------------------------
(***************************************************************************)
(* The process of cmd/server: it starts, serves each connection under the  *)
(* timeouts of its http.Server, and on SIGINT or SIGTERM stops accepting   *)
(* and gives the requests in flight a grace period.  Time passes in ticks. *)
(* What a handler does is left to a module that composes this one.         *)
(*                                                                         *)
(* net/http, as this configuration uses it: ReadTimeout counts from the    *)
(* start of a request, WriteTimeout from the moment its header is read; a  *)
(* write after it fails.  Timeouts may make a statement of the handler     *)
(* fail, by its context, but do not end it.  Shutdown closes the listener, *)
(* waits for the connections that have a request, and gives up with its    *)
(* context.                                                                *)
(***************************************************************************)
EXTENDS Naturals

CONSTANTS
    Clients,       \* one connection each
    ReadTimeout,   \* in ticks; 15 s in the code
    WriteTimeout,  \* 15 s
    Grace          \* the time Shutdown gives, 30 s

(* The three durations of main.go: a request has at most ReadTimeout to    *)
(* arrive and WriteTimeout to be answered, and Grace covers both.          *)
ASSUME TimesAssumption ==
    /\ ReadTimeout \in Nat \ {0}
    /\ WriteTimeout \in Nat \ {0}
    /\ Grace \in Nat
    /\ ReadTimeout + WriteTimeout <= Grace

VARIABLES
    process,  \* of the server: down, up, or draining after a signal
    conn,     \* of each client: closed, reading a request or working on it,
              \* and the ticks left until its deadline
    grace     \* the ticks left of the grace period

serverVars == <<process, conn, grace>>

Closed == [pc |-> "closed", left |-> 0]

Connection ==
    {Closed} \union [pc : {"reading"}, left : 0 .. ReadTimeout]
             \union [pc : {"working"}, left : 0 .. WriteTimeout]

ServerTypeOK ==
    /\ process \in {"down", "up", "draining"}
    /\ conn \in [Clients -> Connection]
    /\ grace \in 0 .. Grace

AllClosed == [c \in Clients |-> Closed]

ServerInit ==
    /\ process = "down"
    /\ conn = AllClosed
    /\ grace = 0

-----------------------------------------------------------------------------
(* The process.                                                            *)

(* Configuration, database, Redis, wiring, ListenAndServe.  A start that   *)
(* fails leaves the process down.                                          *)
Start ==
    /\ process = "down"
    /\ process' = "up"
    /\ UNCHANGED <<conn, grace>>

(* SIGINT or SIGTERM.  A second one finds the channel without a receiver   *)
(* and changes nothing.                                                    *)
Signal_WritesOnly ==
    /\ process = "up"
    /\ process' = "draining"
    /\ grace' = WriteTimeout
    /\ UNCHANGED conn

Signal ==
    /\ process = "up"
    /\ process' = "draining"
    /\ grace' = Grace
    /\ UNCHANGED conn

Exit ==
    /\ process' = "down"
    /\ conn' = AllClosed
    /\ grace' = 0

(* Shutdown finds no connection left that it must wait for.                *)
Stop ==
    /\ process = "draining"
    /\ conn = AllClosed
    /\ Exit

(* The grace period is over: main returns and takes every handler with it. *)
ForcedStop_Patient ==
    /\ process = "draining"
    /\ grace = 0
    /\ \A c \in Clients : conn[c].pc # "working"
    /\ Exit

ForcedStop ==
    /\ process = "draining"
    /\ grace = 0
    /\ Exit

(* The process dies, or ListenAndServe fails.                              *)
Crash ==
    /\ process # "down"
    /\ Exit

-----------------------------------------------------------------------------
(* The connections.                                                        *)

(* A request begins, on a new connection or on one kept alive.             *)
Connect(c) ==
    /\ process = "up"
    /\ conn[c].pc = "closed"
    /\ conn' = [conn EXCEPT ![c] = [pc |-> "reading", left |-> ReadTimeout]]
    /\ UNCHANGED <<process, grace>>

(* Its header is read and its handler called.                              *)
Header_OnTop(c) ==
    /\ conn[c].pc = "reading"
    /\ conn[c].left > 0
    /\ conn' = [conn EXCEPT ![c] = [pc |-> "working",
                                    left |-> @.left + WriteTimeout]]
    /\ UNCHANGED <<process, grace>>

Header(c) ==
    /\ conn[c].pc = "reading"
    /\ conn[c].left > 0
    /\ conn' = [conn EXCEPT ![c] = [pc |-> "working", left |-> WriteTimeout]]
    /\ UNCHANGED <<process, grace>>

Close(c) ==
    /\ conn' = [conn EXCEPT ![c] = Closed]
    /\ UNCHANGED <<process, grace>>

(* The request does not arrive in time.                                    *)
ReadTimedOut(c) == conn[c].pc = "reading" /\ conn[c].left = 0 /\ Close(c)

(* The client goes away, or Shutdown closes a connection that has sent     *)
(* nothing yet.                                                            *)
Drop(c) == conn[c].pc = "reading" /\ Close(c)

(* The handler has returned, and its answer can be written.                *)
Respond(c) == conn[c].pc = "working" /\ conn[c].left > 0 /\ Close(c)

(* The handler has returned too late: the write fails.                     *)
Late(c) == conn[c].pc = "working" /\ conn[c].left = 0 /\ Close(c)

(* Time passes.  A deadline of the server itself does not wait.            *)
Tick ==
    /\ process # "down"
    /\ process = "draining" => grace > 0
    /\ \A c \in Clients : conn[c].pc = "reading" => conn[c].left > 0
    /\ conn' = [c \in Clients |->
                  [conn[c] EXCEPT !.left = IF @ > 0 THEN @ - 1 ELSE 0]]
    /\ grace' = IF grace > 0 THEN grace - 1 ELSE 0
    /\ UNCHANGED process

ServerNext ==
    \/ Start \/ Signal \/ Stop \/ ForcedStop \/ Crash \/ Tick
    \/ \E c \in Clients :
         \/ Connect(c) \/ Header(c) \/ ReadTimedOut(c) \/ Drop(c)
         \/ Respond(c) \/ Late(c)

ServerSpec == ServerInit /\ [][ServerNext]_serverVars

-----------------------------------------------------------------------------
(* What makes the grace period long enough: a request that still arrives   *)
(* has the time to be answered, one under way has what it is given.        *)
GraceLeft ==
    process = "draining" =>
        \A c \in Clients :
            /\ conn[c].pc = "reading" => conn[c].left + WriteTimeout <= grace
            /\ conn[c].pc = "working" => conn[c].left <= grace

(* The forced end of a shutdown cuts off no request that could still have  *)
(* been answered: whatever is in flight when the grace period is over has  *)
(* already lost its deadline (cmd/server/main.go:199-204, 232-236).        *)
GraceCoversAnswers ==
    process = "draining" /\ grace = 0 =>
        \A c \in Clients :
            /\ conn[c].pc # "reading"
            /\ conn[c].pc = "working" => conn[c].left = 0

=============================================================================
