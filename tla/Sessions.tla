------------------------------ MODULE Sessions ------------------------------
(***************************************************************************)
(* Who is logged in: internal/auth (Register, Login, Refresh, Logout), the *)
(* Auth middleware, the table users and the keys in Redis.  A request is a *)
(* goroutine; one step is one SQL statement or Redis command of it, or the *)
(* reading of the clock between them, so time may pass between any two.    *)
(*                                                                         *)
(* An access token is a JWT that the client keeps and the server only      *)
(* checks: it is good until it expires, unless its id (jti) is on the      *)
(* blacklist in Redis.  A refresh token is good while its key is in Redis. *)
(* Requests with a wrong password or a forged token are refused without a  *)
(* trace and have no action.                                               *)
(***************************************************************************)
EXTENDS Integers, Sequences

CONSTANTS
    Users,       \* people, each with an email of his own
    Slots,       \* requests at work at the same time
    AccessTTL,   \* cfg.JWT.AccessTTL
    RefreshTTL,  \* cfg.JWT.RefreshTTL
    MaxTime,     \* bound: the clock stops here
    MaxTokens,   \* bound: access tokens issued
    MaxLogins    \* bound: refresh tokens issued

ASSUME SessionsAssumption ==
    /\ Users # {}
    /\ AccessTTL \in Nat \ {0}
    /\ RefreshTTL \in Nat \ {0}
    /\ MaxTime \in Nat \ {0}
    /\ MaxTokens \in Nat
    /\ MaxLogins \in Nat

VARIABLES
    now,         \* the clock, the same for the server and Redis
    production,  \* cfg.App.Env is not "development"
    connected,   \* the Redis client is not nil
    users,       \* the table: is the email unknown, active or inactive
    refresh,     \* Redis: refresh:<r> is there until this time
    blacklist,   \* Redis: blacklist:<j> is there until this time
    access,      \* the access tokens that clients have; the jti is the index
    logins,      \* the users of the refresh tokens that clients have
    req,         \* what each request is about to do
    \* Ghosts: the code does not have them, the properties speak of them.
    gone,        \* when each user was deactivated, or 0
    over,        \* when the key of a refresh token was deleted, or 0
    promised,    \* until when a refresh token must work, or 0
    revoked      \* the access tokens on the blacklist that Redis confirmed

redis == <<refresh, blacklist>>
clients == <<access, logins>>
settings == <<production, connected>>
ghosts == <<gone, over, promised, revoked>>
vars == <<now, settings, users, redis, clients, req, ghosts>>

Status == {"unknown", "active", "inactive"}

(* Redis keeps a key that was set without a time to live.                  *)
Forever == MaxTime + AccessTTL + RefreshTTL

Jtis == 1 .. MaxTokens

Rids == 1 .. MaxLogins

(* An access token: whose it is, when it expires and which refresh token   *)
(* it goes back to; crossed if a logout or a deactivation that concerns it *)
(* happened while the request that issued it was at work.                  *)
Token == [user : Users, exp : Nat, rid : Rids, crossed : BOOLEAN]

(* The local variables of a request; 0 where there is none yet.  pc names  *)
(* what it is about to do.                                                 *)
Request ==
    [pc : {"idle", "insert", "find", "sign", "store", "set", "del"},
     user : Users, rid : Rids \union {0}, jti : Jtis \union {0},
     exp : Nat, crossed : BOOLEAN]

Idle == [pc |-> "idle", user |-> CHOOSE u \in Users : TRUE, rid |-> 0,
         jti |-> 0, exp |-> 0, crossed |-> FALSE]

TypeOK ==
    /\ now \in 1 .. MaxTime
    /\ production \in BOOLEAN
    /\ connected \in BOOLEAN
    /\ production => connected
    /\ users \in [Users -> Status]
    /\ refresh \in [Rids -> 0 .. Forever]
    /\ blacklist \in [Jtis -> 0 .. Forever]
    /\ access \in Seq(Token) /\ Len(access) <= MaxTokens
    /\ \A j \in 1 .. Len(access) : access[j].exp <= now + AccessTTL
    /\ logins \in Seq(Users) /\ Len(logins) <= MaxLogins
    /\ req \in [Slots -> Request]
    /\ gone \in [Users -> Nat]
    /\ over \in [Rids -> Nat]
    /\ promised \in [Rids -> Nat]
    /\ revoked \in SUBSET Jtis

(* main refuses to start without Redis unless in development.              *)
Init ==
    /\ now = 1
    /\ production \in BOOLEAN
    /\ connected \in BOOLEAN
    /\ production => connected
    /\ users = [u \in Users |-> "unknown"]
    /\ refresh = [r \in Rids |-> 0]
    /\ blacklist = [j \in Jtis |-> 0]
    /\ access = <<>>
    /\ logins = <<>>
    /\ req = [s \in Slots |-> Idle]
    /\ gone = [u \in Users |-> 0]
    /\ over = [r \in Rids |-> 0]
    /\ promised = [r \in Rids |-> 0]
    /\ revoked = {}

-----------------------------------------------------------------------------
(* What the world does.                                                    *)

(* Time passes, and Redis drops the keys whose time is over.               *)
Tick ==
    /\ now < MaxTime
    /\ now' = now + 1
    /\ refresh' = [r \in Rids |-> IF refresh[r] <= now + 1 THEN 0 ELSE refresh[r]]
    /\ blacklist' = [j \in Jtis |-> IF blacklist[j] <= now + 1 THEN 0 ELSE blacklist[j]]
    /\ UNCHANGED <<settings, users, clients, req, ghosts>>

(* Ghost: what happens to a request that is about to issue a token.        *)
Crossed(s, concerned) ==
    IF req[s].pc \in {"find", "sign", "store"} /\ concerned
    THEN [req[s] EXCEPT !.crossed = TRUE] ELSE req[s]

(* An operator clears is_active; no request of the API does.               *)
Deactivate(u) ==
    /\ users[u] = "active"
    /\ users' = [users EXCEPT ![u] = "inactive"]
    /\ gone' = [gone EXCEPT ![u] = now]
    /\ req' = [s \in Slots |-> Crossed(s, req[s].user = u)]
    /\ UNCHANGED <<now, settings, redis, clients, over, promised, revoked>>

(* Redis restarts without its keys.                                        *)
RedisLosesKeys ==
    /\ connected
    /\ refresh' = [r \in Rids |-> 0]
    /\ blacklist' = [j \in Jtis |-> 0]
    /\ promised' = [r \in Rids |-> 0]
    /\ revoked' = {}
    /\ UNCHANGED <<now, settings, users, clients, req, gone, over>>

(* A request ends early: a statement fails, or the server crashes.         *)
Fail(s) ==
    /\ req[s].pc # "idle"
    /\ req' = [req EXCEPT ![s] = Idle]
    /\ UNCHANGED <<now, settings, users, redis, clients, ghosts>>

-----------------------------------------------------------------------------
(* Register: FindByEmail, the hashing of the password, INSERT.             *)

RegisterRequest(s, u) ==
    /\ req[s].pc = "idle"
    /\ users[u] = "unknown"
    /\ req' = [req EXCEPT ![s] = [Idle EXCEPT !.pc = "insert", !.user = u]]
    /\ UNCHANGED <<now, settings, users, redis, clients, ghosts>>

(* The unique index on the email refuses a second row.                     *)
InsertUser(s) ==
    /\ req[s].pc = "insert"
    /\ users' = IF users[req[s].user] = "unknown"
                THEN [users EXCEPT ![req[s].user] = "active"] ELSE users
    /\ req' = [req EXCEPT ![s] = Idle]
    /\ UNCHANGED <<now, settings, redis, clients, ghosts>>

-----------------------------------------------------------------------------
(* Login: FindByEmail, bcrypt and the check of is_active on the row that   *)
(* was read, the signing of the access token, SET of the refresh token.    *)

LoginRequest(s, u) ==
    /\ req[s].pc = "idle"
    /\ users[u] = "active"
    /\ req' = [req EXCEPT ![s] = [Idle EXCEPT !.pc = "sign", !.user = u]]
    /\ UNCHANGED <<now, settings, users, redis, clients, ghosts>>

(* generateAccessToken: when the token expires.                            *)
Expiry_OfRefresh == now + RefreshTTL

Expiry == now + AccessTTL

Issued(s, exp, rid) ==
    Append(access, [user |-> req[s].user, exp |-> exp, rid |-> rid,
                    crossed |-> req[s].crossed])

(* A login goes on to store its refresh token, a refresh answers.          *)
Sign(s) ==
    /\ req[s].pc = "sign"
    /\ IF req[s].rid = 0
       THEN /\ req' = [req EXCEPT ![s].pc = "store", ![s].exp = Expiry]
            /\ UNCHANGED access
       ELSE /\ Len(access) < MaxTokens
            /\ access' = Issued(s, Expiry, req[s].rid)
            /\ req' = [req EXCEPT ![s] = Idle]
    /\ UNCHANGED <<now, settings, users, redis, logins, ghosts>>

(* What a login makes of an error of Redis.                                *)
Tolerated_Always == TRUE

Tolerated == ~production

(* storeRefreshToken, with or without an error; with an error the key may  *)
(* be there all the same.  A refresh token that is not handed out is known *)
(* to nobody: whether its key is there makes no difference.                *)
Store(s) ==
    LET r == Len(logins) + 1 IN
    /\ req[s].pc = "store"
    /\ Len(access) < MaxTokens
    /\ r <= MaxLogins
    /\ \E set, answered \in BOOLEAN :
         /\ answered => set \/ ~connected
         /\ set => connected
         /\ answered \/ Tolerated
         /\ refresh' = IF set THEN [refresh EXCEPT ![r] = now + RefreshTTL]
                       ELSE refresh
    /\ promised' = IF production
                   THEN [promised EXCEPT ![r] = now + RefreshTTL]
                   ELSE promised
    /\ logins' = Append(logins, req[s].user)
    /\ access' = Issued(s, req[s].exp, r)
    /\ req' = [req EXCEPT ![s] = Idle]
    /\ UNCHANGED <<now, settings, users, blacklist, gone, over, revoked>>

-----------------------------------------------------------------------------
(* Refresh: GET of the key, FindByID, the signing of a new access token.   *)

RefreshRequest(s, r) ==
    /\ req[s].pc = "idle"
    /\ connected
    /\ now < refresh[r]
    /\ req' = [req EXCEPT ![s] = [Idle EXCEPT !.pc = "find",
                                              !.user = logins[r], !.rid = r]]
    /\ UNCHANGED <<now, settings, users, redis, clients, ghosts>>

MayRefresh_Anyone(u) == TRUE

MayRefresh(u) == users[u] = "active"

FindUser(s) ==
    /\ req[s].pc = "find"
    /\ req' = [req EXCEPT ![s] = IF MayRefresh(req[s].user)
                                 THEN [req[s] EXCEPT !.pc = "sign"] ELSE Idle]
    /\ UNCHANGED <<now, settings, users, redis, clients, ghosts>>

-----------------------------------------------------------------------------
(* Logout, behind the middleware: the expiry of the token and EXISTS of    *)
(* its jti, then SET of the jti for the remaining lifetime, and DEL of the *)
(* refresh token if the body names one.  If Redis does not answer, the     *)
(* middleware lets the request through.  Without Redis, Logout returns at  *)
(* once.  All other protected routes pass the same middleware and touch    *)
(* nothing here.                                                           *)

Blacklisted(j) == now < blacklist[j]

LogoutRequest(s, j, r) ==
    /\ req[s].pc = "idle"
    /\ connected
    /\ now < access[j].exp
    /\ \E answered \in BOOLEAN : answered => ~Blacklisted(j)
    /\ req' = [req EXCEPT ![s] = [Idle EXCEPT !.pc = "set", !.jti = j, !.rid = r]]
    /\ UNCHANGED <<now, settings, users, redis, clients, ghosts>>

Remaining_Truncated(j) == access[j].exp - now - 1

Remaining(j) == access[j].exp - now

WorthKeeping_Always(ttl) == TRUE

WorthKeeping(ttl) == ttl > 0

(* time.Until and SET, whose error is only logged.  To Redis, a time to    *)
(* live of 0 means for ever.  It counts from when Redis gets the command:  *)
(* a delay in between only keeps the key longer, and is left out.          *)
SetBlacklist(s) ==
    LET j == req[s].jti
        ttl == Remaining(j)
    IN
    /\ req[s].pc = "set"
    /\ \/ /\ WorthKeeping(ttl)
          /\ blacklist' = [blacklist EXCEPT
                             ![j] = IF ttl <= 0 THEN Forever ELSE now + ttl]
          /\ revoked' = revoked \union {j}
       \/ UNCHANGED <<blacklist, revoked>>
    /\ req' = [req EXCEPT ![s] = IF req[s].rid = 0 THEN Idle
                                 ELSE [req[s] EXCEPT !.pc = "del"]]
    /\ UNCHANGED <<now, settings, users, refresh, clients, gone, over, promised>>

(* DEL, whose error is ignored.                                            *)
DeletedKey_Kept(r) == refresh

DeletedKey(r) == [refresh EXCEPT ![r] = 0]

Forget(s) ==
    LET r == req[s].rid IN
    /\ req[s].pc = "del"
    /\ \/ /\ refresh' = DeletedKey(r)
          /\ over' = [over EXCEPT ![r] = IF @ = 0 THEN now ELSE @]
          /\ promised' = [promised EXCEPT ![r] = 0]
          /\ req' = [t \in Slots |->
                       IF t = s THEN Idle ELSE Crossed(t, req[t].rid = r)]
       \/ /\ req' = [req EXCEPT ![s] = Idle]
          /\ UNCHANGED <<refresh, over, promised>>
    /\ UNCHANGED <<now, settings, users, blacklist, clients, gone, revoked>>

-----------------------------------------------------------------------------
Handle(s) ==
    \/ \E u \in Users : RegisterRequest(s, u) \/ LoginRequest(s, u)
    \/ \E r \in 1 .. Len(logins) : RefreshRequest(s, r)
    \/ \E j \in 1 .. Len(access), r \in 0 .. Len(logins) : LogoutRequest(s, j, r)
    \/ InsertUser(s)
    \/ FindUser(s)
    \/ Sign(s)
    \/ Store(s)
    \/ SetBlacklist(s)
    \/ Forget(s)
    \/ Fail(s)

Next ==
    \/ Tick
    \/ RedisLosesKeys
    \/ \E u \in Users : Deactivate(u)
    \/ \E s \in Slots : Handle(s)

Spec == Init /\ [][Next]_vars

-----------------------------------------------------------------------------
(* Logout revokes: once the SET of a jti is done, the token is refused     *)
(* until it expires by itself, unless Redis loses the key or cannot be     *)
(* asked (auth/service.go:216-222, middleware/auth.go:101-103).            *)
RevokedRefused ==
    \A j \in revoked : now < access[j].exp => Blacklisted(j)

(* The blacklist does not pile up: an entry is gone after the lifetime of  *)
(* a token at the latest ("bounding Redis memory growth",                  *)
(* auth/service.go:222).                                                   *)
BlacklistShortLived ==
    \A j \in Jtis : blacklist[j] <= now + AccessTTL

(* After the refresh token of a session is deleted, whatever happens       *)
(* before and at the same time, its access tokens run out within the       *)
(* lifetime of one, except those of a Refresh that was at work just then   *)
(* (auth/service.go:240-244).                                              *)
SessionOver ==
    \A j \in 1 .. Len(access) :
        LET t == access[j] IN
        over[t.rid] # 0 /\ ~t.crossed => t.exp <= over[t.rid] + AccessTTL

(* So do all tokens of a user after his deactivation, which the middleware *)
(* does not look at (auth/service.go:138-143, 194-198).                    *)
DeactivatedFadesOut ==
    \A j \in 1 .. Len(access) :
        LET t == access[j] IN
        gone[t.user] # 0 /\ ~t.crossed => t.exp <= gone[t.user] + AccessTTL

(* In production a refresh token that a client has works for RefreshTTL    *)
(* unless he logs out with it or Redis loses the key: Redis being out of   *)
(* reach during a login is an error (auth/service.go:158-165).             *)
ProductionKeepsSessions ==
    \A r \in Rids : now < promised[r] => now < refresh[r]

=============================================================================
