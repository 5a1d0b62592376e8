--------------------------- MODULE SessionsProofs ---------------------------
(***************************************************************************)
(* Proofs about Sessions, for any number of users, requests and tokens and *)
(* any lifetimes.                                                          *)
(***************************************************************************)
EXTENDS Sessions, TLAPS

(* What holds of the local variables r of a request at time n, with so     *)
(* many tokens out: its token is not good for longer than AccessTTL, it    *)
(* works on tokens that exist, and if it is about to issue one for a       *)
(* session that is over or a user who is gone, it was at work before that. *)
Sound(r, n, tokens, sessions, ov, go) ==
    /\ r.exp <= n + AccessTTL
    /\ r.pc = "set" => r.jti \in 1 .. tokens
    /\ r.rid <= sessions
    /\ r.pc \in {"find", "del"} => r.rid # 0
    /\ r.pc = "store" => r.rid = 0
    /\ r.pc \in {"find", "sign"} /\ r.rid # 0 /\ ov[r.rid] # 0 => r.crossed
    /\ r.pc \in {"sign", "store"} /\ go[r.user] # 0 => r.crossed

RequestsSound ==
    \A s \in Slots : Sound(req[s], now, Len(access), Len(logins), over, gone)

(* A session that is over has no key, and never gets one again.  A promise *)
(* is kept by a key that lives as long.                                    *)
SessionKeys ==
    \A r \in Rids :
        /\ over[r] # 0 => r <= Len(logins) /\ refresh[r] = 0
        /\ r > Len(logins) => promised[r] = 0
        /\ now < promised[r] => promised[r] <= refresh[r]

(* An entry of the blacklist that Redis confirmed lasts as long as the     *)
(* token.                                                                  *)
BlacklistKeys ==
    /\ \A j \in revoked :
         /\ j \in 1 .. Len(access)
         /\ now < access[j].exp => access[j].exp <= blacklist[j]
    /\ BlacklistShortLived

Gone == \A u \in Users : gone[u] # 0 => users[u] = "inactive"

IInv ==
    /\ TypeOK
    /\ RequestsSound
    /\ SessionKeys
    /\ BlacklistKeys
    /\ Gone
    /\ SessionOver
    /\ DeactivatedFadesOut

-----------------------------------------------------------------------------
LEMMA ConstantsOK ==
  /\ AccessTTL \in Nat /\ AccessTTL > 0 /\ RefreshTTL \in Nat /\ RefreshTTL > 0
  /\ MaxTime \in Nat /\ MaxTokens \in Nat /\ MaxLogins \in Nat
  /\ Forever \in Nat
  BY SessionsAssumption DEF Forever

LEMMA IdleOK ==
  /\ Idle \in Request
  /\ Idle.pc = "idle" /\ Idle.rid = 0 /\ Idle.jti = 0 /\ Idle.exp = 0
  /\ Idle.crossed = FALSE
<1>1. (CHOOSE u \in Users : TRUE) \in Users
  BY SessionsAssumption
<1> QED
  BY <1>1 DEF Idle, Request

LEMMA IdleSound ==
  ASSUME NEW n \in Nat, NEW a \in Nat, NEW l \in Nat, NEW ov, NEW go
  PROVE  Sound(Idle, n, a, l, ov, go)
  BY IdleOK, ConstantsOK DEF Sound

LEMMA InitIInv == Init => IInv
<1> SUFFICES ASSUME Init PROVE IInv
  OBVIOUS
<1> USE ConstantsOK
<1>1. /\ now = 1 /\ access = <<>> /\ logins = <<>> /\ revoked = {}
      /\ Len(access) = 0 /\ Len(logins) = 0
  BY DEF Init
<1>2. \A s \in Slots : req[s] = Idle
  BY DEF Init
<1>3. RequestsSound
  <2>1. 1 \in Nat /\ 0 \in Nat
    OBVIOUS
  <2> QED
    BY <1>1, <1>2, <2>1, IdleSound DEF RequestsSound
<1>4. TypeOK
  <2>1. req \in [Slots -> Request]
    BY IdleOK DEF Init
  <2>2. now \in 1 .. MaxTime
    BY <1>1, SessionsAssumption
  <2>3. access \in Seq(Token) /\ logins \in Seq(Users)
    BY <1>1
  <2>4. /\ refresh \in [Rids -> 0 .. Forever]
        /\ blacklist \in [Jtis -> 0 .. Forever]
        /\ gone \in [Users -> Nat] /\ over \in [Rids -> Nat]
        /\ promised \in [Rids -> Nat]
    BY DEF Init
  <2>5. users \in [Users -> Status]
    BY DEF Init, Status
  <2> QED
    BY <1>1, <2>1, <2>2, <2>3, <2>4, <2>5 DEF Init, TypeOK
<1>5. SessionKeys
  BY <1>1 DEF Init, SessionKeys, Rids
<1>6. BlacklistKeys
  BY <1>1 DEF Init, BlacklistKeys, BlacklistShortLived, Jtis
<1>7. Gone
  BY DEF Init, Gone
<1>8. SessionOver /\ DeactivatedFadesOut
  BY <1>1 DEF SessionOver, DeactivatedFadesOut
<1> QED
  BY <1>3, <1>4, <1>5, <1>6, <1>7, <1>8 DEF IInv

-----------------------------------------------------------------------------
(* A step that replaces one request by a sound one, and issues tokens or   *)
(* not, leaves all requests sound.                                         *)
LEMMA OneRequest ==
  ASSUME IInv, NEW s \in Slots, NEW r \in Request,
         req' = [req EXCEPT ![s] = r],
         now' = now, over' = over, gone' = gone,
         Len(access') \in Nat, Len(access) <= Len(access'),
         Len(logins') \in Nat, Len(logins) <= Len(logins'),
         Sound(r, now, Len(access'), Len(logins'), over, gone)
  PROVE  /\ req' \in [Slots -> Request]
         /\ RequestsSound'
<1>1. /\ req' \in [Slots -> Request]
      /\ req'[s] = r
      /\ \A t \in Slots : t # s => req'[t] = req[t]
  BY DEF IInv, TypeOK
<1>2. ASSUME NEW t \in Slots
      PROVE  Sound(req'[t], now', Len(access'), Len(logins'), over', gone')
  <2>1. CASE t = s
    BY <1>1, <2>1
  <2>2. CASE t # s
    <3>1. /\ Sound(req[t], now, Len(access), Len(logins), over, gone)
          /\ req[t] \in Request /\ req'[t] = req[t]
      BY <1>1, <2>2 DEF IInv, TypeOK, RequestsSound
    <3>2. req[t].jti \in Nat /\ req[t].rid \in Nat
      BY <3>1 DEF Request, Jtis, Rids
    <3>3. Len(access) \in Nat /\ Len(logins) \in Nat
      BY DEF IInv, TypeOK
    <3> QED
      BY <3>1, <3>2, <3>3 DEF Sound
  <2> QED
    BY <2>1, <2>2
<1> QED
  BY <1>1, <1>2 DEF RequestsSound

(* A step that changes nothing but one request.                            *)
LEMMA RequestStep ==
  ASSUME IInv, NEW s \in Slots, NEW r \in Request,
         req' = [req EXCEPT ![s] = r],
         UNCHANGED <<now, settings, users, redis, clients, ghosts>>,
         Sound(r, now, Len(access), Len(logins), over, gone)
  PROVE  IInv'
<1>1. UNCHANGED <<now, production, connected, users, refresh, blacklist, access,
                  logins, gone, over, promised, revoked>>
  BY DEF settings, redis, clients, ghosts
<1>2. /\ Len(access') \in Nat /\ Len(access) <= Len(access')
      /\ Len(logins') \in Nat /\ Len(logins) <= Len(logins')
  BY <1>1 DEF IInv, TypeOK
<1>3. req' \in [Slots -> Request] /\ RequestsSound'
  BY <1>1, <1>2, OneRequest
<1>4. TypeOK'
  BY <1>1, <1>3 DEF IInv, TypeOK
<1>5. SessionKeys' /\ BlacklistKeys' /\ Gone' /\ SessionOver' /\ DeactivatedFadesOut'
  BY <1>1 DEF IInv, SessionKeys, BlacklistKeys, BlacklistShortLived, Gone,
              SessionOver, DeactivatedFadesOut
<1> QED
  BY <1>3, <1>4, <1>5 DEF IInv

-----------------------------------------------------------------------------
(* The steps of a request that change nothing else.                        *)

LEMMA Lengths ==
  ASSUME IInv
  PROVE  /\ now \in Nat /\ now > 0 /\ now <= MaxTime
         /\ Len(access) \in Nat /\ Len(logins) \in Nat
         /\ Len(access) <= MaxTokens /\ Len(logins) <= MaxLogins
         /\ 1 .. Len(access) \subseteq Jtis /\ 1 .. Len(logins) \subseteq Rids
<1>1. /\ now \in 1 .. MaxTime
      /\ access \in Seq(Token) /\ Len(access) <= MaxTokens
      /\ logins \in Seq(Users) /\ Len(logins) <= MaxLogins
  BY DEF IInv, TypeOK
<1>2. Len(access) \in Nat /\ Len(logins) \in Nat
  BY <1>1
<1> QED
  BY <1>1, <1>2, ConstantsOK DEF Jtis, Rids

LEMMA FailKeeps ==
  ASSUME IInv, NEW s \in Slots, Fail(s)
  PROVE  IInv'
<1>1. Sound(Idle, now, Len(access), Len(logins), over, gone)
  BY Lengths, IdleSound
<1> QED
  BY <1>1, IdleOK, RequestStep DEF Fail

LEMMA RegisterRequestKeeps ==
  ASSUME IInv, NEW s \in Slots, NEW u \in Users, RegisterRequest(s, u)
  PROVE  IInv'
<1> DEFINE r == [Idle EXCEPT !.pc = "insert", !.user = u]
<1>1. r \in Request /\ r.pc = "insert" /\ r.rid = 0 /\ r.exp = 0
  BY IdleOK DEF Request
<1>2. req' = [req EXCEPT ![s] = r]
      /\ UNCHANGED <<now, settings, users, redis, clients, ghosts>>
  BY DEF RegisterRequest
<1> HIDE DEF r
<1>3. Sound(r, now, Len(access), Len(logins), over, gone)
  BY <1>1, Lengths, ConstantsOK DEF Sound
<1> QED
  BY <1>1, <1>2, <1>3, RequestStep

LEMMA LoginRequestKeeps ==
  ASSUME IInv, NEW s \in Slots, NEW u \in Users, LoginRequest(s, u)
  PROVE  IInv'
<1> DEFINE r == [Idle EXCEPT !.pc = "sign", !.user = u]
<1>1. r \in Request /\ r.pc = "sign" /\ r.rid = 0 /\ r.exp = 0 /\ r.user = u
  BY IdleOK DEF Request
<1>2. req' = [req EXCEPT ![s] = r]
      /\ UNCHANGED <<now, settings, users, redis, clients, ghosts>>
  BY DEF LoginRequest
<1>3. gone[u] = 0
  BY DEF LoginRequest, IInv, Gone
<1> HIDE DEF r
<1>4. Sound(r, now, Len(access), Len(logins), over, gone)
  BY <1>1, <1>3, Lengths, ConstantsOK DEF Sound
<1> QED
  BY <1>1, <1>2, <1>4, RequestStep

LEMMA RefreshRequestKeeps ==
  ASSUME IInv, NEW s \in Slots, NEW i \in 1 .. Len(logins), RefreshRequest(s, i)
  PROVE  IInv'
<1> DEFINE r == [Idle EXCEPT !.pc = "find", !.user = logins[i], !.rid = i]
<1>1. i \in Rids /\ i # 0 /\ i <= Len(logins) /\ logins[i] \in Users
  BY Lengths DEF IInv, TypeOK
<1>2. r \in Request /\ r.pc = "find" /\ r.rid = i /\ r.exp = 0
  BY <1>1, IdleOK DEF Request
<1>3. req' = [req EXCEPT ![s] = r]
      /\ UNCHANGED <<now, settings, users, redis, clients, ghosts>>
  BY DEF RefreshRequest
<1>4. over[i] = 0
  <2>1. now < refresh[i]
    BY DEF RefreshRequest
  <2> QED
    BY <1>1, <2>1, Lengths DEF IInv, SessionKeys
<1> HIDE DEF r
<1>5. Sound(r, now, Len(access), Len(logins), over, gone)
  BY <1>1, <1>2, <1>4, Lengths, ConstantsOK DEF Sound
<1> QED
  BY <1>2, <1>3, <1>5, RequestStep

LEMMA FindUserKeeps ==
  ASSUME IInv, NEW s \in Slots, FindUser(s)
  PROVE  IInv'
<1> DEFINE r == [req[s] EXCEPT !.pc = "sign"]
<1>1. /\ req[s] \in Request /\ req[s].pc = "find"
      /\ Sound(req[s], now, Len(access), Len(logins), over, gone)
      /\ UNCHANGED <<now, settings, users, redis, clients, ghosts>>
  BY DEF FindUser, IInv, TypeOK, RequestsSound
<1>2. CASE MayRefresh(req[s].user)
  <2>1. req' = [req EXCEPT ![s] = r]
    BY <1>2 DEF FindUser
  <2>2. /\ r \in Request /\ r.pc = "sign" /\ r.exp = req[s].exp
        /\ r.rid = req[s].rid /\ r.crossed = req[s].crossed
        /\ r.user = req[s].user
    BY <1>1 DEF Request
  <2>3. gone[req[s].user] = 0
    BY <1>1, <1>2 DEF MayRefresh, IInv, Gone, Request
  <2> HIDE DEF r
  <2>4. Sound(r, now, Len(access), Len(logins), over, gone)
    BY <1>1, <2>2, <2>3 DEF Sound
  <2> QED
    BY <1>1, <2>1, <2>2, <2>4, RequestStep
<1>3. CASE ~MayRefresh(req[s].user)
  <2>1. Sound(Idle, now, Len(access), Len(logins), over, gone)
    BY Lengths, IdleSound
  <2>2. req' = [req EXCEPT ![s] = Idle]
    BY <1>3 DEF FindUser
  <2> QED
    BY <1>1, <2>1, <2>2, IdleOK, RequestStep
<1> QED
  BY <1>2, <1>3

LEMMA LogoutRequestKeeps ==
  ASSUME IInv, NEW s \in Slots, NEW j \in 1 .. Len(access),
         NEW i \in 0 .. Len(logins), LogoutRequest(s, j, i)
  PROVE  IInv'
<1> DEFINE r == [Idle EXCEPT !.pc = "set", !.jti = j, !.rid = i]
<1>1. j \in Jtis /\ i \in Rids \union {0} /\ i <= Len(logins)
  BY Lengths DEF Rids
<1>2. r \in Request /\ r.pc = "set" /\ r.rid = i /\ r.jti = j /\ r.exp = 0
  BY <1>1, IdleOK DEF Request
<1>3. req' = [req EXCEPT ![s] = r]
      /\ UNCHANGED <<now, settings, users, redis, clients, ghosts>>
  BY DEF LogoutRequest
<1> HIDE DEF r
<1>4. Sound(r, now, Len(access), Len(logins), over, gone)
  BY <1>1, <1>2, Lengths, ConstantsOK DEF Sound
<1> QED
  BY <1>2, <1>3, <1>4, RequestStep

-----------------------------------------------------------------------------
(* The steps that issue a token.                                           *)

(* A new token in the list.                                                *)
LEMMA Issue ==
  ASSUME IInv, NEW t \in Token, access' = Append(access, t),
         Len(access) < MaxTokens, now' = now,
         t.exp <= now + AccessTTL,
         over' = over, gone' = gone,
         over[t.rid] # 0 => t.crossed,
         gone[t.user] # 0 => t.crossed
  PROVE  /\ access' \in Seq(Token) /\ Len(access') <= MaxTokens
         /\ Len(access') = Len(access) + 1
         /\ \A j \in 1 .. Len(access) : access'[j] = access[j]
         /\ \A j \in 1 .. Len(access') : access'[j].exp <= now' + AccessTTL
         /\ SessionOver'
         /\ DeactivatedFadesOut'
<1>1. /\ access' \in Seq(Token) /\ Len(access') = Len(access) + 1
      /\ \A j \in 1 .. Len(access) : access'[j] = access[j]
      /\ access'[Len(access) + 1] = t
  BY DEF IInv, TypeOK
<1>2. ASSUME NEW j \in 1 .. Len(access')
      PROVE  j \in 1 .. Len(access) \/ access'[j] = t
  BY <1>1, Lengths
<1>3. \A j \in 1 .. Len(access') : access'[j].exp <= now' + AccessTTL
  BY <1>1, <1>2 DEF IInv, TypeOK
<1>4. SessionOver'
  BY <1>1, <1>2 DEF IInv, SessionOver
<1>5. DeactivatedFadesOut'
  BY <1>1, <1>2 DEF IInv, DeactivatedFadesOut
<1>6. Len(access') <= MaxTokens
  BY <1>1, Lengths, ConstantsOK
<1> QED
  BY <1>1, <1>3, <1>4, <1>5, <1>6

(* The blacklist does not care for it.                                     *)
LEMMA BlacklistStays ==
  ASSUME IInv, UNCHANGED <<now, blacklist, revoked>>,
         Len(access') \in Nat, Len(access) <= Len(access'),
         \A j \in 1 .. Len(access) : access'[j] = access[j]
  PROVE  BlacklistKeys'
  BY Lengths DEF IInv, BlacklistKeys, BlacklistShortLived

LEMMA SignKeeps ==
  ASSUME IInv, NEW s \in Slots, Sign(s)
  PROVE  IInv'
<1>1. /\ req[s] \in Request /\ req[s].pc = "sign"
      /\ Sound(req[s], now, Len(access), Len(logins), over, gone)
      /\ UNCHANGED <<now, production, connected, users, refresh, blacklist,
                     logins, gone, over, promised, revoked>>
  BY DEF Sign, IInv, TypeOK, RequestsSound, settings, redis, ghosts
<1>2. now + AccessTTL \in Nat
  BY Lengths, ConstantsOK
<1>3. CASE req[s].rid = 0
  <2> DEFINE r == [req[s] EXCEPT !.pc = "store", !.exp = now + AccessTTL]
  <2>1. req' = [req EXCEPT ![s].pc = "store", ![s].exp = now + AccessTTL]
        /\ access' = access
    BY <1>3 DEF Sign, Expiry
  <2>2. req' = [req EXCEPT ![s] = r]
    BY <2>1 DEF IInv, TypeOK
  <2>3. /\ r \in Request /\ r.pc = "store" /\ r.exp = now + AccessTTL
        /\ r.rid = req[s].rid /\ r.crossed = req[s].crossed
        /\ r.user = req[s].user
    BY <1>1, <1>2 DEF Request
  <2> HIDE DEF r
  <2>4. Sound(r, now, Len(access), Len(logins), over, gone)
    BY <1>1, <1>2, <1>3, <2>3 DEF Sound
  <2>5. UNCHANGED <<now, settings, users, redis, clients, ghosts>>
    BY <1>1, <2>1 DEF settings, redis, clients, ghosts
  <2> QED
    BY <2>2, <2>3, <2>4, <2>5, RequestStep
<1>4. CASE req[s].rid # 0
  <2> DEFINE t == [user |-> req[s].user, exp |-> now + AccessTTL,
                   rid |-> req[s].rid, crossed |-> req[s].crossed]
  <2>1. /\ access' = Append(access, t) /\ Len(access) < MaxTokens
        /\ req' = [req EXCEPT ![s] = Idle]
    BY <1>4 DEF Sign, Expiry, Issued
  <2>2. /\ t \in Token /\ t.exp = now + AccessTTL /\ t.rid = req[s].rid
        /\ t.crossed = req[s].crossed /\ t.user = req[s].user
    BY <1>1, <1>2, <1>4 DEF Request, Token
  <2> HIDE DEF t
  <2>3. (over[t.rid] # 0 => t.crossed) /\ (gone[t.user] # 0 => t.crossed)
    BY <1>1, <1>4, <2>2 DEF Sound
  <2>4. /\ access' \in Seq(Token) /\ Len(access') <= MaxTokens
        /\ Len(access') = Len(access) + 1
        /\ \A j \in 1 .. Len(access) : access'[j] = access[j]
        /\ \A j \in 1 .. Len(access') : access'[j].exp <= now' + AccessTTL
        /\ SessionOver' /\ DeactivatedFadesOut'
    BY <1>1, <1>2, <2>1, <2>2, <2>3, Issue
  <2>5. Len(access') \in Nat /\ Len(access) <= Len(access')
        /\ Len(logins') \in Nat /\ Len(logins) <= Len(logins')
    BY <1>1, <2>4, Lengths
  <2>6. req' \in [Slots -> Request] /\ RequestsSound'
    <3>1. Sound(Idle, now, Len(access'), Len(logins'), over, gone)
      BY <2>5, Lengths, IdleSound
    <3> QED
      BY <1>1, <2>1, <2>5, <3>1, IdleOK, OneRequest
  <2>7. TypeOK'
    BY <1>1, <2>4, <2>6 DEF IInv, TypeOK
  <2>8. SessionKeys' /\ Gone'
    BY <1>1 DEF IInv, SessionKeys, Gone
  <2>9. BlacklistKeys'
    BY <1>1, <2>4, <2>5, BlacklistStays
  <2> QED
    BY <2>4, <2>6, <2>7, <2>8, <2>9 DEF IInv
<1> QED
  BY <1>3, <1>4

LEMMA StoreKeeps ==
  ASSUME IInv, NEW s \in Slots, Store(s)
  PROVE  IInv'
<1> DEFINE r == Len(logins) + 1
           t == [user |-> req[s].user, exp |-> req[s].exp, rid |-> r,
                 crossed |-> req[s].crossed]
<1>1. /\ req[s] \in Request /\ req[s].pc = "store"
      /\ Sound(req[s], now, Len(access), Len(logins), over, gone)
      /\ UNCHANGED <<now, production, connected, users, blacklist, gone, over,
                     revoked>>
  BY DEF Store, IInv, TypeOK, RequestsSound, settings
<1>2. /\ Len(access) < MaxTokens /\ r <= MaxLogins
      /\ logins' = Append(logins, req[s].user)
      /\ access' = Append(access, t)
      /\ req' = [req EXCEPT ![s] = Idle]
      /\ promised' = IF production
                     THEN [promised EXCEPT ![r] = now + RefreshTTL] ELSE promised
  BY DEF Store, Issued
<1>3. PICK set \in BOOLEAN, answered \in BOOLEAN :
         /\ answered => set \/ ~connected
         /\ set => connected
         /\ answered \/ Tolerated
         /\ refresh' = IF set THEN [refresh EXCEPT ![r] = now + RefreshTTL]
                       ELSE refresh
  BY DEF Store
<1>4. r \in Rids /\ r \in Nat /\ r > Len(logins)
  BY <1>2, Lengths DEF Rids
<1>5. now + RefreshTTL \in 0 .. Forever /\ now + RefreshTTL \in Nat
  BY Lengths, ConstantsOK DEF Forever
<1>6. over[r] = 0 /\ promised[r] = 0
  BY <1>4, Lengths DEF IInv, SessionKeys
<1>7. /\ t \in Token /\ t.exp = req[s].exp /\ t.rid = r
      /\ t.crossed = req[s].crossed /\ t.user = req[s].user
  BY <1>1, <1>4 DEF Request, Token
<1> HIDE DEF t
<1>8. /\ t.exp <= now + AccessTTL
      /\ over[t.rid] # 0 => t.crossed
      /\ gone[t.user] # 0 => t.crossed
  BY <1>1, <1>6, <1>7 DEF Sound
<1>9. /\ access' \in Seq(Token) /\ Len(access') <= MaxTokens
      /\ Len(access') = Len(access) + 1
      /\ \A j \in 1 .. Len(access) : access'[j] = access[j]
      /\ \A j \in 1 .. Len(access') : access'[j].exp <= now' + AccessTTL
      /\ SessionOver' /\ DeactivatedFadesOut'
  BY <1>1, <1>2, <1>7, <1>8, Issue
<1>10. /\ logins' \in Seq(Users) /\ Len(logins') = r
  BY <1>1, <1>2 DEF IInv, TypeOK, Request
<1>11. /\ Len(access') \in Nat /\ Len(access) <= Len(access')
       /\ Len(logins') \in Nat /\ Len(logins) <= Len(logins')
  BY <1>4, <1>9, <1>10, Lengths
<1>12. req' \in [Slots -> Request] /\ RequestsSound'
  <2>1. Sound(Idle, now, Len(access'), Len(logins'), over, gone)
    BY <1>11, Lengths, IdleSound
  <2> QED
    BY <1>1, <1>2, <1>11, <2>1, IdleOK, OneRequest
<1>13. /\ refresh' \in [Rids -> 0 .. Forever]
       /\ \A i \in Rids : i # r => refresh'[i] = refresh[i]
  BY <1>3, <1>5 DEF IInv, TypeOK
<1>14. /\ promised' \in [Rids -> Nat]
       /\ \A i \in Rids : i # r => promised'[i] = promised[i]
  BY <1>2, <1>5 DEF IInv, TypeOK
<1>15. TypeOK'
  BY <1>1, <1>2, <1>9, <1>10, <1>12, <1>13, <1>14 DEF IInv, TypeOK
<1>16. SessionKeys'
  <2> SUFFICES ASSUME NEW i \in Rids
               PROVE  /\ over'[i] # 0 => i <= Len(logins') /\ refresh'[i] = 0
                      /\ i > Len(logins') => promised'[i] = 0
                      /\ now' < promised'[i] => promised'[i] <= refresh'[i]
    BY DEF SessionKeys
  <2>1. CASE i # r
    BY <1>1, <1>4, <1>10, <1>13, <1>14, <2>1, Lengths DEF IInv, SessionKeys, Rids
  <2>2. CASE i = r
    <3>1. over'[i] = 0 /\ ~(i > Len(logins'))
      BY <1>1, <1>4, <1>6, <1>10, <2>2
    <3>2. CASE production
      <4>1. set
        BY <1>3, <3>2 DEF Tolerated, IInv, TypeOK
      <4>2. refresh'[i] = now + RefreshTTL /\ promised'[i] = now + RefreshTTL
        BY <1>2, <1>3, <1>4, <2>2, <3>2, <4>1 DEF IInv, TypeOK
      <4> QED
        BY <1>5, <3>1, <4>2
    <3>3. CASE ~production
      <4>1. promised'[i] = 0
        BY <1>2, <1>6, <2>2, <3>3
      <4> QED
        BY <1>1, <3>1, <4>1, Lengths
    <3> QED
      BY <3>2, <3>3
  <2> QED
    BY <2>1, <2>2
<1>17. BlacklistKeys'
  BY <1>1, <1>9, <1>11, BlacklistStays
<1>18. Gone'
  BY <1>1 DEF IInv, Gone
<1> QED
  BY <1>9, <1>12, <1>15, <1>16, <1>17, <1>18 DEF IInv

-----------------------------------------------------------------------------
(* The other steps.                                                        *)

LEMMA InsertUserKeeps ==
  ASSUME IInv, NEW s \in Slots, InsertUser(s)
  PROVE  IInv'
<1>1. /\ req[s] \in Request
      /\ req' = [req EXCEPT ![s] = Idle]
      /\ users' = IF users[req[s].user] = "unknown"
                  THEN [users EXCEPT ![req[s].user] = "active"] ELSE users
      /\ UNCHANGED <<now, production, connected, refresh, blacklist, access,
                     logins, gone, over, promised, revoked>>
  BY DEF InsertUser, IInv, TypeOK, settings, redis, clients, ghosts
<1>2. /\ Len(access') \in Nat /\ Len(access) <= Len(access')
      /\ Len(logins') \in Nat /\ Len(logins) <= Len(logins')
  BY <1>1, Lengths
<1>3. req' \in [Slots -> Request] /\ RequestsSound'
  <2>1. Sound(Idle, now, Len(access'), Len(logins'), over, gone)
    BY <1>2, Lengths, IdleSound
  <2> QED
    BY <1>1, <1>2, <2>1, IdleOK, OneRequest
<1>4. users' \in [Users -> Status]
      /\ \A u \in Users : users[u] = "inactive" => users'[u] = "inactive"
  <2>1. req[s].user \in Users /\ "active" \in Status
    BY <1>1 DEF Request, Status
  <2>2. users' \in [Users -> Status]
    BY <1>1, <2>1 DEF IInv, TypeOK
  <2>3. ASSUME NEW u \in Users, users[u] = "inactive"
        PROVE  users'[u] = "inactive"
    BY <1>1, <2>1, <2>3 DEF IInv, TypeOK
  <2> QED
    BY <2>2, <2>3
<1>5. TypeOK'
  BY <1>1, <1>3, <1>4 DEF IInv, TypeOK
<1>6. Gone'
  BY <1>1, <1>4 DEF IInv, Gone
<1>7. SessionKeys' /\ BlacklistKeys' /\ SessionOver' /\ DeactivatedFadesOut'
  BY <1>1 DEF IInv, SessionKeys, BlacklistKeys, BlacklistShortLived,
              SessionOver, DeactivatedFadesOut
<1> QED
  BY <1>3, <1>5, <1>6, <1>7 DEF IInv

LEMMA SetBlacklistKeeps ==
  ASSUME IInv, NEW s \in Slots, SetBlacklist(s)
  PROVE  IInv'
<1> DEFINE j == req[s].jti
           ttl == access[j].exp - now
           r == IF req[s].rid = 0 THEN Idle ELSE [req[s] EXCEPT !.pc = "del"]
<1>1. /\ req[s] \in Request /\ req[s].pc = "set"
      /\ Sound(req[s], now, Len(access), Len(logins), over, gone)
      /\ req' = [req EXCEPT ![s] = r]
      /\ UNCHANGED <<now, production, connected, users, refresh, access,
                     logins, gone, over, promised>>
  BY DEF SetBlacklist, IInv, TypeOK, RequestsSound, settings, clients
<1>2. /\ j \in 1 .. Len(access) /\ j \in Jtis
      /\ access[j] \in Token /\ access[j].exp \in Nat
      /\ access[j].exp <= now + AccessTTL
  <2>1. j \in 1 .. Len(access)
    BY <1>1 DEF Sound
  <2>2. j \in Jtis
    BY <2>1, Lengths
  <2>3. access[j] \in Token /\ access[j].exp <= now + AccessTTL
    BY <2>1 DEF IInv, TypeOK
  <2> QED
    BY <2>1, <2>2, <2>3 DEF Token
<1>3. \/ /\ ttl > 0
         /\ blacklist' = [blacklist EXCEPT ![j] = access[j].exp]
         /\ revoked' = revoked \union {j}
      \/ UNCHANGED <<blacklist, revoked>>
  <2>1. now + ttl = access[j].exp
    BY <1>2, Lengths
  <2>2. ttl > 0 => ~(ttl <= 0)
    BY <1>2, Lengths
  <2> QED
    BY <2>1, <2>2 DEF SetBlacklist, WorthKeeping, Remaining
<1>4. /\ Len(access') \in Nat /\ Len(access) <= Len(access')
      /\ Len(logins') \in Nat /\ Len(logins) <= Len(logins')
  BY <1>1, Lengths
<1>5. r \in Request /\ Sound(r, now, Len(access), Len(logins), over, gone)
  <2>1. CASE req[s].rid = 0
    BY <2>1, IdleOK, IdleSound, Lengths
  <2>2. CASE req[s].rid # 0
    <3>1. /\ r \in Request /\ r.pc = "del" /\ r.rid = req[s].rid
          /\ r.exp = req[s].exp /\ r.rid # 0
      BY <1>1, <2>2 DEF Request
    <3> HIDE DEF r
    <3> QED
      BY <1>1, <3>1 DEF Sound
  <2> QED
    BY <2>1, <2>2
<1> HIDE DEF r
<1>6. req' \in [Slots -> Request] /\ RequestsSound'
  BY <1>1, <1>4, <1>5, OneRequest
<1>7. access[j].exp \in 0 .. Forever
  BY <1>2, Lengths, ConstantsOK DEF Forever
<1>8. blacklist' \in [Jtis -> 0 .. Forever] /\ revoked' \in SUBSET Jtis
  BY <1>2, <1>3, <1>7 DEF IInv, TypeOK
<1>9. TypeOK'
  BY <1>1, <1>6, <1>8 DEF IInv, TypeOK
<1>10. BlacklistKeys'
  <2>1. ASSUME NEW i \in revoked'
        PROVE  /\ i \in 1 .. Len(access')
               /\ now' < access'[i].exp => access'[i].exp <= blacklist'[i]
    BY <1>1, <1>2, <1>3, <1>7 DEF IInv, TypeOK, BlacklistKeys
  <2>2. ASSUME NEW i \in Jtis
        PROVE  blacklist'[i] <= now' + AccessTTL
    BY <1>1, <1>2, <1>3 DEF IInv, TypeOK, BlacklistKeys, BlacklistShortLived
  <2> QED
    BY <2>1, <2>2 DEF BlacklistKeys, BlacklistShortLived
<1>11. SessionKeys' /\ Gone' /\ SessionOver' /\ DeactivatedFadesOut'
  BY <1>1 DEF IInv, SessionKeys, Gone, SessionOver, DeactivatedFadesOut
<1> QED
  BY <1>6, <1>9, <1>10, <1>11 DEF IInv

(* What Crossed does to a request.                                         *)
LEMMA CrossedRequest ==
  ASSUME IInv, NEW t \in Slots, NEW concerned \in BOOLEAN
  PROVE  /\ Crossed(t, concerned) \in Request
         /\ Crossed(t, concerned).pc = req[t].pc
         /\ Crossed(t, concerned).user = req[t].user
         /\ Crossed(t, concerned).rid = req[t].rid
         /\ Crossed(t, concerned).jti = req[t].jti
         /\ Crossed(t, concerned).exp = req[t].exp
         /\ req[t].crossed => Crossed(t, concerned).crossed
         /\ concerned /\ req[t].pc \in {"find", "sign", "store"}
              => Crossed(t, concerned).crossed
<1>1. req[t] \in Request
  BY DEF IInv, TypeOK
<1> QED
  BY <1>1 DEF Crossed, Request

LEMMA ForgetKeeps ==
  ASSUME IInv, NEW s \in Slots, Forget(s)
  PROVE  IInv'
<1> DEFINE r == req[s].rid
<1>1. /\ req[s] \in Request /\ req[s].pc = "del"
      /\ Sound(req[s], now, Len(access), Len(logins), over, gone)
      /\ UNCHANGED <<now, production, connected, users, blacklist, access,
                     logins, gone, revoked>>
  BY DEF Forget, IInv, TypeOK, RequestsSound, settings, clients
<1>2. r \in Rids /\ r <= Len(logins) /\ r # 0
  BY <1>1 DEF Sound, Request
<1>3. CASE UNCHANGED <<refresh, over, promised>> /\ req' = [req EXCEPT ![s] = Idle]
  <2>1. UNCHANGED <<now, settings, users, redis, clients, ghosts>>
    BY <1>1, <1>3 DEF settings, redis, clients, ghosts
  <2>2. Sound(Idle, now, Len(access), Len(logins), over, gone)
    BY Lengths, IdleSound
  <2> QED
    BY <1>3, <2>1, <2>2, IdleOK, RequestStep
<1>4. CASE /\ refresh' = [refresh EXCEPT ![r] = 0]
           /\ over' = [over EXCEPT ![r] = IF @ = 0 THEN now ELSE @]
           /\ promised' = [promised EXCEPT ![r] = 0]
           /\ req' = [t \in Slots |->
                        IF t = s THEN Idle ELSE Crossed(t, req[t].rid = r)]
  <2>1. /\ refresh' \in [Rids -> 0 .. Forever] /\ refresh'[r] = 0
        /\ promised' \in [Rids -> Nat] /\ promised'[r] = 0
        /\ over' \in [Rids -> Nat]
        /\ over'[r] = IF over[r] = 0 THEN now ELSE over[r]
        /\ \A i \in Rids : i # r => /\ refresh'[i] = refresh[i]
                                    /\ promised'[i] = promised[i]
                                    /\ over'[i] = over[i]
    BY <1>2, <1>4, Lengths, ConstantsOK DEF IInv, TypeOK
  <2>2. ASSUME NEW t \in Slots
        PROVE  /\ req'[t] \in Request
               /\ Sound(req'[t], now', Len(access'), Len(logins'), over', gone')
    <3>1. CASE t = s
      <4>1. req'[t] = Idle
        BY <1>4, <3>1
      <4>2. Sound(Idle, now, Len(access), Len(logins), over', gone)
        BY Lengths, IdleSound
      <4> QED
        BY <1>1, <4>1, <4>2, IdleOK
    <3>2. CASE t # s
      <4>1. /\ req[t] \in Request
            /\ Sound(req[t], now, Len(access), Len(logins), over, gone)
        BY DEF IInv, TypeOK, RequestsSound
      <4>2. req'[t] = Crossed(t, req[t].rid = r)
        BY <1>4, <3>2
      <4>3. /\ req'[t] \in Request
            /\ req'[t].pc = req[t].pc /\ req'[t].user = req[t].user
            /\ req'[t].rid = req[t].rid /\ req'[t].jti = req[t].jti
            /\ req'[t].exp = req[t].exp
            /\ req[t].crossed => req'[t].crossed
            /\ req[t].rid = r /\ req[t].pc \in {"find", "sign", "store"}
                 => req'[t].crossed
        BY <4>2, CrossedRequest
      <4>4. req[t].rid \in Rids \union {0}
        BY <4>1 DEF Request
      <4> QED
        BY <1>1, <2>1, <4>1, <4>3, <4>4 DEF Sound
    <3> QED
      BY <3>1, <3>2
  <2>3. req' \in [Slots -> Request] /\ RequestsSound'
    BY <1>4, <2>2 DEF RequestsSound
  <2>4. TypeOK'
    BY <1>1, <2>1, <2>3 DEF IInv, TypeOK
  <2>5. SessionKeys'
    BY <1>1, <1>2, <2>1, Lengths DEF IInv, SessionKeys
  <2>6. BlacklistKeys' /\ Gone' /\ DeactivatedFadesOut'
    BY <1>1 DEF IInv, BlacklistKeys, BlacklistShortLived, Gone,
                DeactivatedFadesOut
  <2>7. SessionOver'
    <3> SUFFICES ASSUME NEW j \in 1 .. Len(access),
                        over'[access[j].rid] # 0, ~access[j].crossed
                 PROVE  access[j].exp <= over'[access[j].rid] + AccessTTL
      BY <1>1 DEF SessionOver
    <3>1. access[j] \in Token /\ access[j].exp <= now + AccessTTL
      BY DEF IInv, TypeOK
    <3>2. access[j].rid \in Rids
      BY <3>1 DEF Token
    <3> QED
      BY <2>1, <3>1, <3>2 DEF IInv, SessionOver
  <2> QED
    BY <2>3, <2>4, <2>5, <2>6, <2>7 DEF IInv
<1> QED
  BY <1>3, <1>4 DEF Forget, DeletedKey

LEMMA DeactivateKeeps ==
  ASSUME IInv, NEW u \in Users, Deactivate(u)
  PROVE  IInv'
<1>1. /\ users[u] = "active"
      /\ users' = [users EXCEPT ![u] = "inactive"]
      /\ gone' = [gone EXCEPT ![u] = now]
      /\ req' = [s \in Slots |-> Crossed(s, req[s].user = u)]
      /\ UNCHANGED <<now, production, connected, refresh, blacklist, access,
                     logins, over, promised, revoked>>
  BY DEF Deactivate, settings, redis, clients
<1>2. /\ gone' \in [Users -> Nat] /\ gone'[u] = now
      /\ \A v \in Users : v # u => gone'[v] = gone[v]
      /\ gone[u] = 0
  BY <1>1, Lengths DEF IInv, TypeOK, Gone
<1>3. users' \in [Users -> Status]
  BY <1>1 DEF IInv, TypeOK, Status
<1>4. ASSUME NEW t \in Slots
      PROVE  /\ req'[t] \in Request
             /\ Sound(req'[t], now', Len(access'), Len(logins'), over', gone')
  <2>1. /\ req[t] \in Request
        /\ Sound(req[t], now, Len(access), Len(logins), over, gone)
    BY DEF IInv, TypeOK, RequestsSound
  <2>2. req'[t] = Crossed(t, req[t].user = u)
    BY <1>1
  <2>3. /\ req'[t] \in Request
        /\ req'[t].pc = req[t].pc /\ req'[t].user = req[t].user
        /\ req'[t].rid = req[t].rid /\ req'[t].jti = req[t].jti
        /\ req'[t].exp = req[t].exp
        /\ req[t].crossed => req'[t].crossed
        /\ req[t].user = u /\ req[t].pc \in {"find", "sign", "store"}
             => req'[t].crossed
    BY <2>2, CrossedRequest
  <2>4. req[t].user \in Users
    BY <2>1 DEF Request
  <2> QED
    BY <1>1, <1>2, <2>1, <2>3, <2>4 DEF Sound
<1>5. req' \in [Slots -> Request] /\ RequestsSound'
  BY <1>1, <1>4 DEF RequestsSound
<1>6. TypeOK'
  BY <1>1, <1>2, <1>3, <1>5 DEF IInv, TypeOK
<1>7. Gone'
  BY <1>1, <1>2 DEF IInv, TypeOK, Gone
<1>8. SessionKeys' /\ BlacklistKeys' /\ SessionOver'
  BY <1>1 DEF IInv, SessionKeys, BlacklistKeys, BlacklistShortLived, SessionOver
<1>9. DeactivatedFadesOut'
  <2> SUFFICES ASSUME NEW j \in 1 .. Len(access),
                      gone'[access[j].user] # 0, ~access[j].crossed
               PROVE  access[j].exp <= gone'[access[j].user] + AccessTTL
    BY <1>1 DEF DeactivatedFadesOut
  <2>1. access[j] \in Token /\ access[j].exp <= now + AccessTTL
    BY DEF IInv, TypeOK
  <2>2. access[j].user \in Users
    BY <2>1 DEF Token
  <2> QED
    BY <1>2, <2>1, <2>2 DEF IInv, DeactivatedFadesOut
<1> QED
  BY <1>5, <1>6, <1>7, <1>8, <1>9 DEF IInv

LEMMA RedisLosesKeysKeeps ==
  ASSUME IInv, RedisLosesKeys
  PROVE  IInv'
<1>1. /\ refresh' = [r \in Rids |-> 0]
      /\ blacklist' = [j \in Jtis |-> 0]
      /\ promised' = [r \in Rids |-> 0]
      /\ revoked' = {}
      /\ UNCHANGED <<now, production, connected, users, access, logins, req,
                     gone, over>>
  BY DEF RedisLosesKeys, settings, clients
<1>2. TypeOK'
  BY <1>1, ConstantsOK DEF IInv, TypeOK
<1>3. RequestsSound' /\ Gone' /\ SessionOver' /\ DeactivatedFadesOut'
  BY <1>1 DEF IInv, RequestsSound, Gone, SessionOver, DeactivatedFadesOut
<1>4. SessionKeys'
  BY <1>1, Lengths DEF IInv, SessionKeys
<1>5. BlacklistKeys'
  <2>1. \A j \in Jtis : 0 <= now + AccessTTL
    BY Lengths, ConstantsOK
  <2> QED
    BY <1>1, <2>1 DEF BlacklistKeys, BlacklistShortLived
<1> QED
  BY <1>2, <1>3, <1>4, <1>5 DEF IInv

LEMMA TickKeeps ==
  ASSUME IInv, Tick
  PROVE  IInv'
<1>1. /\ now < MaxTime /\ now' = now + 1
      /\ refresh' = [r \in Rids |->
                       IF refresh[r] <= now + 1 THEN 0 ELSE refresh[r]]
      /\ blacklist' = [j \in Jtis |->
                         IF blacklist[j] <= now + 1 THEN 0 ELSE blacklist[j]]
      /\ UNCHANGED <<production, connected, users, access, logins, req, gone,
                     over, promised, revoked>>
  BY DEF Tick, settings, clients, ghosts
<1>2. now' \in 1 .. MaxTime /\ now + AccessTTL <= now' + AccessTTL
  BY <1>1, Lengths, ConstantsOK
<1>3. refresh' \in [Rids -> 0 .. Forever] /\ blacklist' \in [Jtis -> 0 .. Forever]
  BY <1>1, ConstantsOK DEF IInv, TypeOK
<1>4. \A j \in 1 .. Len(access') : access'[j].exp <= now' + AccessTTL
  <2> SUFFICES ASSUME NEW j \in 1 .. Len(access)
               PROVE  access[j].exp <= now' + AccessTTL
    BY <1>1
  <2>1. access[j] \in Token /\ access[j].exp <= now + AccessTTL
    BY DEF IInv, TypeOK
  <2>2. access[j].exp \in Nat
    BY <2>1 DEF Token
  <2> QED
    BY <1>1, <2>1, <2>2, Lengths, ConstantsOK
<1>5. TypeOK'
  BY <1>1, <1>2, <1>3, <1>4 DEF IInv, TypeOK
<1>6. RequestsSound'
  <2> SUFFICES ASSUME NEW t \in Slots
               PROVE  Sound(req[t], now + 1, Len(access), Len(logins), over, gone)
    BY <1>1 DEF RequestsSound
  <2>1. /\ req[t] \in Request
        /\ Sound(req[t], now, Len(access), Len(logins), over, gone)
    BY DEF IInv, TypeOK, RequestsSound
  <2>2. req[t].exp \in Nat
    BY <2>1 DEF Request
  <2>3. req[t].exp <= now + 1 + AccessTTL
    BY <2>1, <2>2, Lengths, ConstantsOK DEF Sound
  <2> QED
    BY <2>1, <2>3 DEF Sound
<1>7. SessionKeys'
  <2> SUFFICES ASSUME NEW r \in Rids
               PROVE  /\ over'[r] # 0 => r <= Len(logins') /\ refresh'[r] = 0
                      /\ r > Len(logins') => promised'[r] = 0
                      /\ now' < promised'[r] => promised'[r] <= refresh'[r]
    BY DEF SessionKeys
  <2>1. promised[r] \in Nat /\ refresh[r] \in Int /\ refresh[r] >= 0
    BY ConstantsOK DEF IInv, TypeOK
  <2> QED
    BY <1>1, <2>1, Lengths DEF IInv, SessionKeys
<1>8. BlacklistKeys'
  <2>1. ASSUME NEW j \in revoked
        PROVE  /\ j \in 1 .. Len(access')
               /\ now' < access'[j].exp => access'[j].exp <= blacklist'[j]
    <3>1. j \in 1 .. Len(access) /\ j \in Jtis
      BY Lengths DEF IInv, BlacklistKeys
    <3>2. access[j] \in Token
      BY <3>1 DEF IInv, TypeOK
    <3>3. access[j].exp \in Nat /\ blacklist[j] \in Int
      <4>1. access[j].exp \in Nat
        BY <3>2 DEF Token
      <4>2. blacklist \in [Jtis -> 0 .. Forever]
        BY DEF IInv, TypeOK
      <4> QED
        BY <3>1, <4>1, <4>2, ConstantsOK
    <3>4. blacklist'[j] = IF blacklist[j] <= now + 1 THEN 0 ELSE blacklist[j]
      BY <1>1, <3>1
    <3>5. now < access[j].exp => access[j].exp <= blacklist[j]
      BY DEF IInv, BlacklistKeys
    <3> QED
      BY <1>1, <3>1, <3>3, <3>4, <3>5, Lengths
  <2>2. ASSUME NEW j \in Jtis
        PROVE  blacklist'[j] <= now' + AccessTTL
    <3>1. blacklist[j] \in Int /\ blacklist[j] <= now + AccessTTL
      BY ConstantsOK DEF IInv, TypeOK, BlacklistKeys, BlacklistShortLived
    <3> QED
      BY <1>1, <3>1, Lengths, ConstantsOK
  <2> QED
    BY <1>1, <2>1, <2>2 DEF BlacklistKeys, BlacklistShortLived
<1>9. Gone' /\ SessionOver' /\ DeactivatedFadesOut'
  BY <1>1 DEF IInv, Gone, SessionOver, DeactivatedFadesOut
<1> QED
  BY <1>5, <1>6, <1>7, <1>8, <1>9 DEF IInv

-----------------------------------------------------------------------------
LEMMA NextIInv == IInv /\ [Next]_vars => IInv'
<1> SUFFICES ASSUME IInv, [Next]_vars PROVE IInv'
  OBVIOUS
<1>1. CASE Tick
  BY <1>1, TickKeeps
<1>2. CASE RedisLosesKeys
  BY <1>2, RedisLosesKeysKeeps
<1>3. ASSUME NEW u \in Users, Deactivate(u)
      PROVE  IInv'
  BY <1>3, DeactivateKeeps
<1>4. ASSUME NEW s \in Slots, Handle(s)
      PROVE  IInv'
  <2>1. ASSUME NEW u \in Users, RegisterRequest(s, u) \/ LoginRequest(s, u)
        PROVE  IInv'
    BY <2>1, RegisterRequestKeeps, LoginRequestKeeps
  <2>2. ASSUME NEW r \in 1 .. Len(logins), RefreshRequest(s, r)
        PROVE  IInv'
    BY <2>2, RefreshRequestKeeps
  <2>3. ASSUME NEW j \in 1 .. Len(access), NEW r \in 0 .. Len(logins),
               LogoutRequest(s, j, r)
        PROVE  IInv'
    BY <2>3, LogoutRequestKeeps
  <2>4. CASE InsertUser(s)
    BY <2>4, InsertUserKeeps
  <2>5. CASE FindUser(s)
    BY <2>5, FindUserKeeps
  <2>6. CASE Sign(s)
    BY <2>6, SignKeeps
  <2>7. CASE Store(s)
    BY <2>7, StoreKeeps
  <2>8. CASE SetBlacklist(s)
    BY <2>8, SetBlacklistKeeps
  <2>9. CASE Forget(s)
    BY <2>9, ForgetKeeps
  <2>10. CASE Fail(s)
    BY <2>10, FailKeeps
  <2> QED
    BY <1>4, <2>1, <2>2, <2>3, <2>4, <2>5, <2>6, <2>7, <2>8, <2>9, <2>10
       DEF Handle
<1>5. CASE UNCHANGED vars
  <2>1. TypeOK'
    BY <1>5 DEF vars, settings, redis, clients, ghosts, IInv, TypeOK
  <2>2. RequestsSound' /\ SessionKeys' /\ BlacklistKeys' /\ Gone'
    BY <1>5 DEF vars, settings, redis, clients, ghosts, IInv, RequestsSound,
                SessionKeys, BlacklistKeys, BlacklistShortLived, Gone
  <2>3. SessionOver' /\ DeactivatedFadesOut'
    BY <1>5 DEF vars, clients, ghosts, IInv, SessionOver, DeactivatedFadesOut
  <2> QED
    BY <2>1, <2>2, <2>3 DEF IInv
<1> QED
  BY <1>1, <1>2, <1>3, <1>4, <1>5 DEF Next

THEOREM Invariant == Spec => []IInv
  BY InitIInv, NextIInv, PTL DEF Spec

(* The table, the keys, the tokens and the local variables of the requests *)
(* keep their types.                                                       *)
THEOREM TypeCorrect == Spec => []TypeOK
<1>1. IInv => TypeOK
  BY DEF IInv
<1> QED
  BY Invariant, <1>1, PTL

(* A token whose blacklisting Redis confirmed is refused until it expires, *)
(* however long the request took between the check and the SET             *)
(* (auth/service.go:216-241).                                              *)
THEOREM Revokes == Spec => []RevokedRefused
<1>1. IInv => RevokedRefused
  <2> SUFFICES ASSUME IInv, NEW j \in revoked, now < access[j].exp
               PROVE  now < blacklist[j]
    BY DEF RevokedRefused, Blacklisted
  <2>1. j \in 1 .. Len(access) /\ j \in Jtis /\ access[j].exp <= blacklist[j]
    BY Lengths DEF IInv, BlacklistKeys
  <2>2. access[j] \in Token
    BY <2>1 DEF IInv, TypeOK
  <2>3. access[j].exp \in Nat /\ blacklist[j] \in Int
    <3>1. access[j].exp \in Nat
      BY <2>2 DEF Token
    <3>2. blacklist \in [Jtis -> 0 .. Forever]
      BY DEF IInv, TypeOK
    <3> QED
      BY <2>1, <3>1, <3>2, ConstantsOK
  <2> QED
    BY <2>1, <2>3, Lengths
<1> QED
  BY Invariant, <1>1, PTL

(* No entry of the blacklist outlives the lifetime of a token              *)
(* (auth/service.go:222, 233-235).                                         *)
THEOREM BlacklistBounded == Spec => []BlacklistShortLived
<1>1. IInv => BlacklistShortLived
  BY DEF IInv, BlacklistKeys
<1> QED
  BY Invariant, <1>1, PTL

(* The tokens of a session that was logged out run out within the lifetime *)
(* of one, but for those of a Refresh that was at work just then           *)
(* (auth/service.go:186-214, 243-250).                                     *)
THEOREM SessionsEnd == Spec => []SessionOver
<1>1. IInv => SessionOver
  BY DEF IInv
<1> QED
  BY Invariant, <1>1, PTL

(* So do those of a user who was deactivated                               *)
(* (auth/service.go:138-143, 194-202).                                     *)
THEOREM DeactivationWorks == Spec => []DeactivatedFadesOut
<1>1. IInv => DeactivatedFadesOut
  BY DEF IInv
<1> QED
  BY Invariant, <1>1, PTL

(* In production, a refresh token that was handed out works for its        *)
(* lifetime, unless it is logged out or Redis loses it                     *)
(* (auth/service.go:158-165).                                              *)
THEOREM SessionsLast == Spec => []ProductionKeepsSessions
<1>1. IInv => ProductionKeepsSessions
  <2> SUFFICES ASSUME IInv, NEW r \in Rids, now < promised[r]
               PROVE  now < refresh[r]
    BY DEF ProductionKeepsSessions
  <2>1. promised[r] <= refresh[r]
    BY DEF IInv, SessionKeys
  <2>2. promised[r] \in Nat /\ refresh[r] \in Int
    BY ConstantsOK DEF IInv, TypeOK
  <2> QED
    BY <2>1, <2>2, Lengths
<1> QED
  BY Invariant, <1>1, PTL

=============================================================================
