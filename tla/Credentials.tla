------------------------------ MODULE Credentials ------------------------------
(***************************************************************************)
(* Access tokens and API keys: AuthService of                                *)
(* src/metamcp/services/auth_service.py, the handlers of                      *)
(* src/metamcp/api/auth.py, and APIKeyManager of                              *)
(* src/metamcp/security/api_keys.py.  Tokens of both are signed with the same *)
(* secret, so either verifier decodes the other's; each has its own users and *)
(* its own blacklist.  A token is its user and the second it expires in: two  *)
(* logins of one second get the same token.  Keys are in memory and, through  *)
(* a task that nobody awaits, in the database.                                *)
(***************************************************************************)
EXTENDS Integers, TLAPS

CONSTANTS
    Users,          \* usernames
    DefaultUsers,   \* those that every process starts with
    Keys,           \* API keys
    Lifetime,       \* access_token_expire_minutes
    MaxTime,        \* bound: the clock
    MaxRestarts     \* bound

ASSUME TimesAssumption ==
    Lifetime \in Nat /\ MaxTime \in Nat /\ MaxRestarts \in Nat

VARIABLES
    now,
    users,      \* AuthService.users: absent, active, or inactive
    blacklist,  \* AuthService.token_blacklist
    issued,     \* tokens handed out by anyone
    revoked,    \* observer: tokens whose revocation this process has confirmed
    memory,     \* APIKeyManager._keys: absent, active, revoked
    stored,     \* rows of api_keys: absent, saving, active
    expired,    \* keys past expires_at
    dead,       \* observer: keys whose revocation was confirmed, ever
    restarts    \* bound

tokenVars == <<users, blacklist, issued, revoked>>
keyVars == <<memory, stored, expired, dead>>
vars == <<now, tokenVars, keyVars, restarts>>

Tokens == [user : Users, exp : 0..(MaxTime + Lifetime)]

TypeOK ==
    /\ now \in 0..MaxTime
    /\ users \in [Users -> {"absent", "active", "inactive"}]
    /\ blacklist \subseteq issued
    /\ issued \subseteq Tokens
    /\ revoked \subseteq blacklist
    /\ memory \in [Keys -> {"absent", "active", "revoked"}]
    /\ stored \in [Keys -> {"absent", "saving", "active"}]
    /\ expired \subseteq Keys
    /\ dead \subseteq Keys
    /\ restarts \in 0..MaxRestarts

Fresh == [u \in Users |-> IF u \in DefaultUsers THEN "active" ELSE "absent"]

Init ==
    /\ now = 0
    /\ users = Fresh
    /\ blacklist = {} /\ issued = {} /\ revoked = {}
    /\ memory = [k \in Keys |-> "absent"]
    /\ stored = [k \in Keys |-> "absent"]
    /\ expired = {} /\ dead = {}
    /\ restarts = 0

-----------------------------------------------------------------------------
(* Tokens *)

Valid(t) == t \in issued /\ now < t.exp

(* mutant: verify_token decodes first and looks at the blacklist only when   *)
(* that fails                                                                *)
VerifyToken_unlisted(t) == Valid(t)

VerifyToken(t) == t \notin blacklist /\ Valid(t)

(* get_current_user of AuthService *)
ServiceAccepts(t) == VerifyToken(t) /\ users[t.user] = "active"

(* get_current_user of api/auth.py: its blacklist stays empty, its users are  *)
(* constant                                                                  *)
ApiAccepts(t) == Valid(t) /\ t.user \in DefaultUsers

CreateAccessToken(u) == issued' = issued \cup {[user |-> u, exp |-> now + Lifetime]}

(* authenticate_user; a wrong password or an inactive user changes nothing    *)
Login(u) ==
    /\ users[u] = "active"
    /\ CreateAccessToken(u)
    /\ UNCHANGED <<now, users, blacklist, revoked, keyVars, restarts>>

ApiLogin(u) ==
    /\ u \in DefaultUsers
    /\ CreateAccessToken(u)
    /\ UNCHANGED <<now, users, blacklist, revoked, keyVars, restarts>>

ApiRefresh(t) ==
    /\ ApiAccepts(t)
    /\ CreateAccessToken(t.user)
    /\ UNCHANGED <<now, users, blacklist, revoked, keyVars, restarts>>

(* logout answers "Successfully logged out" and writes only to the log        *)
ApiLogout(t) == ApiAccepts(t) /\ UNCHANGED vars

(* mutant: revocation is confirmed and only logged, as in api/auth.py *)
RevokeToken_logged(t) ==
    /\ t \in issued
    /\ revoked' = revoked \cup {t}
    /\ UNCHANGED <<now, users, blacklist, issued, keyVars, restarts>>

RevokeToken(t) ==
    /\ t \in issued
    /\ blacklist' = blacklist \cup {t}
    /\ revoked' = revoked \cup {t}
    /\ UNCHANGED <<now, users, issued, keyVars, restarts>>

CreateUser(u) ==
    /\ users[u] = "absent"
    /\ users' = [users EXCEPT ![u] = "active"]
    /\ UNCHANGED <<now, blacklist, issued, revoked, keyVars, restarts>>

(* update_user writes any field, is_active among them *)
UpdateUser(u, status) ==
    /\ users[u] # "absent"
    /\ users' = [users EXCEPT ![u] = status]
    /\ UNCHANGED <<now, blacklist, issued, revoked, keyVars, restarts>>

DeactivateUser(u) == UpdateUser(u, "inactive")

-----------------------------------------------------------------------------
(* API keys *)

(* the key is in memory at once; the row is written by a task, for which the  *)
(* caller needs a running event loop                                         *)
GenerateApiKey(k, inLoop) ==
    /\ memory[k] = "absent" /\ stored[k] = "absent" /\ k \notin dead
    /\ memory' = [memory EXCEPT ![k] = "active"]
    /\ stored' = [stored EXCEPT ![k] = IF inLoop THEN "saving" ELSE "absent"]
    /\ UNCHANGED <<now, tokenVars, expired, dead, restarts>>

SaveApiKeyToDb(k, ok) ==
    /\ stored[k] = "saving"
    /\ stored' = [stored EXCEPT ![k] = IF ok THEN "active" ELSE "absent"]
    /\ UNCHANGED <<now, tokenVars, memory, expired, dead, restarts>>

(* is_active changes in memory; the row, if there is one, keeps its mark      *)
RevokeApiKey(k) ==
    /\ memory[k] # "absent"
    /\ memory' = [memory EXCEPT ![k] = "revoked"]
    /\ dead' = dead \cup {k}
    /\ UNCHANGED <<now, tokenVars, stored, expired, restarts>>

KeyExpires(k) ==
    /\ expired' = expired \cup {k}
    /\ UNCHANGED <<now, tokenVars, memory, stored, dead, restarts>>

(* mutant: a coroutine awaits validate_api_key_async *)
LookUpInDb_awaited(k, inLoop) == stored[k] = "active" /\ k \notin expired

(* asyncio.run raises in a running event loop, and None is returned: a server *)
(* never reads the rows, a script without a loop does                         *)
LookUpInDb(k, inLoop) == ~inLoop /\ stored[k] = "active" /\ k \notin expired

ValidateApiKey(k, inLoop) ==
    IF memory[k] = "active" THEN k \notin expired ELSE LookUpInDb(k, inLoop)

-----------------------------------------------------------------------------
Tick ==
    /\ now < MaxTime
    /\ now' = now + 1
    /\ UNCHANGED <<tokenVars, keyVars, restarts>>

(* memory is gone: users, blacklist, keys, and saves under way *)
Restart ==
    /\ restarts < MaxRestarts
    /\ restarts' = restarts + 1
    /\ users' = Fresh
    /\ blacklist' = {} /\ revoked' = {}
    /\ memory' = [k \in Keys |-> "absent"]
    /\ stored' = [k \in Keys |-> IF stored[k] = "saving" THEN "absent" ELSE stored[k]]
    /\ UNCHANGED <<now, issued, expired, dead>>

Next ==
    \/ Tick \/ Restart
    \/ \E u \in Users :
        \/ Login(u) \/ ApiLogin(u) \/ CreateUser(u) \/ DeactivateUser(u)
        \/ \E status \in {"active", "inactive"} : UpdateUser(u, status)
    \/ \E t \in issued : RevokeToken(t) \/ ApiRefresh(t) \/ ApiLogout(t)
    \/ \E k \in Keys :
        \/ RevokeApiKey(k) \/ KeyExpires(k)
        \/ \E b \in BOOLEAN : GenerateApiKey(k, b) \/ SaveApiKeyToDb(k, b)

Spec == Init /\ [][Next]_vars

-----------------------------------------------------------------------------
(* A token that the service has refused is accepted later only because its    *)
(* user was made active again, or because a restart has emptied the           *)
(* blacklist; time, logins of others and new logins never bring it back.      *)
RefusedStaysRefused ==
    [][\A t \in issued :
        ~ServiceAccepts(t) /\ ServiceAccepts(t)' =>
            \/ restarts' # restarts
            \/ users[t.user] # "active" /\ t \notin revoked]_vars

(* Inside the server, a key whose revocation was confirmed is refused for     *)
(* ever, restarts included, although its row is still active: the rows are    *)
(* never read there (validate_api_key).                                      *)
RevokedKeyRefused ==
    \A k \in dead : memory[k] # "active" /\ ~ValidateApiKey(k, TRUE)

-----------------------------------------------------------------------------
(* The proofs.  Every step keeps the types, of which only the clock, and that *)
(* a confirmed revocation is in the blacklist, are needed for the rest.      *)

LEMMA InitTypeOK == Init => TypeOK
BY TimesAssumption DEF Init, TypeOK, Fresh

(* A new token is a token.                                                   *)
LEMMA NewToken ==
    ASSUME TypeOK, NEW u \in Users, CreateAccessToken(u)
    PROVE  issued' \subseteq Tokens /\ issued \subseteq issued'
BY TimesAssumption DEF TypeOK, CreateAccessToken, Tokens

LEMMA NextTypeOK == TypeOK /\ [Next]_vars => TypeOK'
<1> SUFFICES ASSUME TypeOK, [Next]_vars PROVE TypeOK'
  OBVIOUS
<1> USE DEF TypeOK
<1>1. CASE Tick
  BY <1>1, TimesAssumption DEF Tick, tokenVars, keyVars
<1>2. CASE Restart
  BY <1>2, TimesAssumption DEF Restart, Fresh
<1>3. ASSUME NEW u \in Users, Login(u) \/ ApiLogin(u) PROVE TypeOK'
  BY <1>3, NewToken DEF Login, ApiLogin, keyVars
<1>4. ASSUME NEW u \in Users, NEW status \in {"active", "inactive"},
             CreateUser(u) \/ UpdateUser(u, status)
      PROVE  TypeOK'
  BY <1>4 DEF CreateUser, UpdateUser, keyVars
<1>5. ASSUME NEW t \in issued, RevokeToken(t) PROVE TypeOK'
  BY <1>5 DEF RevokeToken, keyVars
<1>6. ASSUME NEW t \in issued, ApiRefresh(t) PROVE TypeOK'
  <2>1. t.user \in Users
    BY DEF Tokens
  <2> QED
    BY <1>6, <2>1, NewToken DEF ApiRefresh, keyVars
<1>7. ASSUME NEW k \in Keys, RevokeApiKey(k) \/ KeyExpires(k) PROVE TypeOK'
  BY <1>7 DEF RevokeApiKey, KeyExpires, tokenVars
<1>8. ASSUME NEW k \in Keys, NEW b \in BOOLEAN,
             GenerateApiKey(k, b) \/ SaveApiKeyToDb(k, b)
      PROVE  TypeOK'
  BY <1>8 DEF GenerateApiKey, SaveApiKeyToDb, tokenVars
<1>9. CASE UNCHANGED vars
  BY <1>9 DEF vars, tokenVars, keyVars
<1> QED
  BY <1>1, <1>2, <1>3, <1>4, <1>5, <1>6, <1>7, <1>8, <1>9
  DEF Next, DeactivateUser, ApiLogout

(* What a step may do to what decides about a token.                         *)
LEMMA WhatMayChange ==
    ASSUME TypeOK, [Next]_vars
    PROVE  /\ now <= now'
           /\ restarts' = restarts => blacklist \subseteq blacklist'
<1>1. now \in Int
  BY TimesAssumption DEF TypeOK
<1>2. CASE Tick
  BY <1>1, <1>2 DEF Tick, tokenVars
<1>3. CASE Restart
  <2>1. restarts \in Int
    BY TimesAssumption DEF TypeOK
  <2> QED
    BY <1>1, <1>3, <2>1 DEF Restart
<1>4. ASSUME NEW u \in Users, Login(u) \/ ApiLogin(u) \/ CreateUser(u)
      PROVE  now <= now' /\ blacklist \subseteq blacklist'
  BY <1>1, <1>4 DEF Login, ApiLogin, CreateUser
<1>5. ASSUME NEW u \in Users, NEW status \in {"active", "inactive"}, UpdateUser(u, status)
      PROVE  now <= now' /\ blacklist \subseteq blacklist'
  BY <1>1, <1>5 DEF UpdateUser
<1>6. ASSUME NEW t \in issued, RevokeToken(t) \/ ApiRefresh(t)
      PROVE  now <= now' /\ blacklist \subseteq blacklist'
  BY <1>1, <1>6 DEF RevokeToken, ApiRefresh
<1>7. ASSUME NEW k \in Keys, NEW b \in BOOLEAN,
             \/ RevokeApiKey(k) \/ KeyExpires(k)
             \/ GenerateApiKey(k, b) \/ SaveApiKeyToDb(k, b)
      PROVE  now <= now' /\ blacklist \subseteq blacklist'
  BY <1>1, <1>7 DEF RevokeApiKey, KeyExpires, GenerateApiKey, SaveApiKeyToDb, tokenVars
<1>8. CASE UNCHANGED vars
  BY <1>1, <1>8 DEF vars, tokenVars
<1> QED
  BY <1>2, <1>3, <1>4, <1>5, <1>6, <1>7, <1>8
  DEF Next, DeactivateUser, ApiLogout

(* A refused token comes back only with its user or a restart, for any number *)
(* of users, tokens and keys.                                                *)
THEOREM RefusalsStand == Spec => RefusedStaysRefused
<1>1. TypeOK /\ [Next]_vars =>
        [\A t \in issued :
            ~ServiceAccepts(t) /\ ServiceAccepts(t)' =>
                \/ restarts' # restarts
                \/ users[t.user] # "active" /\ t \notin revoked]_vars
  <2> SUFFICES ASSUME TypeOK, [Next]_vars, NEW t \in issued,
                      ~ServiceAccepts(t), ServiceAccepts(t)', restarts' = restarts
               PROVE  users[t.user] # "active" /\ t \notin revoked
    OBVIOUS
  <2>1. now <= now' /\ blacklist \subseteq blacklist'
    BY WhatMayChange
  <2>2. t \notin blacklist' /\ now' < t.exp
    BY DEF ServiceAccepts, VerifyToken, Valid
  <2>3. now \in Int /\ now' \in Int /\ t.exp \in Int
    BY NextTypeOK, TimesAssumption DEF TypeOK, Tokens
  <2>4. t \notin blacklist /\ Valid(t)
    BY <2>1, <2>2, <2>3 DEF Valid
  <2> QED
    BY <2>4 DEF ServiceAccepts, VerifyToken, TypeOK
<1> QED
  BY <1>1, InitTypeOK, NextTypeOK, PTL DEF Spec, RefusedStaysRefused

(* A revoked key stays refused in every process that follows: memory never    *)
(* makes it active again, and the rows are not asked.                        *)
THEOREM RevocationsStand == Spec => []RevokedKeyRefused
<1> DEFINE Revoked == \A k \in dead : memory[k] # "active"
           Inv == TypeOK /\ Revoked
<1>1. Init => Inv
  BY InitTypeOK DEF Init
<1>2. Inv /\ [Next]_vars => Inv'
  <2> SUFFICES ASSUME Inv, [Next]_vars PROVE Revoked'
    BY NextTypeOK
  <2> USE DEF TypeOK
  <2>1. CASE Restart
    BY <2>1 DEF Restart
  <2>2. ASSUME NEW k \in Keys, RevokeApiKey(k) \/ KeyExpires(k) PROVE Revoked'
    BY <2>2 DEF RevokeApiKey, KeyExpires
  <2>3. ASSUME NEW k \in Keys, NEW b \in BOOLEAN,
               GenerateApiKey(k, b) \/ SaveApiKeyToDb(k, b)
        PROVE  Revoked'
    BY <2>3 DEF GenerateApiKey, SaveApiKeyToDb
  <2>4. CASE UNCHANGED keyVars
    BY <2>4 DEF keyVars
  <2> QED
    BY <2>1, <2>2, <2>3, <2>4
    DEF Next, vars, Tick, Login, ApiLogin, CreateUser, DeactivateUser, UpdateUser,
        RevokeToken, ApiRefresh, ApiLogout
<1>3. Inv => RevokedKeyRefused
  BY DEF RevokedKeyRefused, ValidateApiKey, LookUpInDb
<1> QED
  BY <1>1, <1>2, <1>3, PTL DEF Spec

(* Types, for any number of users, tokens and keys.                          *)
THEOREM TypeCorrect == Spec => []TypeOK
BY InitTypeOK, NextTypeOK, PTL DEF Spec
=============================================================================
