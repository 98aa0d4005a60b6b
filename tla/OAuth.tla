--------------------------------- MODULE OAuth ---------------------------------
(***************************************************************************)
(* OAuthManager of src/metamcp/auth/oauth.py with the handlers of            *)
(* src/metamcp/api/oauth.py, for one user of one provider: authorization      *)
(* states in memory, callbacks with an await at every request and statement, *)
(* and the token rows of the database.  The provider is external: it grants  *)
(* numbered tokens, and honours the refresh token of a grant until it has    *)
(* replaced it (if it rotates refresh tokens).                               *)
(***************************************************************************)
EXTENDS Integers, FiniteSets

CONSTANTS
    Flows,          \* authorization states handed out
    Callbacks,      \* callback requests; two may carry the same state
    MaxGrants,      \* bound: tokens granted by the provider
    MaxCrashes      \* bound: crashes of the process

VARIABLES
    stateStore,     \* state_store: a flow is absent, fresh or over five minutes old
    callback,       \* per callback: where it stands, its flow and its grant
    userRow,        \* the user is in the database (unique by email)
    tokenRows,      \* token rows, named after the callback that inserted them
    reader,         \* a get_user_token: where it stands, the grant it read
    rotates,        \* the provider replaces refresh tokens
    honoured,       \* grants whose refresh token the provider accepts
    granted,        \* number of grants so far
    overlapped,     \* observer: two callbacks were about to insert a row
    crashes         \* bound

vars == <<stateStore, callback, userRow, tokenRows, reader, rotates, honoured,
          granted, overlapped, crashes>>

Grants == 0..MaxGrants

InFlight == {"exchange", "findUser", "addUser", "findToken", "update", "insert"}

TypeOK ==
    /\ stateStore \in [Flows -> {"absent", "fresh", "old"}]
    /\ callback \in [Callbacks ->
            [at : InFlight \cup {"idle", "stored", "raised"}, flow : Flows \cup {0},
             grant : Grants, row : Callbacks \cup {0}]]
    /\ userRow \in BOOLEAN
    /\ DOMAIN tokenRows \subseteq Callbacks
    /\ \A c \in DOMAIN tokenRows :
            tokenRows[c] \in [grant : Grants, expired : BOOLEAN]
    /\ reader \in [at : {"idle", "refresh"}, grant : Grants, answer : Grants]
    /\ rotates \in BOOLEAN
    /\ honoured \subseteq 1..granted
    /\ granted \in Grants
    /\ overlapped \in BOOLEAN
    /\ crashes \in 0..MaxCrashes

NoReader(answer) == [at |-> "idle", grant |-> 0, answer |-> answer]

Init ==
    /\ stateStore = [f \in Flows |-> "absent"]
    /\ callback = [c \in Callbacks |->
                    [at |-> "idle", flow |-> 0, grant |-> 0, row |-> 0]]
    /\ userRow = FALSE
    /\ tokenRows = [c \in {} |-> 0]
    /\ reader = NoReader(0)
    /\ rotates \in BOOLEAN
    /\ honoured = {}
    /\ granted = 0
    /\ overlapped = FALSE
    /\ crashes = 0

(* a new random state; nothing removes one that is never answered *)
GetAuthorizationUrl(f) ==
    /\ stateStore[f] = "absent"
    /\ \A c \in Callbacks : callback[c].flow # f    \* states are never repeated
    /\ stateStore' = [stateStore EXCEPT ![f] = "fresh"]
    /\ UNCHANGED <<callback, userRow, tokenRows, reader, rotates, honoured,
                   granted, overlapped, crashes>>

FiveMinutesPass(f) ==
    /\ stateStore[f] = "fresh"
    /\ stateStore' = [stateStore EXCEPT ![f] = "old"]
    /\ UNCHANGED <<callback, userRow, tokenRows, reader, rotates, honoured,
                   granted, overlapped, crashes>>

Goes(c, at) == callback' = [callback EXCEPT ![c].at = at]

(* mutant: the state is looked up here and removed when the flow is over *)
HandleCallback_late(c, f) ==
    /\ callback[c].at = "idle"
    /\ stateStore[f] # "absent"
    /\ callback' = [callback EXCEPT ![c] =
            [at |-> IF stateStore[f] = "fresh" THEN "exchange" ELSE "raised",
             flow |-> f, grant |-> 0, row |-> 0]]
    /\ UNCHANGED <<stateStore, userRow, tokenRows, reader, rotates, honoured,
                   granted, overlapped, crashes>>

(* the state is removed, then judged, with no await in between; a request     *)
(* whose state is unknown, or names another provider, raises and changes      *)
(* nothing else                                                              *)
HandleCallback(c, f) ==
    /\ callback[c].at = "idle"
    /\ stateStore[f] # "absent"
    /\ stateStore' = [stateStore EXCEPT ![f] = "absent"]
    /\ callback' = [callback EXCEPT ![c] =
            [at |-> IF stateStore[f] = "fresh" THEN "exchange" ELSE "raised",
             flow |-> f, grant |-> 0, row |-> 0]]
    /\ UNCHANGED <<userRow, tokenRows, reader, rotates, honoured, granted,
                   overlapped, crashes>>

(* any await of a callback may fail: the exception is wrapped and raised *)
CallbackFails(c) ==
    /\ callback[c].at \in InFlight
    /\ Goes(c, "raised")
    /\ UNCHANGED <<stateStore, userRow, tokenRows, reader, rotates, honoured,
                   granted, overlapped, crashes>>

ExchangeCodeForToken(c) ==
    /\ callback[c].at = "exchange"
    /\ granted < MaxGrants
    /\ granted' = granted + 1
    /\ honoured' = honoured \cup {granted + 1}
    /\ callback' = [callback EXCEPT ![c].at = "findUser", ![c].grant = granted + 1]
    /\ UNCHANGED <<stateStore, userRow, tokenRows, reader, rotates, overlapped, crashes>>

FindUser(c) ==
    /\ callback[c].at = "findUser"
    /\ Goes(c, IF userRow THEN "findToken" ELSE "addUser")
    /\ UNCHANGED <<stateStore, userRow, tokenRows, reader, rotates, honoured,
                   granted, overlapped, crashes>>

(* the email is unique: the second of two insertions raises *)
AddUser(c) ==
    /\ callback[c].at = "addUser"
    /\ Goes(c, IF userRow THEN "raised" ELSE "findToken")
    /\ userRow' = TRUE
    /\ UNCHANGED <<stateStore, tokenRows, reader, rotates, honoured, granted,
                   overlapped, crashes>>

(* scalar_one_or_none: two rows raise MultipleResultsFound, from then on in   *)
(* every callback, reader and revocation                                     *)
FindToken(c) ==
    /\ callback[c].at = "findToken"
    /\ \/ Cardinality(DOMAIN tokenRows) > 1 /\ Goes(c, "raised")
       \/ DOMAIN tokenRows = {} /\ Goes(c, "insert")
       \/ \E d \in Callbacks :
            /\ DOMAIN tokenRows = {d}
            /\ callback' = [callback EXCEPT ![c] = [@ EXCEPT !.at = "update", !.row = d]]
    /\ overlapped' = (overlapped \/ (DOMAIN tokenRows = {} /\
                        \E d \in Callbacks \ {c} : callback[d].at = "insert"))
    /\ UNCHANGED <<stateStore, userRow, tokenRows, reader, rotates, honoured,
                   granted, crashes>>

Stored(c) == [grant |-> callback[c].grant, expired |-> FALSE]

(* the row found is written; if it has been deleted meanwhile, the flush      *)
(* raises                                                                    *)
UpdateToken(c) ==
    /\ callback[c].at = "update"
    /\ IF callback[c].row \in DOMAIN tokenRows
       THEN /\ Goes(c, "stored")
            /\ tokenRows' = [tokenRows EXCEPT ![callback[c].row] = Stored(c)]
       ELSE Goes(c, "raised") /\ UNCHANGED tokenRows
    /\ UNCHANGED <<stateStore, userRow, reader, rotates, honoured, granted,
                   overlapped, crashes>>

(* mutant: a callback that finds a row inserts another *)
InsertToken_always(c) ==
    /\ callback[c].at \in {"insert", "update"}
    /\ tokenRows' = [d \in DOMAIN tokenRows \cup {c} |->
                        IF d = c THEN Stored(c) ELSE tokenRows[d]]
    /\ Goes(c, "stored")
    /\ UNCHANGED <<stateStore, userRow, reader, rotates, honoured, granted,
                   overlapped, crashes>>

(* no constraint on (user, provider) stops a second row.  The response reports *)
(* a failure even now: get_auth_manager, imported next, does not exist        *)
InsertToken(c) ==
    /\ callback[c].at = "insert"
    /\ tokenRows' = [d \in DOMAIN tokenRows \cup {c} |->
                        IF d = c THEN Stored(c) ELSE tokenRows[d]]
    /\ Goes(c, "stored")
    /\ UNCHANGED <<stateStore, userRow, reader, rotates, honoured, granted,
                   overlapped, crashes>>

TokenExpires(c) ==
    /\ c \in DOMAIN tokenRows
    /\ tokenRows' = [tokenRows EXCEPT ![c].expired = TRUE]
    /\ UNCHANGED <<stateStore, callback, userRow, reader, rotates, honoured,
                   granted, overlapped, crashes>>

TheRow == tokenRows[CHOOSE c \in DOMAIN tokenRows : TRUE]

(* None for no row and for two, the stored token while it is good, and a      *)
(* refresh otherwise                                                         *)
GetUserToken ==
    /\ reader.at = "idle"
    /\ reader' = IF Cardinality(DOMAIN tokenRows) # 1 THEN NoReader(0)
                 ELSE IF ~TheRow.expired THEN NoReader(TheRow.grant)
                 ELSE [at |-> "refresh", grant |-> TheRow.grant, answer |-> 0]
    /\ UNCHANGED <<stateStore, callback, userRow, tokenRows, rotates, honoured,
                   granted, overlapped, crashes>>

(* the provider's answer is written to an object of the session in            *)
(* get_user_token, and the commit is that of another session: no row changes  *)
RefreshToken ==
    /\ reader.at = "refresh"
    /\ granted < MaxGrants
    /\ IF reader.grant \in honoured
       THEN /\ granted' = granted + 1
            /\ honoured' = (IF rotates THEN honoured \ {reader.grant} ELSE honoured)
                            \cup {granted + 1}
            /\ reader' = NoReader(granted + 1)
       ELSE /\ UNCHANGED <<granted, honoured>>
            /\ reader' = NoReader(0)
    /\ UNCHANGED <<stateStore, callback, userRow, tokenRows, rotates, overlapped, crashes>>

RefreshFails ==
    /\ reader.at = "refresh"
    /\ reader' = NoReader(0)
    /\ UNCHANGED <<stateStore, callback, userRow, tokenRows, rotates, honoured,
                   granted, overlapped, crashes>>

(* revoke_user_token: the row goes; the provider is not told *)
RevokeUserToken ==
    /\ Cardinality(DOMAIN tokenRows) = 1
    /\ tokenRows' = [c \in {} |-> 0]
    /\ UNCHANGED <<stateStore, callback, userRow, reader, rotates, honoured,
                   granted, overlapped, crashes>>

(* states and requests are in memory, rows are not *)
Crash ==
    /\ crashes < MaxCrashes
    /\ crashes' = crashes + 1
    /\ stateStore' = [f \in Flows |-> "absent"]
    /\ callback' = [c \in Callbacks |->
                        IF callback[c].at \in InFlight
                        THEN [callback[c] EXCEPT !.at = "raised"] ELSE callback[c]]
    /\ reader' = NoReader(0)
    /\ UNCHANGED <<userRow, tokenRows, rotates, honoured, granted, overlapped>>

(* The HTTP handlers.  What follows the manager's part changes nothing: the   *)
(* login handler imports a function that does not exist and reports a         *)
(* failure, the agents' endpoints call methods that the manager does not have *)
InitiateOauthFlow(f) == GetAuthorizationUrl(f)
FastmcpAgentAuthenticate(f) == GetAuthorizationUrl(f)
OauthCallback(c, f) == HandleCallback(c, f)
FastmcpAgentTokenExchange(c, f) == HandleCallback(c, f)

Next ==
    \/ \E f \in Flows :
        \/ InitiateOauthFlow(f) \/ FastmcpAgentAuthenticate(f) \/ FiveMinutesPass(f)
    \/ \E c \in Callbacks :
        \/ \E f \in Flows : OauthCallback(c, f) \/ FastmcpAgentTokenExchange(c, f)
        \/ CallbackFails(c) \/ ExchangeCodeForToken(c) \/ FindUser(c) \/ AddUser(c)
        \/ FindToken(c) \/ UpdateToken(c) \/ InsertToken(c) \/ TokenExpires(c)
    \/ GetUserToken \/ RefreshToken \/ RefreshFails \/ RevokeUserToken \/ Crash

Spec == Init /\ [][Next]_vars

-----------------------------------------------------------------------------
(* A state admits one callback, however the requests interleave: the second  *)
(* finds it gone (handle_callback pops before its first await).              *)
StateUsedOnce ==
    \A c, d \in Callbacks :
        c # d /\ callback[c].flow = callback[d].flow => callback[c].flow = 0

(* A user gets a second token row, which makes the first unusable too, only  *)
(* when two callbacks overlap between their SELECT and their INSERT, never   *)
(* from logging in again (_store_token).                                     *)
SecondRowNeedsOverlap == Cardinality(DOMAIN tokenRows) > 1 => overlapped

AuthorizationSound == StateUsedOnce /\ SecondRowNeedsOverlap

(* "Update token in database" (oauth.py:556): once a refresh has succeeded,   *)
(* the row holds the refreshed token.                                        *)
RefreshIsStored ==
    [][reader.at = "refresh" /\ reader'.answer # 0 =>
        \E c \in DOMAIN tokenRows' : tokenRows'[c].grant = reader'.answer]_vars
=============================================================================
