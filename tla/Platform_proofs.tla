-------------------------- MODULE Platform_proofs --------------------------
(***************************************************************************)
(* Who may come in and what they find, proved for any number of users,     *)
(* keys, flows, callbacks, servers, streams, plugins and lines: the        *)
(* inductive invariant of each part of MCPlatform, and the properties of   *)
(* its runs that follow from them.  Liveness stays with TLC.               *)
(***************************************************************************)
EXTENDS MCPlatform, FiniteSetTheorems, SequenceTheorems, WellFoundedInduction

-----------------------------------------------------------------------------
(* OAuth, auth/oauth.py.                                                     *)

(* A state that a callback carries has left the store, and no other callback *)
(* has it.                                                                   *)
FlowsTaken ==
    /\ \A c \in Callbacks :
        callback[c].flow # 0 => stateStore[callback[c].flow] = "absent"
    /\ OAuth!StateUsedOnce

(* As long as no two callbacks have overlapped, there is one row at most, and *)
(* who is about to insert it is alone and has found none.                    *)
OneRow ==
    ~overlapped =>
        /\ \A c, d \in DOMAIN tokenRows : c = d
        /\ \A c \in Callbacks : callback[c].at = "insert" =>
            /\ DOMAIN tokenRows = {}
            /\ \A d \in Callbacks \ {c} : callback[d].at # "insert"

OAuthIInv == OAuth!TypeOK /\ FlowsTaken /\ OneRow

(* The cardinality of the instance is that of FiniteSets.                    *)
LEMMA OAuthCount == \A S : OAuth!Cardinality(S) = Cardinality(S)
  BY DEF Cardinality, OAuth!Cardinality

LEMMA OAuthInit == OAuth!Init => OAuthIInv
<1> SUFFICES ASSUME OAuth!Init PROVE OAuthIInv
  OBVIOUS
<1>1. 0 \in OAuth!Grants /\ 0 \in 0..MaxCrashes
  BY FlowsAssumption DEF OAuth!Grants
<1>2. OAuth!TypeOK
  BY <1>1 DEF OAuth!Init, OAuth!TypeOK, OAuth!NoReader
<1>3. FlowsTaken
  BY DEF OAuth!Init, FlowsTaken, OAuth!StateUsedOnce
<1>4. OneRow
  BY DEF OAuth!Init, OneRow
<1> QED
  BY <1>2, <1>3, <1>4 DEF OAuthIInv

(* A callback goes to another place, with its flow.                          *)
LEMMA CallbackGoes ==
    ASSUME OAuthIInv, NEW c \in Callbacks, NEW g \in OAuth!Grants,
           NEW d \in Callbacks \cup {0},
           NEW at \in (OAuth!InFlight \ {"insert"}) \cup {"stored", "raised"},
           callback' = [callback EXCEPT ![c] = [at |-> at, flow |-> callback[c].flow,
                                                grant |-> g, row |-> d]],
           UNCHANGED stateStore
    PROVE  /\ callback' \in [Callbacks ->
                [at : OAuth!InFlight \cup {"idle", "stored", "raised"},
                 flow : Flows \cup {0}, grant : OAuth!Grants, row : Callbacks \cup {0}]]
           /\ FlowsTaken'
           /\ UNCHANGED <<tokenRows, overlapped>> => OneRow'
<1>1. /\ callback' \in [Callbacks ->
            [at : OAuth!InFlight \cup {"idle", "stored", "raised"},
             flow : Flows \cup {0}, grant : OAuth!Grants, row : Callbacks \cup {0}]]
      /\ \A b \in Callbacks : /\ callback'[b].flow = callback[b].flow
                              /\ callback'[b].at = "insert" => callback[b].at = "insert"
  BY DEF OAuthIInv, OAuth!TypeOK, OAuth!InFlight
<1>2. FlowsTaken'
  BY <1>1 DEF OAuthIInv, FlowsTaken, OAuth!StateUsedOnce
<1>3. ASSUME UNCHANGED <<tokenRows, overlapped>> PROVE OneRow'
  BY <1>1, <1>3 DEF OAuthIInv, OneRow
<1> QED
  BY <1>1, <1>2, <1>3

(* Handing out, ageing and taking of states.                                 *)
LEMMA FlowsStep ==
    ASSUME OAuthIInv, NEW f \in Flows,
           \/ OAuth!GetAuthorizationUrl(f) \/ OAuth!FiveMinutesPass(f)
           \/ \E c \in Callbacks : OAuth!HandleCallback(c, f)
    PROVE  OAuthIInv'
<1>1. CASE OAuth!GetAuthorizationUrl(f) \/ OAuth!FiveMinutesPass(f)
  BY <1>1, FlowsAssumption
  DEF OAuthIInv, OAuth!TypeOK, FlowsTaken, OneRow, OAuth!StateUsedOnce,
      OAuth!GetAuthorizationUrl, OAuth!FiveMinutesPass
<1>2. ASSUME NEW c \in Callbacks, OAuth!HandleCallback(c, f) PROVE OAuthIInv'
  <2>1. PICK at \in {"exchange", "raised"} :
            callback' = [callback EXCEPT ![c] =
                            [at |-> at, flow |-> f, grant |-> 0, row |-> 0]]
    BY <1>2 DEF OAuth!HandleCallback
  <2>2. 0 \in OAuth!Grants
    BY FlowsAssumption DEF OAuth!Grants
  <2>3. OAuth!TypeOK'
    BY <1>2, <2>1, <2>2 DEF OAuthIInv, OAuth!TypeOK, OAuth!HandleCallback, OAuth!InFlight
  <2>4. \A d \in Callbacks \ {c} : callback'[d] = callback[d] /\ callback[d].flow # f
    BY <1>2, <2>1, FlowsAssumption DEF OAuthIInv, OAuth!TypeOK, FlowsTaken, OAuth!HandleCallback
  <2>5. callback'[c].flow = f /\ callback'[c].at = at
    BY <2>1 DEF OAuthIInv, OAuth!TypeOK
  <2>6. FlowsTaken'
    BY <1>2, <2>4, <2>5
    DEF OAuthIInv, OAuth!TypeOK, FlowsTaken, OAuth!StateUsedOnce, OAuth!HandleCallback
  <2>7. OneRow'
    BY <1>2, <2>4, <2>5 DEF OAuthIInv, OneRow, OAuth!HandleCallback
  <2> QED
    BY <2>3, <2>6, <2>7 DEF OAuthIInv
<1> QED
  BY <1>1, <1>2

(* The steps of a callback that do not touch the rows.                       *)
LEMMA ExchangeStep ==
    ASSUME OAuthIInv, NEW c \in Callbacks,
           \/ OAuth!CallbackFails(c) \/ OAuth!ExchangeCodeForToken(c)
           \/ OAuth!FindUser(c) \/ OAuth!AddUser(c)
    PROVE  OAuthIInv'
<1>1. /\ \E g \in OAuth!Grants,
           at \in (OAuth!InFlight \ {"insert"}) \cup {"stored", "raised"} :
            callback' = [callback EXCEPT ![c] = [at |-> at, flow |-> callback[c].flow,
                                                 grant |-> g, row |-> callback[c].row]]
      /\ callback[c].row \in Callbacks \cup {0}
      /\ UNCHANGED <<stateStore, tokenRows, overlapped, reader, rotates, crashes>>
  <2>1. callback[c] = [at |-> callback[c].at, flow |-> callback[c].flow,
                       grant |-> callback[c].grant, row |-> callback[c].row]
        /\ callback[c].grant \in OAuth!Grants /\ callback[c].row \in Callbacks \cup {0}
    BY DEF OAuthIInv, OAuth!TypeOK
  <2>2. granted < MaxGrants => granted + 1 \in OAuth!Grants
    BY FlowsAssumption DEF OAuthIInv, OAuth!TypeOK, OAuth!Grants
  <2> QED
    BY <2>1, <2>2
    DEF OAuth!CallbackFails, OAuth!ExchangeCodeForToken, OAuth!FindUser, OAuth!AddUser,
        OAuth!Goes, OAuth!InFlight, OAuthIInv, OAuth!TypeOK
<1>2. /\ callback' \in [Callbacks ->
                [at : OAuth!InFlight \cup {"idle", "stored", "raised"},
                 flow : Flows \cup {0}, grant : OAuth!Grants, row : Callbacks \cup {0}]]
      /\ FlowsTaken' /\ OneRow'
  BY <1>1, CallbackGoes
<1>3. userRow' \in BOOLEAN
  BY DEF OAuth!CallbackFails, OAuth!ExchangeCodeForToken, OAuth!FindUser, OAuth!AddUser,
         OAuthIInv, OAuth!TypeOK
<1>4. granted' \in OAuth!Grants /\ honoured' \subseteq 1..granted'
  BY FlowsAssumption
  DEF OAuth!CallbackFails, OAuth!ExchangeCodeForToken, OAuth!FindUser, OAuth!AddUser,
      OAuthIInv, OAuth!TypeOK, OAuth!Grants
<1> QED
  BY <1>1, <1>2, <1>3, <1>4 DEF OAuthIInv, OAuth!TypeOK

(* The record of a callback that goes to another place.                      *)
LEMMA CallbackRecord ==
    ASSUME OAuth!TypeOK, NEW c \in Callbacks, NEW at, OAuth!Goes(c, at)
    PROVE  callback' = [callback EXCEPT ![c] =
                [at |-> at, flow |-> callback[c].flow, grant |-> callback[c].grant,
                 row |-> callback[c].row]]
<1>1. callback[c] \in [at : OAuth!InFlight \cup {"idle", "stored", "raised"}, flow : Flows \cup {0},
                       grant : OAuth!Grants, row : Callbacks \cup {0}]
  BY DEF OAuth!TypeOK
<1>2. [callback[c] EXCEPT !.at = at] =
        [at |-> at, flow |-> callback[c].flow, grant |-> callback[c].grant,
         row |-> callback[c].row]
  BY <1>1
<1> QED
  BY <1>2, Zenon DEF OAuth!Goes

(* The SELECT of a callback.                                                 *)
LEMMA FindTokenStep ==
    ASSUME OAuthIInv, NEW c \in Callbacks, OAuth!FindToken(c)
    PROVE  OAuthIInv'
<1> DEFINE Found(at) ==
        /\ callback' \in [Callbacks ->
                [at : OAuth!InFlight \cup {"idle", "stored", "raised"},
                 flow : Flows \cup {0}, grant : OAuth!Grants, row : Callbacks \cup {0}]]
        /\ \A b \in Callbacks : callback'[b].flow = callback[b].flow
        /\ \A b \in Callbacks \ {c} : callback'[b].at = callback[b].at
        /\ callback'[c].at = at
        /\ at = "insert" => DOMAIN tokenRows = {}
<1>1. ASSUME NEW at \in {"raised", "insert"}, OAuth!Goes(c, at),
             at = "insert" => DOMAIN tokenRows = {}
      PROVE  Found(at)
  BY <1>1 DEF OAuth!Goes, OAuthIInv, OAuth!TypeOK, OAuth!InFlight
<1>2. ASSUME NEW d \in Callbacks,
             callback' = [callback EXCEPT ![c] = [@ EXCEPT !.at = "update", !.row = d]]
      PROVE  Found("update")
  <2>1. callback[c] \in [at : OAuth!InFlight \cup {"idle", "stored", "raised"},
                         flow : Flows \cup {0}, grant : OAuth!Grants, row : Callbacks \cup {0}]
    BY DEF OAuthIInv, OAuth!TypeOK
  <2> DEFINE to == [callback[c] EXCEPT !.at = "update", !.row = d]
  <2>2. /\ to \in [at : OAuth!InFlight \cup {"idle", "stored", "raised"},
                   flow : Flows \cup {0}, grant : OAuth!Grants, row : Callbacks \cup {0}]
        /\ to.flow = callback[c].flow
    BY <2>1 DEF OAuth!InFlight
  <2>3. to.at = "update"
    BY <2>1
  <2>4. callback' = [callback EXCEPT ![c] = to]
    BY <1>2
  <2> HIDE DEF to
  <2> QED
    BY <2>2, <2>3, <2>4 DEF OAuthIInv, OAuth!TypeOK
<1>3. PICK at \in {"raised", "update", "insert"} : Found(at)
  <2> HIDE DEF Found
  <2> QED
    BY <1>1, <1>2 DEF OAuth!FindToken
<1>4. UNCHANGED <<stateStore, userRow, tokenRows, reader, rotates, honoured, granted, crashes>>
  BY DEF OAuth!FindToken
<1>5. overlapped' \in BOOLEAN
  BY DEF OAuth!FindToken
<1>6. OAuth!TypeOK'
  BY <1>3, <1>4, <1>5 DEF OAuthIInv, OAuth!TypeOK
<1>7. FlowsTaken'
  BY <1>4, <1>3 DEF OAuthIInv, FlowsTaken, OAuth!StateUsedOnce
<1>8. ASSUME ~overlapped' PROVE ~overlapped /\ (DOMAIN tokenRows = {} =>
                    \A b \in Callbacks \ {c} : callback[b].at # "insert")
  BY <1>8 DEF OAuth!FindToken
<1>9. OneRow'
  BY <1>3, <1>4, <1>8 DEF OAuthIInv, OneRow
<1> QED
  BY <1>6, <1>7, <1>9 DEF OAuthIInv

(* The writing of rows.                                                      *)
LEMMA RowsStep ==
    ASSUME OAuthIInv, NEW c \in Callbacks,
           OAuth!UpdateToken(c) \/ OAuth!InsertToken(c) \/ OAuth!TokenExpires(c)
    PROVE  OAuthIInv'
<1>1. callback[c] = [at |-> callback[c].at, flow |-> callback[c].flow,
                     grant |-> callback[c].grant, row |-> callback[c].row]
      /\ callback[c].grant \in OAuth!Grants /\ callback[c].row \in Callbacks \cup {0}
      /\ callback[c].flow \in Flows \cup {0}
  BY DEF OAuthIInv, OAuth!TypeOK
<1>2. OAuth!Stored(c) \in [grant : OAuth!Grants, expired : BOOLEAN]
  BY <1>1 DEF OAuth!Stored
<1>3. CASE OAuth!UpdateToken(c)
  <2>1. PICK at \in {"stored", "raised"} :
            callback' = [callback EXCEPT ![c] = [at |-> at, flow |-> callback[c].flow,
                                                 grant |-> callback[c].grant,
                                                 row |-> callback[c].row]]
    BY <1>1, <1>3 DEF OAuth!UpdateToken, OAuth!Goes, OAuthIInv, OAuth!TypeOK
  <2>2. /\ DOMAIN tokenRows' = DOMAIN tokenRows
        /\ \A d \in DOMAIN tokenRows' : tokenRows'[d] \in [grant : OAuth!Grants, expired : BOOLEAN]
        /\ UNCHANGED <<stateStore, userRow, reader, rotates, honoured, granted, overlapped, crashes>>
    BY <1>2, <1>3 DEF OAuth!UpdateToken, OAuthIInv, OAuth!TypeOK
  <2>3. /\ callback' \in [Callbacks ->
                [at : OAuth!InFlight \cup {"idle", "stored", "raised"},
                 flow : Flows \cup {0}, grant : OAuth!Grants, row : Callbacks \cup {0}]]
        /\ FlowsTaken'
    BY <1>1, <2>1, <2>2, CallbackGoes
  <2>4. \A b \in Callbacks : callback'[b].at = "insert" => callback[b].at = "insert"
    BY <2>1 DEF OAuthIInv, OAuth!TypeOK
  <2>5. OneRow'
    BY <2>2, <2>4 DEF OAuthIInv, OneRow
  <2> QED
    BY <2>2, <2>3, <2>5 DEF OAuthIInv, OAuth!TypeOK
<1>4. CASE OAuth!InsertToken(c)
  <2>1. callback' = [callback EXCEPT ![c] = [at |-> "stored", flow |-> callback[c].flow,
                                             grant |-> callback[c].grant,
                                             row |-> callback[c].row]]
    <3>1. OAuth!Goes(c, "stored")
      BY <1>4 DEF OAuth!InsertToken
    <3> QED
      BY <3>1, CallbackRecord DEF OAuthIInv
  <2>2. /\ DOMAIN tokenRows' = DOMAIN tokenRows \cup {c}
        /\ \A d \in DOMAIN tokenRows' : tokenRows'[d] \in [grant : OAuth!Grants, expired : BOOLEAN]
        /\ UNCHANGED <<stateStore, userRow, reader, rotates, honoured, granted, overlapped, crashes>>
    BY <1>2, <1>4 DEF OAuth!InsertToken, OAuthIInv, OAuth!TypeOK
  <2>3. /\ callback' \in [Callbacks ->
                [at : OAuth!InFlight \cup {"idle", "stored", "raised"},
                 flow : Flows \cup {0}, grant : OAuth!Grants, row : Callbacks \cup {0}]]
        /\ FlowsTaken'
    BY <1>1, <2>1, <2>2, CallbackGoes
  <2>4. /\ callback[c].at = "insert" /\ callback'[c].at # "insert"
        /\ \A b \in Callbacks : callback'[b].at = "insert" => callback[b].at = "insert"
    BY <1>4, <2>1 DEF OAuthIInv, OAuth!TypeOK, OAuth!InsertToken
  <2>5. OneRow'
    BY <2>2, <2>4 DEF OAuthIInv, OneRow
  <2> QED
    BY <2>2, <2>3, <2>5 DEF OAuthIInv, OAuth!TypeOK
<1>5. CASE OAuth!TokenExpires(c)
  <2>1. /\ DOMAIN tokenRows' = DOMAIN tokenRows
        /\ \A d \in DOMAIN tokenRows' : tokenRows'[d] \in [grant : OAuth!Grants, expired : BOOLEAN]
        /\ UNCHANGED <<stateStore, callback, userRow, reader, rotates, honoured, granted, overlapped, crashes>>
    BY <1>5 DEF OAuth!TokenExpires, OAuthIInv, OAuth!TypeOK
  <2>2. FlowsTaken' /\ OneRow'
    BY <2>1 DEF OAuthIInv, FlowsTaken, OneRow, OAuth!StateUsedOnce
  <2> QED
    BY <2>1, <2>2 DEF OAuthIInv, OAuth!TypeOK
<1> QED
  BY <1>3, <1>4, <1>5

(* The row that is alone is a row.                                           *)
LEMMA RowThere ==
    ASSUME OAuth!TypeOK, OAuth!Cardinality(DOMAIN tokenRows) = 1
    PROVE  OAuth!TheRow \in [grant : OAuth!Grants, expired : BOOLEAN]
<1>1. Cardinality(DOMAIN tokenRows) # 0
  BY OAuthCount
<1>2. DOMAIN tokenRows # {}
  BY <1>1, FS_EmptySet
<1> QED
  BY <1>2 DEF OAuth!TheRow, OAuth!TypeOK

(* The reader, revocations and crashes.                                      *)
LEMMA ReaderStep ==
    ASSUME OAuthIInv,
           \/ OAuth!GetUserToken \/ OAuth!RefreshToken \/ OAuth!RefreshFails
           \/ OAuth!RevokeUserToken \/ OAuth!Crash
    PROVE  OAuthIInv'
<1>1. 0 \in OAuth!Grants /\ granted \in Nat /\ (granted < MaxGrants => granted + 1 \in OAuth!Grants)
  BY FlowsAssumption DEF OAuthIInv, OAuth!TypeOK, OAuth!Grants
<1>2. CASE OAuth!GetUserToken
  <2>1. reader' \in [at : {"idle", "refresh"}, grant : OAuth!Grants, answer : OAuth!Grants]
    <3> DEFINE Readers == [at : {"idle", "refresh"}, grant : OAuth!Grants, answer : OAuth!Grants]
    <3>1. ASSUME NEW g \in OAuth!Grants, NEW at \in {"idle", "refresh"}, NEW a \in OAuth!Grants
          PROVE  [at |-> at, grant |-> g, answer |-> a] \in Readers
      OBVIOUS
    <3>2. OAuth!Cardinality(DOMAIN tokenRows) = 1 => OAuth!TheRow.grant \in OAuth!Grants
      BY RowThere DEF OAuthIInv
    <3>3. reader' = IF OAuth!Cardinality(DOMAIN tokenRows) # 1 THEN OAuth!NoReader(0)
                    ELSE IF ~OAuth!TheRow.expired THEN OAuth!NoReader(OAuth!TheRow.grant)
                    ELSE [at |-> "refresh", grant |-> OAuth!TheRow.grant, answer |-> 0]
      BY <1>2, Zenon DEF OAuth!GetUserToken
    <3> HIDE DEF Readers
    <3>4. reader' \in Readers
      BY <1>1, <3>1, <3>2, <3>3 DEF OAuth!NoReader
    <3> QED
      BY <3>4 DEF Readers
  <2> QED
    BY <1>2, <2>1
    DEF OAuth!GetUserToken, OAuthIInv, OAuth!TypeOK, FlowsTaken, OneRow, OAuth!StateUsedOnce
<1>3. CASE OAuth!RefreshToken \/ OAuth!RefreshFails
  <2>1. /\ reader' \in [at : {"idle", "refresh"}, grant : OAuth!Grants, answer : OAuth!Grants]
        /\ granted' \in OAuth!Grants /\ honoured' \subseteq 1..granted'
    <3>1. granted \in OAuth!Grants /\ honoured \subseteq 1..granted
      BY DEF OAuthIInv, OAuth!TypeOK
    <3>2. \A a \in OAuth!Grants :
            OAuth!NoReader(a)
              \in [at : {"idle", "refresh"}, grant : OAuth!Grants, answer : OAuth!Grants]
      BY <1>1 DEF OAuth!NoReader
    <3>3. CASE OAuth!RefreshToken /\ reader.grant \in honoured
      <4>1. /\ granted < MaxGrants /\ granted' = granted + 1
            /\ reader' = OAuth!NoReader(granted + 1)
            /\ honoured' \subseteq honoured \cup {granted + 1}
        BY <3>3 DEF OAuth!RefreshToken
      <4>2. honoured' \subseteq 1..(granted + 1)
        BY <1>1, <3>1, <4>1
      <4> QED
        BY <1>1, <3>2, <4>1, <4>2
    <3>4. CASE OAuth!RefreshToken /\ reader.grant \notin honoured
      <4>1. granted' = granted /\ honoured' = honoured /\ reader' = OAuth!NoReader(0)
        BY <3>4 DEF OAuth!RefreshToken
      <4> QED
        BY <1>1, <3>1, <3>2, <4>1
    <3>5. CASE OAuth!RefreshFails
      <4>1. granted' = granted /\ honoured' = honoured /\ reader' = OAuth!NoReader(0)
        BY <3>5 DEF OAuth!RefreshFails
      <4> QED
        BY <1>1, <3>1, <3>2, <4>1
    <3> QED
      BY <1>3, <3>3, <3>4, <3>5
  <2> QED
    BY <1>3, <2>1
    DEF OAuth!RefreshToken, OAuth!RefreshFails, OAuthIInv, OAuth!TypeOK, FlowsTaken, OneRow,
        OAuth!StateUsedOnce
<1>4. CASE OAuth!RevokeUserToken
  <2>1. DOMAIN tokenRows' = {}
    BY <1>4 DEF OAuth!RevokeUserToken
  <2> QED
    BY <1>4, <2>1
    DEF OAuth!RevokeUserToken, OAuthIInv, OAuth!TypeOK, FlowsTaken, OneRow, OAuth!StateUsedOnce
<1>5. CASE OAuth!Crash
  <2>1. \A c \in Callbacks :
            /\ callback'[c] \in [at : OAuth!InFlight \cup {"idle", "stored", "raised"},
                    flow : Flows \cup {0}, grant : OAuth!Grants, row : Callbacks \cup {0}]
            /\ callback'[c].flow = callback[c].flow /\ callback'[c].at # "insert"
    BY <1>5 DEF OAuth!Crash, OAuthIInv, OAuth!TypeOK, OAuth!InFlight
  <2>2. callback' \in [Callbacks ->
                [at : OAuth!InFlight \cup {"idle", "stored", "raised"},
                 flow : Flows \cup {0}, grant : OAuth!Grants, row : Callbacks \cup {0}]]
    BY <1>5, <2>1 DEF OAuth!Crash
  <2>3. OAuth!TypeOK'
    BY <1>1, <1>5, <2>2, FlowsAssumption DEF OAuth!Crash, OAuth!NoReader, OAuthIInv, OAuth!TypeOK
  <2>4. FlowsTaken'
    BY <1>5, <2>1 DEF OAuth!Crash, OAuthIInv, OAuth!TypeOK, FlowsTaken, OAuth!StateUsedOnce
  <2>5. OneRow'
    BY <1>5, <2>1 DEF OAuth!Crash, OAuthIInv, OneRow
  <2> QED
    BY <2>3, <2>4, <2>5 DEF OAuthIInv
<1> QED
  BY <1>2, <1>3, <1>4, <1>5

(* Every step of OAuth keeps its invariant.                                  *)
LEMMA OAuthKept ==
    ASSUME OAuthIInv, OAuth!Next \/ UNCHANGED oauthVars
    PROVE  OAuthIInv'
<1>1. CASE UNCHANGED oauthVars
  BY <1>1
  DEF oauthVars, OAuthIInv, OAuth!TypeOK, FlowsTaken, OneRow, OAuth!StateUsedOnce
<1> QED
  BY <1>1, FlowsStep, ExchangeStep, FindTokenStep, RowsStep, ReaderStep
  DEF OAuth!Next, OAuth!InitiateOauthFlow, OAuth!FastmcpAgentAuthenticate,
      OAuth!OauthCallback, OAuth!FastmcpAgentTokenExchange

(* Two rows need two callbacks that overlapped.                              *)
LEMMA OAuthSound == OAuthIInv => OAuth!AuthorizationSound
<1> SUFFICES ASSUME OAuthIInv, ~overlapped PROVE ~(Cardinality(DOMAIN tokenRows) > 1)
  BY OAuthCount DEF OAuth!AuthorizationSound, OAuth!SecondRowNeedsOverlap, OAuthIInv, FlowsTaken
<1>1. CASE DOMAIN tokenRows = {}
  BY <1>1, FS_EmptySet
<1>2. ASSUME NEW c \in DOMAIN tokenRows PROVE Cardinality(DOMAIN tokenRows) = 1
  <2>1. DOMAIN tokenRows = {c}
    BY <1>2 DEF OAuthIInv, OneRow
  <2> QED
    BY <2>1, FS_Singleton
<1> QED
  BY <1>1, <1>2

-----------------------------------------------------------------------------
(* The proxy, proxy/.                                                        *)

(* The wrapper numbers the servers it has; whatever was listed is among them. *)
Numbered ==
    /\ IsFiniteSet(DOMAIN wrapped)
    /\ \A id \in DOMAIN wrapped : id.number < Cardinality(DOMAIN wrapped)
    /\ DOMAIN registered \subseteq DOMAIN wrapped
    /\ gone \subseteq DOMAIN wrapped

Registering == {r \in Registrants : registrant[r].at \in {"test", "tools"}}

(* An id that was given once is that of one registration under way, new to   *)
(* the wrapper until the server has been tried out, and new to the list.     *)
Given ==
    \A r \in Registering :
        LET id == registrant[r].id
        IN  /\ id \in Proxy!Ids
            /\ registrant[r].at = "test" => id.number <= Cardinality(DOMAIN wrapped)
            /\ registrant[r].at = "tools" => id \in DOMAIN wrapped
            /\ id \notin doubled =>
                /\ registrant[r].at = "test" => id \notin DOMAIN wrapped
                /\ registrant[r].at = "tools" =>
                    wrapped[id] = registrant[r].config /\ id \notin DOMAIN registered \cup gone
                /\ \A s \in Registering \ {r} : registrant[s].id # id

(* Endpoints are tested for a discovery.                                     *)
Testing ==
    \A r \in Registrants :
        registrant[r].at # "discovering" =>
            registrant[r].todo = {} /\ registrant[r].testing = {}

ProxyIInv ==
    /\ Proxy!TypeOK /\ Numbered /\ Given /\ Testing
    /\ Proxy!ListedCanBeCalled /\ Proxy!IdsNeverReturn

(* The cardinality of the instance is that of FiniteSets.                    *)
LEMMA ProxyCount == \A S : Proxy!Cardinality(S) = Cardinality(S)
  BY DEF Cardinality, Proxy!Cardinality

(* What a registrant is.                                                     *)
Registrant ==
    [at : {"idle", "discovering", "queue", "test", "tools", "count"},
     id : Proxy!Ids \cup {Proxy!NoId}, config : Proxy!Configs,
     todo : SUBSET Endpoints, testing : SUBSET Endpoints, found : SUBSET Endpoints]

LEMMA Configured ==
    /\ Proxy!NoConfig \in Proxy!Configs
    /\ Proxy!Idle \in Registrant
    /\ \A e \in Endpoints : Proxy!WrappedConfig(e) \in Proxy!Configs
    /\ Proxy!NoId \notin Proxy!Ids
<1>1. \A e \in Endpoints : [name |-> HostName, endpoint |-> e] \in Proxy!Configs
  BY FleetAssumption DEF Proxy!Configs
<1>2. (CHOOSE e \in Endpoints : TRUE) \in Endpoints
  BY FleetAssumption
<1>3. Proxy!NoConfig \in Proxy!Configs
  BY <1>1, <1>2 DEF Proxy!NoConfig
<1>4. Proxy!NoId \notin Proxy!Ids
  BY FleetAssumption DEF Proxy!NoId, Proxy!Ids
<1>5. Proxy!Idle \in Registrant
  BY <1>3 DEF Proxy!Idle, Registrant
<1> QED
  BY <1>1, <1>3, <1>4, <1>5 DEF Proxy!WrappedConfig

LEMMA ProxyInit == Proxy!Init => ProxyIInv
<1> SUFFICES ASSUME Proxy!Init PROVE ProxyIInv
  OBVIOUS
<1>1. /\ wrapped = [id \in {} |-> 0] /\ registered = [id \in {} |-> 0]
      /\ registrant = [r \in Registrants |-> Proxy!Idle]
      /\ sweep = Proxy!NoSweep /\ gone = {} /\ doubled = {} /\ refused = {} /\ requests = 0
  BY DEF Proxy!Init
<1>2. DOMAIN wrapped = {} /\ DOMAIN registered = {}
  BY <1>1
<1>3. registrant \in [Registrants -> Registrant] /\ Registering = {}
  BY <1>1, Configured DEF Registering, Proxy!Idle
<1>4. sweep \in [on : BOOLEAN, seen : SUBSET Proxy!Ids, size : Nat,
                 at : Proxy!Ids \cup {Proxy!NoId}]
  BY <1>1 DEF Proxy!NoSweep
<1>5. Proxy!TypeOK
  BY <1>1, <1>2, <1>3, <1>4, FleetAssumption DEF Proxy!TypeOK, Registrant
<1>6. Numbered
  BY <1>1, <1>2, FS_EmptySet DEF Numbered
<1> QED
  BY <1>1, <1>2, <1>3, <1>5, <1>6
  DEF ProxyIInv, Given, Testing, Proxy!Idle, Proxy!ListedCanBeCalled, Proxy!IdsNeverReturn

(* Steps of registrants that neither are nor begin to be registering: the    *)
(* lists stay as they are.                                                   *)
LEMMA QuietStep ==
    ASSUME ProxyIInv, registrant' \in [Registrants -> Registrant],
           \A r \in Registering' : registrant'[r] = registrant[r],
           Testing', requests' \in 0..MaxRequests,
           UNCHANGED <<wrapped, registered, sweep, gone, doubled, refused>>
    PROVE  ProxyIInv'
<1>1. Registering' \subseteq Registering
  BY DEF Registering
<1>2. Proxy!TypeOK'
  BY DEF ProxyIInv, Proxy!TypeOK, Registrant, Proxy!Entry, Proxy!Configs, Proxy!Ids
<1>3. Numbered'
  BY DEF ProxyIInv, Numbered
<1>4. Given'
  BY <1>1 DEF ProxyIInv, Given
<1>5. Proxy!ListedCanBeCalled' /\ Proxy!IdsNeverReturn'
  BY DEF ProxyIInv, Proxy!ListedCanBeCalled, Proxy!IdsNeverReturn, Proxy!Callable
<1> QED
  BY <1>2, <1>3, <1>4, <1>5 DEF ProxyIInv

(* An id is chosen.                                                          *)
LEMMA RegistersStep ==
    ASSUME ProxyIInv, NEW r \in Registrants, NEW config \in Proxy!Configs,
           NEW found \in SUBSET Endpoints,
           registrant[r].at \notin {"test", "tools"},
           Proxy!Registers(r, config, found),
           requests' \in 0..MaxRequests,
           UNCHANGED <<wrapped, registered, sweep, gone, refused>>
    PROVE  ProxyIInv'
<1> DEFINE K == Cardinality(DOMAIN wrapped)
           id == Proxy!ServerId(config)
<1>1. K \in Nat /\ K < MaxServers /\ id = [name |-> config.name, number |-> K]
  BY ProxyCount, FS_CardinalityType DEF ProxyIInv, Numbered, Proxy!Registers, Proxy!ServerId
<1>2. id \in Proxy!Ids /\ id.number = K
  BY <1>1, FleetAssumption DEF Proxy!Ids, Proxy!Configs
<1>3. /\ registrant' = [registrant EXCEPT ![r] =
            [Proxy!Idle EXCEPT !.at = "test", !.id = id, !.config = config, !.found = found]]
      /\ doubled' = IF \E s \in Registrants \ {r} :
                            registrant[s].at = "test" /\ registrant[s].id = id
                    THEN doubled \cup {id} ELSE doubled
  BY DEF Proxy!Registers
<1> HIDE DEF id
<1> DEFINE new == [Proxy!Idle EXCEPT !.at = "test", !.id = id, !.config = config, !.found = found]
<1>4. /\ new \in Registrant /\ new.at = "test" /\ new.id = id
      /\ new.todo = {} /\ new.testing = {}
  <2>1. new \in Registrant
    BY <1>2, Configured DEF Registrant
  <2>2. new.at = "test"
    BY Configured DEF Registrant
  <2>3. new.id = id
    BY Configured DEF Registrant
  <2>4. new.todo = {} /\ new.testing = {}
    BY DEF Proxy!Idle
  <2> QED
    BY <2>1, <2>2, <2>3, <2>4
<1> HIDE DEF new
<1>5. /\ registrant' \in [Registrants -> Registrant]
      /\ registrant'[r].at = "test" /\ registrant'[r].id = id
      /\ registrant'[r].todo = {} /\ registrant'[r].testing = {}
      /\ \A s \in Registrants \ {r} : registrant'[s] = registrant[s]
  <2>1. registrant' = [registrant EXCEPT ![r] = new]
    BY <1>3 DEF new
  <2>2. registrant \in [Registrants -> Registrant]
    BY DEF ProxyIInv, Proxy!TypeOK, Registrant
  <2> QED
    BY <1>4, <2>1, <2>2
<1>6. /\ doubled \subseteq doubled' /\ doubled' \subseteq doubled \cup {id}
      /\ \A s \in Registrants \ {r} :
            registrant[s].at = "test" /\ registrant[s].id = id => id \in doubled'
  BY <1>3
<1>7. Proxy!TypeOK'
  BY <1>2, <1>5, <1>6
  DEF ProxyIInv, Proxy!TypeOK, Registrant, Proxy!Entry, Proxy!Configs, Proxy!Ids
<1>8. Numbered'
  BY DEF ProxyIInv, Numbered
<1>9. id \notin DOMAIN wrapped
  BY <1>1, <1>2 DEF ProxyIInv, Numbered
<1>10. Given'
  <2>1. Registering' = Registering \cup {r} /\ r \notin Registering
    BY <1>5 DEF Registering
  <2>2. \A s \in Registering : registrant'[s] = registrant[s] /\ s # r
    BY <1>5, <2>1 DEF Registering
  <2>3. \A s \in Registering : registrant[s].id = id => id \in doubled'
    BY <1>6, <1>9, <2>2 DEF ProxyIInv, Given, Registering
  <2> QED
    BY <1>1, <1>2, <1>5, <1>6, <1>9, <2>1, <2>2, <2>3 DEF ProxyIInv, Given
<1>11. Proxy!ListedCanBeCalled' /\ Proxy!IdsNeverReturn'
  BY <1>6 DEF ProxyIInv, Proxy!ListedCanBeCalled, Proxy!IdsNeverReturn, Proxy!Callable
<1>12. Testing'
  BY <1>5 DEF ProxyIInv, Testing
<1> QED
  BY <1>7, <1>8, <1>10, <1>11, <1>12 DEF ProxyIInv

(* A connected server is wrapped.                                            *)
LEMMA WrapStep ==
    ASSUME ProxyIInv, NEW r \in Registrants, Proxy!WrapServer(r)
    PROVE  ProxyIInv'
<1> DEFINE id == registrant[r].id
           config == registrant[r].config
<1>1. /\ registrant[r].at = "test" /\ r \in Registering
      /\ id \in Proxy!Ids /\ config \in Proxy!Configs
      /\ id.number <= Cardinality(DOMAIN wrapped)
      /\ id \notin doubled => id \notin DOMAIN wrapped
  BY DEF Proxy!WrapServer, ProxyIInv, Proxy!TypeOK, Given, Registering
<1>2. /\ DOMAIN wrapped' = DOMAIN wrapped \cup {id}
      /\ wrapped'[id] = config
      /\ \A i \in DOMAIN wrapped \ {id} : wrapped'[i] = wrapped[i]
      /\ UNCHANGED <<registered, sweep, gone, doubled, refused, requests>>
  BY DEF Proxy!WrapServer, Proxy!With
<1>3. registrant' = [registrant EXCEPT ![r].at = "tools"]
  BY DEF Proxy!WrapServer
<1>4. /\ registrant' \in [Registrants -> Registrant]
      /\ registrant'[r].at = "tools" /\ registrant'[r].id = id /\ registrant'[r].config = config
      /\ \A s \in Registrants \ {r} : registrant'[s] = registrant[s]
  BY <1>3 DEF ProxyIInv, Proxy!TypeOK, Registrant
<1>5. Registering' = Registering
  BY <1>1, <1>4 DEF Registering
<1> HIDE DEF id, config
<1>6. Proxy!TypeOK'
  BY <1>1, <1>2, <1>4
  DEF ProxyIInv, Proxy!TypeOK, Registrant, Proxy!Entry, Proxy!Configs, Proxy!Ids
<1>7. /\ IsFiniteSet(DOMAIN wrapped') /\ Cardinality(DOMAIN wrapped) \in Nat
      /\ Cardinality(DOMAIN wrapped') =
            IF id \in DOMAIN wrapped THEN Cardinality(DOMAIN wrapped)
            ELSE Cardinality(DOMAIN wrapped) + 1
  BY <1>2, FS_AddElement, FS_CardinalityType DEF ProxyIInv, Numbered
<1>8. \A i \in DOMAIN wrapped : i.number \in Nat
  BY FleetAssumption DEF ProxyIInv, Proxy!TypeOK, Proxy!Ids
<1>9. id.number \in Nat
  BY <1>1 DEF Proxy!Ids
<1>10. Numbered'
  <2>1. \A i \in DOMAIN wrapped' : i.number < Cardinality(DOMAIN wrapped')
    BY <1>1, <1>2, <1>7, <1>8, <1>9 DEF ProxyIInv, Numbered
  <2> QED
    BY <1>2, <1>7, <2>1 DEF ProxyIInv, Numbered
<1>11. Given'
  <2> SUFFICES ASSUME NEW s \in Registering
               PROVE  /\ registrant'[s].id \in Proxy!Ids
                      /\ registrant'[s].at = "test" =>
                            registrant'[s].id.number <= Cardinality(DOMAIN wrapped')
                      /\ registrant'[s].at = "tools" => registrant'[s].id \in DOMAIN wrapped'
                      /\ registrant'[s].id \notin doubled =>
                            /\ registrant'[s].at = "test" => registrant'[s].id \notin DOMAIN wrapped'
                            /\ registrant'[s].at = "tools" =>
                                /\ wrapped'[registrant'[s].id] = registrant'[s].config
                                /\ registrant'[s].id \notin DOMAIN registered \cup gone
                            /\ \A q \in Registering \ {s} : registrant'[q].id # registrant'[s].id
    BY <1>2, <1>5 DEF Given
  <2>1. \A q \in Registering : registrant'[q].id = registrant[q].id
    BY <1>4 DEF id, Registering
  <2>2. id \notin doubled => id \notin DOMAIN registered \cup gone
    BY <1>1 DEF ProxyIInv, Numbered
  <2>3. CASE s = r
    BY <1>1, <1>2, <1>4, <2>1, <2>2, <2>3 DEF ProxyIInv, Given, id
  <2>4. CASE s # r
    <3>1. registrant'[s] = registrant[s]
      BY <1>4, <2>4 DEF Registering
    <3>2. registrant[s].id \in Proxy!Ids
      BY DEF ProxyIInv, Given
    <3>3. registrant[s].at = "test" => registrant[s].id.number <= Cardinality(DOMAIN wrapped')
      BY <1>7, <3>2, FleetAssumption DEF ProxyIInv, Given, Proxy!Ids
    <3>4. registrant[s].id \notin doubled => registrant[s].id # id
      BY <1>1, <2>4 DEF ProxyIInv, Given, id
    <3> QED
      BY <1>2, <2>1, <3>1, <3>2, <3>3, <3>4 DEF ProxyIInv, Given
  <2> QED
    BY <2>3, <2>4
<1>12. Proxy!ListedCanBeCalled' /\ Proxy!IdsNeverReturn'
  BY <1>1, <1>2
  DEF ProxyIInv, Numbered, Proxy!ListedCanBeCalled, Proxy!IdsNeverReturn, Proxy!Callable
<1>13. Testing'
  BY <1>1, <1>3 DEF ProxyIInv, Testing, Proxy!TypeOK
<1> QED
  BY <1>6, <1>10, <1>11, <1>12, <1>13 DEF ProxyIInv

(* A wrapped server is listed.                                               *)
LEMMA ListStep ==
    ASSUME ProxyIInv, NEW r \in Registrants, Proxy!ListServer(r)
    PROVE  ProxyIInv'
<1> DEFINE id == registrant[r].id
           config == registrant[r].config
<1>1. /\ registrant[r].at = "tools" /\ r \in Registering
      /\ id \in Proxy!Ids /\ config \in Proxy!Configs /\ id \in DOMAIN wrapped
      /\ id \notin doubled => wrapped[id] = config /\ id \notin DOMAIN registered \cup gone
  BY DEF Proxy!ListServer, ProxyIInv, Proxy!TypeOK, Given, Registering
<1>2. /\ DOMAIN registered' = DOMAIN registered \cup {id}
      /\ registered'[id] = [config |-> config, status |-> "online"]
      /\ \A i \in DOMAIN registered \ {id} : registered'[i] = registered[i]
      /\ UNCHANGED <<wrapped, sweep, gone, doubled, refused, requests>>
  BY DEF Proxy!ListServer, Proxy!With
<1>3. registrant' = [registrant EXCEPT ![r].at = "count"]
  BY DEF Proxy!ListServer
<1>4. /\ registrant' \in [Registrants -> Registrant]
      /\ registrant'[r].at = "count"
      /\ \A s \in Registrants \ {r} : registrant'[s] = registrant[s]
  BY <1>3 DEF ProxyIInv, Proxy!TypeOK, Registrant
<1>5. /\ Registering' = Registering \ {r}
      /\ \A s \in Registering' : registrant'[s] = registrant[s] /\ s # r /\ s \in Registering
  BY <1>4 DEF Registering
<1> HIDE DEF id, config
<1>6. Proxy!TypeOK'
  <2>1. registered'[id] \in Proxy!Entry
    BY <1>1, <1>2 DEF Proxy!Entry
  <2>2. \A i \in DOMAIN registered' : registered'[i] \in Proxy!Entry /\ i \in Proxy!Ids
    BY <1>1, <1>2, <2>1 DEF ProxyIInv, Proxy!TypeOK
  <2> QED
    BY <1>1, <1>2, <1>4, <2>2 DEF ProxyIInv, Proxy!TypeOK, Registrant
<1>7. Numbered'
  BY <1>1, <1>2 DEF ProxyIInv, Numbered
<1>8. Given'
  <2>1. \A s \in Registering' : registrant[s].id \notin doubled => registrant[s].id # id
    BY <1>1, <1>5 DEF ProxyIInv, Given, id
  <2> QED
    BY <1>2, <1>5, <2>1 DEF ProxyIInv, Given
<1>9. Proxy!ListedCanBeCalled'
  <2>1. registered'[id].config = config /\ registered'[id].status = "online"
    BY <1>2
  <2> QED
    BY <1>1, <1>2, <2>1 DEF ProxyIInv, Proxy!ListedCanBeCalled, Proxy!Callable
<1>10. Proxy!IdsNeverReturn'
  BY <1>1, <1>2 DEF ProxyIInv, Proxy!IdsNeverReturn
<1>11. Testing'
  BY <1>1, <1>3 DEF ProxyIInv, Testing, Proxy!TypeOK
<1> QED
  BY <1>6, <1>7, <1>8, <1>9, <1>10, <1>11 DEF ProxyIInv

Sweeps == [on : BOOLEAN, seen : SUBSET Proxy!Ids, size : Nat, at : Proxy!Ids \cup {Proxy!NoId}]

(* Steps of a health check that change neither the list nor the wrapper.     *)
LEMMA SweepStep ==
    ASSUME ProxyIInv, sweep' \in Sweeps,
           UNCHANGED <<wrapped, registered, registrant, gone, doubled, refused, requests>>
    PROVE  ProxyIInv'
<1>1. Proxy!TypeOK'
  BY DEF ProxyIInv, Proxy!TypeOK, Sweeps, Proxy!Entry, Proxy!Configs, Proxy!Ids
<1>2. Numbered'
  BY DEF ProxyIInv, Numbered
<1>3. Given'
  BY DEF ProxyIInv, Given, Registering
<1>4. Proxy!ListedCanBeCalled' /\ Proxy!IdsNeverReturn'
  BY DEF ProxyIInv, Proxy!ListedCanBeCalled, Proxy!IdsNeverReturn, Proxy!Callable
<1>5. Testing'
  BY DEF ProxyIInv, Testing
<1> QED
  BY <1>1, <1>2, <1>3, <1>4, <1>5 DEF ProxyIInv

(* The beginning, the next server and the end of a health check.             *)
LEMMA HealthStep ==
    ASSUME ProxyIInv,
           \/ Proxy!BeginHealthCheck \/ Proxy!EndHealthCheck
           \/ \E id \in Proxy!Ids : Proxy!CheckHealth(id)
    PROVE  ProxyIInv'
<1>1. Proxy!NoSweep \in Sweeps
  BY DEF Proxy!NoSweep, Sweeps
<1>2. CASE Proxy!BeginHealthCheck
  <2>1. Cardinality(DOMAIN registered) \in Nat
    BY FS_Subset, FS_CardinalityType DEF ProxyIInv, Numbered
  <2>2. sweep' \in Sweeps
    BY <1>1, <1>2, <2>1, ProxyCount DEF Proxy!BeginHealthCheck, Sweeps
  <2> QED
    BY <1>2, <2>2, SweepStep DEF Proxy!BeginHealthCheck
<1>3. CASE Proxy!EndHealthCheck
  BY <1>1, <1>3, SweepStep DEF Proxy!EndHealthCheck
<1>4. ASSUME NEW id \in Proxy!Ids, Proxy!CheckHealth(id) PROVE ProxyIInv'
  <2>1. sweep \in Sweeps
    BY DEF ProxyIInv, Proxy!TypeOK, Sweeps
  <2>2. sweep' \in Sweeps
    BY <1>4, <2>1 DEF Proxy!CheckHealth, Sweeps
  <2> QED
    BY <1>4, <2>2, SweepStep DEF Proxy!CheckHealth
<1> QED
  BY <1>2, <1>3, <1>4

(* A server is checked.                                                      *)
LEMMA CheckedStep ==
    ASSUME ProxyIInv, NEW healthy \in BOOLEAN, Proxy!HealthChecked(healthy)
    PROVE  ProxyIInv'
<1> DEFINE id == sweep.at
<1>1. sweep' \in Sweeps /\ UNCHANGED <<wrapped, registrant, gone, doubled, requests>>
  <2>1. sweep \in Sweeps
    BY DEF ProxyIInv, Proxy!TypeOK, Sweeps
  <2> QED
    BY <2>1 DEF Proxy!HealthChecked, Sweeps
<1>2. CASE id \notin DOMAIN registered
  <2>1. UNCHANGED <<refused, registered>>
    BY <1>2 DEF Proxy!HealthChecked
  <2> QED
    BY <1>1, <2>1, SweepStep
<1>3. CASE id \in DOMAIN registered
  <2>1. /\ registered[id] \in Proxy!Entry
        /\ refused' = IF healthy THEN refused
                      ELSE refused \cup {registered[id].config.endpoint}
        /\ \/ registered' = [registered EXCEPT ![id].status =
                                IF healthy THEN "online" ELSE "offline"]
           \/ registered' = registered
    BY <1>3 DEF Proxy!HealthChecked, ProxyIInv, Proxy!TypeOK
  <2>2. /\ DOMAIN registered' = DOMAIN registered
        /\ \A i \in DOMAIN registered \ {id} : registered'[i] = registered[i]
        /\ registered'[id].config = registered[id].config
        /\ registered'[id] \in Proxy!Entry
        /\ \/ registered'[id] = registered[id]
           \/ registered'[id].status = "offline" => ~healthy
    BY <1>3, <2>1 DEF Proxy!Entry
  <2>3. refused \subseteq refused' /\ refused' \subseteq Endpoints
        /\ (~healthy => registered[id].config.endpoint \in refused')
    BY <2>1 DEF Proxy!Entry, Proxy!Configs, ProxyIInv, Proxy!TypeOK
  <2>4. Proxy!TypeOK'
    BY <1>1, <1>3, <2>2, <2>3 DEF ProxyIInv, Proxy!TypeOK, Sweeps
  <2>5. Numbered'
    BY <1>1, <2>2 DEF ProxyIInv, Numbered
  <2>6. Given'
    BY <1>1, <2>2 DEF ProxyIInv, Given, Registering
  <2>7. Proxy!ListedCanBeCalled'
    BY <1>1, <1>3, <2>2, <2>3 DEF ProxyIInv, Proxy!ListedCanBeCalled, Proxy!Callable
  <2>8. Proxy!IdsNeverReturn'
    BY <1>1, <2>2 DEF ProxyIInv, Proxy!IdsNeverReturn
  <2>9. Testing'
    BY <1>1 DEF ProxyIInv, Testing
  <2> QED
    BY <2>4, <2>5, <2>6, <2>7, <2>8, <2>9 DEF ProxyIInv
<1> QED
  BY <1>2, <1>3

(* A server is taken off the list.                                           *)
LEMMA UnregisterStep ==
    ASSUME ProxyIInv, NEW id \in Proxy!Ids, Proxy!UnregisterServer(id)
    PROVE  ProxyIInv'
<1>1. /\ id \in DOMAIN registered
      /\ DOMAIN registered' = DOMAIN registered \ {id}
      /\ \A i \in DOMAIN registered' : registered'[i] = registered[i]
      /\ gone' = gone \cup {id}
      /\ UNCHANGED <<wrapped, registrant, doubled, refused, requests>>
  BY DEF Proxy!UnregisterServer
<1>2. sweep' \in Sweeps
  <2>1. sweep \in Sweeps
    BY DEF ProxyIInv, Proxy!TypeOK, Sweeps
  <2> QED
    BY <2>1 DEF Proxy!UnregisterServer, Sweeps
<1>3. Proxy!TypeOK'
  BY <1>1, <1>2 DEF ProxyIInv, Proxy!TypeOK, Sweeps
<1>4. Numbered'
  BY <1>1 DEF ProxyIInv, Numbered
<1>5. Given'
  BY <1>1 DEF ProxyIInv, Given, Registering
<1>6. Proxy!ListedCanBeCalled' /\ Proxy!IdsNeverReturn'
  BY <1>1 DEF ProxyIInv, Proxy!ListedCanBeCalled, Proxy!IdsNeverReturn, Proxy!Callable
<1>7. Testing'
  BY <1>1 DEF ProxyIInv, Testing
<1> QED
  BY <1>3, <1>4, <1>5, <1>6, <1>7 DEF ProxyIInv

(* The steps of a discovery, and the ends of a registration.                 *)
LEMMA DiscovererStep ==
    ASSUME ProxyIInv, NEW r \in Registrants,
           \/ Proxy!RegistrationFails(r) \/ Proxy!CountTools(r)
           \/ \E es \in SUBSET Endpoints : Proxy!DiscoverServers(r, es)
           \/ \E file \in Proxy!Files : Proxy!DiscoveryAnswers(r, file)
           \/ \E e \in Endpoints : Proxy!TestBegins(r, e)
           \/ \E e \in Endpoints, ok \in BOOLEAN : Proxy!TestEnds(r, e, ok)
    PROVE  ProxyIInv'
<1> DEFINE Others == /\ \A s \in Registrants \ {r} : registrant'[s] = registrant[s]
                     /\ registrant' \in [Registrants -> Registrant]
                     /\ registrant'[r].at \notin {"test", "tools"}
                     /\ registrant'[r].at # "discovering" =>
                            registrant'[r].todo = {} /\ registrant'[r].testing = {}
<1>1. registrant \in [Registrants -> Registrant] /\ requests \in 0..MaxRequests
  BY DEF ProxyIInv, Proxy!TypeOK, Registrant
<1>2. ASSUME NEW x \in Registrant, x.at \notin {"test", "tools"},
             x.at # "discovering" => x.todo = {} /\ x.testing = {},
             registrant' = [registrant EXCEPT ![r] = x]
      PROVE  Others
  BY <1>1, <1>2
<1>3. Others
  <2>1. ASSUME NEW found \in SUBSET Endpoints
        PROVE  /\ [Proxy!Idle EXCEPT !.at = "queue", !.found = found] \in Registrant
               /\ [Proxy!Idle EXCEPT !.at = "queue", !.found = found].at = "queue"
               /\ [Proxy!Idle EXCEPT !.at = "queue", !.found = found].todo = {}
               /\ [Proxy!Idle EXCEPT !.at = "queue", !.found = found].testing = {}
    BY Configured DEF Registrant, Proxy!Idle
  <2>2. Proxy!Idle \in Registrant /\ Proxy!Idle.at = "idle"
        /\ Proxy!Idle.todo = {} /\ Proxy!Idle.testing = {}
    BY Configured DEF Proxy!Idle
  <2>3. CASE Proxy!RegistrationFails(r) \/ Proxy!CountTools(r)
    <3>1. Proxy!Over(r) \in Registrant /\ Proxy!Over(r).at \notin {"test", "tools"}
          /\ Proxy!Over(r).todo = {} /\ Proxy!Over(r).testing = {}
      <4>1. registrant[r].found \in SUBSET Endpoints
        BY <1>1 DEF Registrant
      <4>2. CASE registrant[r].found = {}
        BY <2>2, <4>2 DEF Proxy!Over
      <4>3. CASE registrant[r].found # {}
        <5>1. Proxy!Over(r) = [Proxy!Idle EXCEPT !.at = "queue", !.found = registrant[r].found]
          BY <4>3 DEF Proxy!Over
        <5> QED
          BY <2>1, <4>1, <5>1
      <4> QED
        BY <4>2, <4>3
    <3>2. registrant' = [registrant EXCEPT ![r] = Proxy!Over(r)]
      BY <2>3 DEF Proxy!RegistrationFails, Proxy!CountTools
    <3> QED
      BY <1>2, <3>1, <3>2
  <2>4. ASSUME NEW es \in SUBSET Endpoints, Proxy!DiscoverServers(r, es) PROVE Others
    <3> DEFINE x == [Proxy!Idle EXCEPT !.at = "discovering", !.todo = es]
    <3>1. x \in Registrant
      BY Configured DEF Registrant
    <3>2. x.at = "discovering"
      BY Configured DEF Registrant
    <3>3. registrant' = [registrant EXCEPT ![r] = x]
      BY <2>4 DEF Proxy!DiscoverServers
    <3> HIDE DEF x
    <3> QED
      BY <1>2, <3>1, <3>2, <3>3
  <2>5. ASSUME NEW file \in Proxy!Files, Proxy!DiscoveryAnswers(r, file) PROVE Others
    <3> DEFINE found == registrant[r].found \cup file
               x == IF found = {} THEN Proxy!Idle
                    ELSE [Proxy!Idle EXCEPT !.at = "queue", !.found = found]
    <3>1. found \in SUBSET Endpoints
      BY <1>1, FleetAssumption DEF Registrant, Proxy!Files
    <3>2. registrant' = [registrant EXCEPT ![r] = x]
      BY <2>5 DEF Proxy!DiscoveryAnswers
    <3> HIDE DEF found
    <3>3. CASE found = {}
      BY <1>2, <2>2, <3>2, <3>3
    <3>4. CASE found # {}
      <4>1. x = [Proxy!Idle EXCEPT !.at = "queue", !.found = found]
        BY <3>4
      <4> HIDE DEF x
      <4> QED
        BY <1>2, <2>1, <3>1, <3>2, <4>1
    <3> QED
      BY <3>3, <3>4
  <2>6. ASSUME NEW e \in Endpoints, NEW ok \in BOOLEAN,
               Proxy!TestBegins(r, e) \/ Proxy!TestEnds(r, e, ok)
        PROVE  Others
    <3>1. registrant[r].at = "discovering"
      BY <2>6 DEF ProxyIInv, Testing, Proxy!TestBegins, Proxy!TestEnds
    <3> QED
      BY <1>1, <2>6, <3>1 DEF Registrant, Proxy!TestBegins, Proxy!TestEnds
  <2> QED
    BY <2>3, <2>4, <2>5, <2>6
<1>4. requests' \in 0..MaxRequests
      /\ UNCHANGED <<wrapped, registered, sweep, gone, doubled, refused>>
  <2>1. ASSUME Proxy!Requested PROVE requests' \in 0..MaxRequests
    BY <1>1, <2>1, FleetAssumption DEF Proxy!Requested
  <2>2. ASSUME NEW es \in SUBSET Endpoints, Proxy!DiscoverServers(r, es)
        PROVE  Proxy!Requested /\ UNCHANGED <<wrapped, registered, sweep, gone, doubled, refused>>
    BY <2>2 DEF Proxy!DiscoverServers
  <2>3. CASE UNCHANGED <<wrapped, registered, sweep, gone, doubled, refused, requests>>
    BY <1>1, <2>3
  <2> QED
    BY <2>1, <2>2, <2>3
    DEF Proxy!RegistrationFails, Proxy!CountTools, Proxy!DiscoveryAnswers, Proxy!TestBegins,
        Proxy!TestEnds
<1>5. \A s \in Registering' : registrant'[s] = registrant[s]
  BY <1>3 DEF Registering
<1>6. Testing'
  BY <1>3 DEF ProxyIInv, Testing
<1> QED
  BY <1>3, <1>4, <1>5, <1>6, QuietStep

(* A registration begins.                                                    *)
LEMMA RegisterStep ==
    ASSUME ProxyIInv, NEW r \in Registrants,
           \/ \E config \in Proxy!Configs : Proxy!RegisterServer(r, config)
           \/ Proxy!RegisterDiscovered(r)
    PROVE  ProxyIInv'
<1>1. requests \in 0..MaxRequests /\ registrant[r].found \in SUBSET Endpoints
  BY DEF ProxyIInv, Proxy!TypeOK
<1>2. ASSUME NEW config \in Proxy!Configs, Proxy!RegisterServer(r, config) PROVE ProxyIInv'
  <2>1. requests' \in 0..MaxRequests
    BY <1>1, <1>2, FleetAssumption DEF Proxy!RegisterServer, Proxy!Requested
  <2> QED
    BY <1>2, <2>1, RegistersStep DEF Proxy!RegisterServer
<1>3. CASE Proxy!RegisterDiscovered(r)
  <2>1. PICK e \in registrant[r].found :
            Proxy!Registers(r, Proxy!WrappedConfig(e), registrant[r].found \ {e})
    BY <1>3 DEF Proxy!RegisterDiscovered
  <2>2. Proxy!WrappedConfig(e) \in Proxy!Configs
    BY <1>1, <2>1, Configured
  <2>3. registrant[r].found \ {e} \in SUBSET Endpoints
    BY <1>1
  <2> QED
    BY <1>1, <1>3, <2>1, <2>2, <2>3, RegistersStep DEF Proxy!RegisterDiscovered
<1> QED
  BY <1>2, <1>3

(* Every step of the proxy keeps its invariant.                              *)
LEMMA ProxyKept ==
    ASSUME ProxyIInv, Proxy!Next \/ UNCHANGED proxyVars
    PROVE  ProxyIInv'
<1>1. CASE UNCHANGED proxyVars
  <2>1. sweep' \in Sweeps
    BY <1>1 DEF proxyVars, ProxyIInv, Proxy!TypeOK, Sweeps
  <2> QED
    BY <1>1, <2>1, SweepStep DEF proxyVars
<1>2. ASSUME NEW r \in Registrants,
             \/ \E config \in Proxy!Configs : Proxy!RegisterServer(r, config)
             \/ \E es \in SUBSET Endpoints : Proxy!DiscoverServers(r, es)
             \/ \E file \in Proxy!Files : Proxy!DiscoveryAnswers(r, file)
             \/ \E e \in Endpoints, ok \in BOOLEAN : Proxy!TestEnds(r, e, ok)
             \/ \E e \in Endpoints : Proxy!TestBegins(r, e)
             \/ Proxy!RegisterDiscovered(r) \/ Proxy!RegistrationFails(r) \/ Proxy!WrapServer(r)
             \/ Proxy!ListServer(r) \/ Proxy!CountTools(r)
      PROVE  ProxyIInv'
  BY <1>2, RegisterStep, DiscovererStep, WrapStep, ListStep
<1>3. ASSUME NEW id \in Proxy!Ids, Proxy!UnregisterServer(id) \/ Proxy!CheckHealth(id)
      PROVE  ProxyIInv'
  BY <1>3, UnregisterStep, HealthStep
<1> QED
  BY <1>1, <1>2, <1>3, HealthStep, CheckedStep DEF Proxy!Next

-----------------------------------------------------------------------------
(* Streams, mcp/streaming.py.                                                *)

(* A stream has as many chunks in its queue as it has numbered.              *)
StreamIInv ==
    /\ Stream!TypeOK /\ Stream!StreamsAreSound
    /\ DOMAIN stream = Streams
    /\ \A s \in Streams :
        /\ DOMAIN stream[s] = {"status", "closed", "created", "sent", "queue"}
        /\ stream[s].sent = Len(stream[s].queue)

LEMMA NewStream ==
    ASSUME NEW x, x.queue = <<>>, x.sent = 0
    PROVE  /\ x.sent \in 0..BufferSize /\ x.queue \in Seq(Nat) /\ x.sent = Len(x.queue)
           /\ \A k \in DOMAIN x.queue : x.queue[k] = k - 1
<1>1. <<>> \in Seq(Nat) /\ Len(<<>>) = 0 /\ DOMAIN <<>> = {}
  OBVIOUS
<1> QED
  BY <1>1, StreamsAssumption

LEMMA StreamInit == Stream!Init => StreamIInv
<1> SUFFICES ASSUME Stream!Init PROVE StreamIInv
  OBVIOUS
<1>1. \A s \in Streams : stream[s] = Stream!Unmade
  BY DEF Stream!Init
<1>2. /\ DOMAIN Stream!Unmade = {"status", "closed", "created", "sent", "queue"}
      /\ Stream!Unmade.queue = <<>> /\ Stream!Unmade.sent = 0
  BY DEF Stream!Unmade
<1>3. \A s \in Streams :
        /\ stream[s].sent \in 0..BufferSize /\ stream[s].queue \in Seq(Nat)
        /\ stream[s].sent = Len(stream[s].queue)
        /\ \A k \in DOMAIN stream[s].queue : stream[s].queue[k] = k - 1
  BY <1>1, <1>2, NewStream
<1> QED
  BY <1>1, <1>2, <1>3
  DEF Stream!Init, StreamIInv, Stream!TypeOK, Stream!StreamsAreSound

(* A step that gives a stream no chunk.                                      *)
LEMMA NoChunk ==
    ASSUME StreamIInv, DOMAIN stream' = Streams,
           \A s \in Streams :
                /\ DOMAIN stream'[s] = DOMAIN stream[s]
                /\ stream'[s].sent = stream[s].sent /\ stream'[s].queue = stream[s].queue,
           active' \subseteq Streams, active' = flow', loops' \subseteq Streams,
           aged' \subseteq Streams
    PROVE  StreamIInv'
  BY DEF StreamIInv, Stream!TypeOK, Stream!StreamsAreSound

(* A chunk is numbered and queued.                                           *)
LEMMA ChunkStep ==
    ASSUME StreamIInv, NEW s \in Streams, NEW final \in BOOLEAN,
           Len(stream[s].queue) < BufferSize,
           stream' = [stream EXCEPT ![s] = Stream!Queued(@, final)],
           UNCHANGED <<active, flow, loops, aged>>
    PROVE  StreamIInv'
<1> DEFINE t == stream[s]
           q == t.queue
<1>1. /\ q \in Seq(Nat) /\ t.sent = Len(q) /\ Len(q) \in Nat
      /\ DOMAIN t = {"status", "closed", "created", "sent", "queue"}
      /\ \A k \in DOMAIN q : q[k] = k - 1
  BY DEF StreamIInv, Stream!TypeOK, Stream!StreamsAreSound
<1> HIDE DEF q
<1> DEFINE new == Stream!Queued(t, final)
<1>2. /\ DOMAIN new = DOMAIN t
      /\ new.queue = Append(q, t.sent) /\ new.sent = t.sent + 1
  BY <1>1 DEF Stream!Queued, Stream!Number, q
<1>3. stream'[s] = new /\ DOMAIN stream' = Streams
      /\ \A r \in Streams \ {s} : stream'[r] = stream[r]
  BY DEF StreamIInv
<1> HIDE DEF new
<1>4. /\ new.queue \in Seq(Nat) /\ Len(new.queue) = Len(q) + 1
      /\ DOMAIN new.queue = 1..(Len(q) + 1)
      /\ \A k \in 1..Len(q) : new.queue[k] = q[k]
      /\ new.queue[Len(q) + 1] = Len(q)
  BY <1>1, <1>2
<1>5. new.sent = Len(new.queue) /\ new.sent \in 0..BufferSize
  <2>1. Len(q) < BufferSize
    BY DEF q
  <2> QED
    BY <1>1, <1>2, <1>4, <2>1, StreamsAssumption
<1>6. ASSUME NEW k \in DOMAIN new.queue PROVE new.queue[k] = k - 1
  <2>1. k \in 1..(Len(q) + 1)
    BY <1>4
  <2>2. CASE k \in 1..Len(q)
    <3>1. DOMAIN q = 1..Len(q)
      BY <1>1
    <3> QED
      BY <1>1, <1>4, <2>2, <3>1
  <2>3. CASE k = Len(q) + 1
    <3>1. (Len(q) + 1) - 1 = Len(q)
      BY <1>1
    <3> QED
      BY <1>4, <2>3, <3>1
  <2> QED
    BY <1>1, <2>1, <2>2, <2>3
<1>7. \A r \in Streams :
        /\ stream'[r].sent \in 0..BufferSize /\ stream'[r].queue \in Seq(Nat)
        /\ stream'[r].sent = Len(stream'[r].queue)
        /\ DOMAIN stream'[r] = {"status", "closed", "created", "sent", "queue"}
        /\ \A k \in DOMAIN stream'[r].queue : stream'[r].queue[k] = k - 1
  <2>1. ASSUME NEW r \in Streams \ {s}
        PROVE  /\ stream'[r].sent \in 0..BufferSize /\ stream'[r].queue \in Seq(Nat)
               /\ stream'[r].sent = Len(stream'[r].queue)
               /\ DOMAIN stream'[r] = {"status", "closed", "created", "sent", "queue"}
               /\ \A k \in DOMAIN stream'[r].queue : stream'[r].queue[k] = k - 1
    BY <1>3, <2>1 DEF StreamIInv, Stream!TypeOK, Stream!StreamsAreSound
  <2> QED
    BY <1>1, <1>2, <1>3, <1>4, <1>5, <1>6, <2>1
<1> QED
  BY <1>3, <1>7 DEF StreamIInv, Stream!TypeOK, Stream!StreamsAreSound

(* Every step of the streams keeps their invariant.                          *)
LEMMA StreamKept ==
    ASSUME StreamIInv, Stream!Next \/ UNCHANGED streamVars
    PROVE  StreamIInv'
<1> USE DEF StreamIInv, Stream!TypeOK, Stream!StreamsAreSound
<1>1. ASSUME UNCHANGED stream,
             active' \subseteq Streams, active' = flow', loops' \subseteq Streams,
             aged' \subseteq Streams
      PROVE  StreamIInv'
  BY <1>1, NoChunk
<1>2. ASSUME NEW s \in Streams, NEW b \in BOOLEAN, Stream!CreateStream(s, b) PROVE StreamIInv'
  <2> DEFINE new == [Stream!Unmade EXCEPT !.status = "initializing", !.created = ticks]
  <2>1. /\ DOMAIN new = {"status", "closed", "created", "sent", "queue"}
        /\ new.sent = 0 /\ new.queue = <<>>
    BY DEF Stream!Unmade
  <2>2. stream'[s] = new /\ DOMAIN stream' = Streams
        /\ \A r \in Streams \ {s} : stream'[r] = stream[r]
    BY <1>2 DEF Stream!CreateStream
  <2>3. active' = active \cup {s} /\ flow' = flow \cup {s} /\ loops' \subseteq loops \cup {s}
        /\ aged' = aged
    BY <1>2 DEF Stream!CreateStream
  <2> HIDE DEF new
  <2>4. /\ new.sent \in 0..BufferSize /\ new.queue \in Seq(Nat) /\ new.sent = Len(new.queue)
        /\ \A k \in DOMAIN new.queue : new.queue[k] = k - 1
    BY <2>1, NewStream
  <2>5. ASSUME NEW r \in Streams \ {s} PROVE stream'[r] = stream[r]
    BY <2>2, <2>5
  <2>6. active' = flow' /\ active' \subseteq Streams /\ loops' \subseteq Streams
        /\ aged' \subseteq Streams
    BY <2>3
  <2>7. \A r \in Streams :
            /\ DOMAIN stream'[r] = {"status", "closed", "created", "sent", "queue"}
            /\ stream'[r].sent \in 0..BufferSize /\ stream'[r].queue \in Seq(Nat)
            /\ stream'[r].sent = Len(stream'[r].queue)
            /\ \A k \in DOMAIN stream'[r].queue : stream'[r].queue[k] = k - 1
    <3>1. ASSUME NEW r \in Streams \ {s}
            PROVE  /\ DOMAIN stream'[r] = {"status", "closed", "created", "sent", "queue"}
                   /\ stream'[r].sent \in 0..BufferSize /\ stream'[r].queue \in Seq(Nat)
                   /\ stream'[r].sent = Len(stream'[r].queue)
                   /\ \A k \in DOMAIN stream'[r].queue : stream'[r].queue[k] = k - 1
      BY <2>5
    <3> QED
      BY <2>1, <2>2, <2>4, <3>1
  <2> QED
    BY <2>2, <2>6, <2>7
<1>3. ASSUME NEW s \in Streams, Stream!Cancel(s) PROVE StreamIInv'
  BY <1>3, NoChunk DEF Stream!Cancel
<1>4. ASSUME NEW s \in Streams, Stream!CloseStream(s), aged' \subseteq Streams PROVE StreamIInv'
  BY <1>4, NoChunk DEF Stream!CloseStream, Stream!Removed
<1>5. ASSUME NEW p \in Peers, NEW s \in Streams, Stream!SendChunk(p, s) PROVE StreamIInv'
  BY <1>1, <1>5, ChunkStep DEF Stream!SendChunk
<1>6. ASSUME NEW s \in Streams, Stream!CleanupNext(s) PROVE StreamIInv'
  BY <1>1, <1>4, <1>6 DEF Stream!CleanupNext
<1>7. CASE Stream!Cleanup \/ Stream!Tick
  BY <1>1, <1>7 DEF Stream!Cleanup, Stream!Tick
<1>8. ASSUME NEW s \in Streams, Stream!LoopsEnd(s) PROVE StreamIInv'
  BY <1>1, <1>8 DEF Stream!LoopsEnd
<1>9. ASSUME NEW p \in Peers, NEW s \in Streams,
             Stream!ReceiveChunk(p, s) \/ Stream!ReceiveTimesOut(p)
      PROVE  StreamIInv'
  BY <1>1, <1>9 DEF Stream!ReceiveChunk, Stream!ReceiveTimesOut
<1>10. CASE UNCHANGED streamVars
  BY <1>1, <1>10 DEF streamVars
<1>11. ASSUME NEW p \in Peers, Stream!ReceiveTimesOut(p) PROVE StreamIInv'
  BY <1>1, <1>11 DEF Stream!ReceiveTimesOut
<1> QED
  BY <1>2, <1>3, <1>4, <1>5, <1>6, <1>7, <1>8, <1>9, <1>10, <1>11
  DEF Stream!Next, Stream!Cleans, Stream!CloseByCaller

-----------------------------------------------------------------------------
(* Start and stop, main.py, server.py and mcp/server.py.                     *)

(* The steps of the start and of the stop, counted.                          *)
LEMMA StartupCounted ==
    /\ DOMAIN Program!Startup = 1..Len(Program!Startup)
    /\ Len(Program!Startup) = IF program = "application" THEN 13 ELSE 7
<1>1. CASE program = "application"
  BY <1>1 DEF Program!Startup, Program!McpComponents
<1>2. CASE program # "application"
  BY <1>2 DEF Program!Startup, Program!McpComponents
<1> QED
  BY <1>1, <1>2

LEMMA StopsCounted == Len(Program!Stops) = IF program = "application" THEN 5 ELSE 6
  BY DEF Program!Stops, Program!ApplicationStops, Program!ServerStops

LEMMA StepsCounted ==
    /\ Len(Program!Startup) \in Nat /\ Len(Program!Stops) \in Nat
    /\ 0 < Len(Program!Stops) /\ Len(Program!Stops) <= Len(Program!Startup)
    /\ DOMAIN Program!Startup = 1..Len(Program!Startup)
  BY StartupCounted, StopsCounted

(* Who serves alone has no background work.                                  *)
ServerParts == {"telemetry", "mcp_telemetry", "vector", "auth", "policy", "llm", "registry"}

LEMMA ServerStarts ==
    program # "application" =>
        \A i \in DOMAIN Program!Startup : Program!Startup[i] \in ServerParts
<1> SUFFICES ASSUME program # "application", NEW i \in DOMAIN Program!Startup
             PROVE  Program!Startup[i] \in ServerParts
  OBVIOUS
<1>1. i \in 1..7
  BY StartupCounted
<1>2. \A k \in 1..7 : (<<"telemetry">> \o
        <<"mcp_telemetry", "vector", "auth", "policy", "llm", "registry">>)[k] \in ServerParts
  BY DEF ServerParts
<1> QED
  BY <1>1, <1>2 DEF Program!Startup, Program!McpComponents

LEMMA ApplicationStopsAre ==
    program = "application" =>
        /\ Program!Stops[1] = "background" /\ Program!Stops[2] = "performance"
        /\ Program!Stops[3] = "discovery" /\ Program!Stops[4] = "cache"
        /\ Program!Stops[5] = "versions"
  BY DEF Program!Stops, Program!ApplicationStops

LEMMA ServerStopsAre ==
    program # "application" =>
        /\ Program!Stops[1] = "registry" /\ Program!Stops[2] = "vector"
        /\ Program!Stops[3] = "auth" /\ Program!Stops[4] = "policy"
        /\ Program!Stops[5] = "mcp_telemetry" /\ Program!Stops[6] = "telemetry"
  BY DEF Program!Stops, Program!ServerStops

(* As long as no stop has raised, what the stops before have reached is down. *)
ProgramIInv ==
    /\ Program!TypeOK
    /\ program \in {"application", "server"} /\ complete \in BOOLEAN /\ clean \in BOOLEAN
    /\ phase \in {"stopping", "down"} => step <= Len(Program!Stops)
    /\ phase = "down" => step = Len(Program!Stops)
    /\ phase \in {"stopping", "down"} /\ clean =>
        \A k \in 1..step :
            Program!Reaches(Program!Stops[k]) => Program!Stops[k] \notin up

LEMMA ProgramInit == Program!Init => ProgramIInv
<1> SUFFICES ASSUME Program!Init PROVE ProgramIInv
  OBVIOUS
<1>1. /\ program \in {"application", "server"} /\ phase = "starting" /\ step = 0 /\ up = {}
      /\ complete = FALSE /\ clean = TRUE
  BY DEF Program!Init
<1>2. Program!TypeOK
  BY <1>1, StepsCounted DEF Program!TypeOK
<1> QED
  BY <1>1, <1>2 DEF ProgramIInv

LEMMA ProgramKept ==
    ASSUME ProgramIInv, Program!Next \/ UNCHANGED programVars
    PROVE  ProgramIInv'
<1>1. /\ step \in Nat /\ up \subseteq Program!ToSet(Program!Startup) /\ step <= Len(Program!Startup)
      /\ program \in {"application", "server"} /\ complete \in BOOLEAN /\ clean \in BOOLEAN
      /\ phase \in {"starting", "serving", "stopping", "down"}
  BY StepsCounted DEF ProgramIInv, Program!TypeOK
<1>2. program' = program
      => /\ Program!Stops' = Program!Stops /\ Program!Startup' = Program!Startup
         /\ Program!ToSet(Program!Startup)' = Program!ToSet(Program!Startup)
  BY DEF Program!Stops, Program!ApplicationStops, Program!ServerStops, Program!Startup,
         Program!McpComponents, Program!ToSet
<1>3. CASE Program!StartStep
  <2>1. /\ phase' = phase /\ phase = "starting" /\ program' = program /\ clean' = clean
        /\ step' = step + 1 /\ step' \in DOMAIN Program!Startup
        /\ up' \subseteq up \cup {Program!Startup[step']}
        /\ complete' = (complete \/ Program!Startup[step'] = "registry")
    BY <1>1, <1>3, StepsCounted DEF Program!StartStep
  <2>2. Program!Startup[step'] \in Program!ToSet(Program!Startup)
    BY <2>1 DEF Program!ToSet
  <2>3. complete' \in BOOLEAN
    BY <2>1
  <2> QED
    BY <1>1, <1>2, <2>1, <2>2, <2>3, StepsCounted DEF ProgramIInv, Program!TypeOK
<1>4. CASE Program!Serve \/ Program!StartFails \/ Program!Terminate
  <2>1. /\ program' = program /\ up' = up /\ complete' = complete /\ clean' = clean
        /\ phase' \in {"serving", "stopping"} /\ (phase' = "stopping" => step' = 0)
        /\ step' \in {0, step}
    BY <1>4 DEF Program!Serve, Program!StartFails, Program!Terminate
  <2> QED
    BY <1>1, <1>2, <2>1, StepsCounted DEF ProgramIInv, Program!TypeOK
<1>5. CASE Program!StopStep
  <2>1. /\ program' = program /\ complete' = complete /\ clean' = clean
        /\ phase = "stopping" /\ phase' = phase /\ step < Len(Program!Stops)
        /\ step' = step + 1 /\ up' \subseteq up
        /\ Program!Reaches(Program!Stops[step']) => Program!Stops[step'] \notin up'
    <3>1. \A x : Program!Down(x) = {x} \/ x \in Program!Down(x)
      BY DEF Program!Down
    <3> QED
      BY <1>5, <3>1 DEF Program!StopStep
  <2>2. \A x : Program!Reaches(x)' = Program!Reaches(x)
    BY <2>1 DEF Program!Reaches
  <2>3. ASSUME clean, NEW k \in 1..step', Program!Reaches(Program!Stops[k])
        PROVE  Program!Stops[k] \notin up'
    <3>1. CASE k \in 1..step
      BY <2>1, <2>3, <3>1 DEF ProgramIInv
    <3>2. CASE k = step'
      BY <2>1, <2>3, <3>2
    <3> QED
      BY <1>1, <2>1, <3>1, <3>2
  <2>4. clean' => \A k \in 1..step' :
                    Program!Reaches(Program!Stops[k])' => Program!Stops[k]' \notin up'
    BY <1>2, <2>1, <2>3 DEF Program!Reaches
  <2> QED
    BY <1>1, <1>2, <2>1, <2>4, StepsCounted DEF ProgramIInv, Program!TypeOK
<1>6. CASE Program!StopFails
  <2>1. /\ program' = program /\ complete' = complete /\ clean' = FALSE
        /\ phase = "stopping" /\ phase' = phase /\ up' = up
        /\ step' \in {Len(Program!Stops) - 1, Len(Program!Stops)}
    BY <1>6 DEF Program!StopFails
  <2>2. step' \in 0..Len(Program!Startup) /\ step' <= Len(Program!Stops)
    BY <2>1, StepsCounted
  <2>3. Program!TypeOK'
    BY <1>1, <1>2, <2>1, <2>2 DEF Program!TypeOK
  <2> QED
    BY <1>1, <1>2, <2>1, <2>2, <2>3 DEF ProgramIInv
<1>7. CASE Program!Exit
  <2>1. /\ program' = program /\ complete' = complete /\ clean' = clean /\ up' = up
        /\ phase = "stopping" /\ phase' = "down" /\ step' = step /\ step = Len(Program!Stops)
    BY <1>7 DEF Program!Exit
  <2>2. Program!TypeOK'
    BY <1>1, <1>2, <2>1, StepsCounted DEF Program!TypeOK
  <2>3. \A k \in 1..step : Program!Reaches(Program!Stops[k])' = Program!Reaches(Program!Stops[k])
    BY <1>2, <2>1 DEF Program!Reaches
  <2>4. clean => \A k \in 1..step :
                    Program!Reaches(Program!Stops[k])' => Program!Stops[k] \notin up
    BY <2>1, <2>3 DEF ProgramIInv
  <2> QED
    BY <1>1, <1>2, <2>1, <2>2, <2>4, StepsCounted DEF ProgramIInv
<1>8. CASE UNCHANGED programVars
  BY <1>2, <1>8 DEF programVars, ProgramIInv, Program!TypeOK, Program!Reaches
<1> QED
  BY <1>3, <1>4, <1>5, <1>6, <1>7, <1>8 DEF Program!Next

(* In the end all stops have been taken.                                     *)
LEMMA ProgramSound == ProgramIInv => Program!ShutdownIsComplete
<1> SUFFICES ASSUME ProgramIInv, phase = "down", clean
             PROVE  /\ up \cap {"background", "performance", "discovery"} = {}
                    /\ program = "application" /\ complete => "versions" \notin up
                    /\ program = "server" => "telemetry" \notin up
                    /\ program = "server" /\ complete => up \subseteq {"llm"}
  BY DEF Program!ShutdownIsComplete
<1>1. \A k \in 1..Len(Program!Stops) :
        Program!Reaches(Program!Stops[k]) => Program!Stops[k] \notin up
  BY DEF ProgramIInv
<1>2. CASE program = "application"
  <2>1. /\ "background" \notin up /\ "performance" \notin up /\ "discovery" \notin up
        /\ complete => "versions" \notin up
    BY <1>1, <1>2, StopsCounted, ApplicationStopsAre DEF Program!Reaches
  <2> QED
    BY <1>2, <2>1
<1>3. CASE program = "server"
  <2>1. up \subseteq {"telemetry", "mcp_telemetry", "vector", "auth", "policy", "llm", "registry"}
    BY <1>3, ServerStarts DEF ServerParts, ProgramIInv, Program!TypeOK, Program!ToSet
  <2>2. "telemetry" \notin up
    BY <1>1, <1>3, StopsCounted, ServerStopsAre DEF Program!Reaches
  <2>3. complete => /\ "registry" \notin up /\ "vector" \notin up /\ "auth" \notin up
                    /\ "policy" \notin up /\ "mcp_telemetry" \notin up
    BY <1>1, <1>3, StopsCounted, ServerStopsAre DEF Program!Reaches
  <2> QED
    BY <1>3, <2>1, <2>2, <2>3
<1> QED
  BY <1>2, <1>3 DEF ProgramIInv

-----------------------------------------------------------------------------
(* The session over stdio, mcp/server.py.                                    *)

Lines == [kind : Session!Kinds, id : Nat]
Answers == [id : Nat, outcome : {"result", "error"}]

SessionTypes ==
    /\ Session!TypeOK
    /\ counts \in BOOLEAN /\ running \in BOOLEAN /\ closed \in BOOLEAN
    /\ cause \in {"nothing", "stop", "line", "end_of_file", "interrupt", "cut"}
    /\ sent \in Seq(Lines) /\ Len(sent) <= MaxLines
    /\ answers \in Seq(Answers)
    /\ late \in Nat /\ posts \in 0..MaxPosts /\ read \in Nat

(* The lines that were answered are all that were read but for the one that  *)
(* ended the loop, or that an interrupt cut off.                             *)
Answered ==
    /\ Len(answers) = IF cause \in {"line", "cut"} THEN read - 1 ELSE read
    /\ \A i \in 1..Len(answers) :
        answers[i].id = sent[i].id /\ sent[i].kind # "no_object"
    /\ cause = "line" => read > 0 /\ sent[read].kind = "no_object"
    /\ cause = "cut" => read > 0

Ended ==
    /\ loop # "ended" => late = 0 /\ cause = "nothing"
    /\ late <= 1 /\ (late = 1 => cause = "stop")
    /\ cause = "end_of_file" => closed /\ read = Len(sent)

CallsRead == {i \in 1..read : sent[i].kind = "call"}
CallsBefore == {i \in 1..(read - 1) : sent[i].kind = "call"}
Recorded ==
    IF counts
      THEN \/ recorded = posts + Cardinality(CallsRead)
           \/ cause = "cut" /\ recorded = posts + Cardinality(CallsBefore)
      ELSE recorded = 0

SessionIInv == SessionTypes /\ Answered /\ Ended /\ Recorded

LEMMA SessionCount == \A S : Session!Cardinality(S) = Cardinality(S)
  BY DEF Cardinality, Session!Cardinality

LEMMA CallsCounted ==
    ASSUME SessionTypes
    PROVE  IsFiniteSet(CallsRead) /\ Cardinality(CallsRead) \in 0..read
<1>1. IsFiniteSet(1..read) /\ Cardinality(1..read) = read
  BY FS_Interval DEF SessionTypes
<1>2. IsFiniteSet(CallsRead) /\ Cardinality(CallsRead) <= Cardinality(1..read)
  BY <1>1, FS_Subset DEF CallsRead
<1> QED
  BY <1>1, <1>2, FS_CardinalityType DEF SessionTypes

LEMMA BeforeCounted ==
    ASSUME SessionTypes
    PROVE  Cardinality(CallsBefore) \in 0..read
<1>1. CallsBefore \subseteq CallsRead
  BY DEF CallsBefore, CallsRead, SessionTypes
<1>2. IsFiniteSet(CallsBefore) /\ Cardinality(CallsBefore) <= Cardinality(CallsRead)
  BY <1>1, CallsCounted, FS_Subset
<1> QED
  BY <1>2, CallsCounted, FS_CardinalityType DEF SessionTypes

LEMMA SessionInit == Session!Init => SessionIInv
<1> SUFFICES ASSUME Session!Init PROVE SessionIInv
  OBVIOUS
<1>1. /\ counts \in BOOLEAN /\ running = FALSE /\ loop = "off" /\ cause = "nothing"
      /\ sent = <<>> /\ closed = FALSE /\ read = 0 /\ answers = <<>> /\ late = 0
      /\ posts = 0 /\ recorded = 0
  BY DEF Session!Init
<1>2. sent \in Seq(Lines) /\ answers \in Seq(Answers) /\ Len(sent) = 0 /\ Len(answers) = 0
      /\ DOMAIN sent = {}
  BY <1>1
<1>3. 0 \in 0..(MaxLines + MaxPosts) /\ 0 <= MaxLines /\ 0 \in 0..MaxPosts
  BY SessionAssumption
<1>4. Session!TypeOK
  BY <1>1, <1>2, <1>3 DEF Session!TypeOK
<1>5. SessionTypes
  BY <1>1, <1>2, <1>3, <1>4 DEF SessionTypes
<1>6. CallsRead = {} /\ Cardinality(CallsRead) = 0
  BY <1>1, FS_EmptySet DEF CallsRead
<1> QED
  BY <1>1, <1>2, <1>5, <1>6 DEF SessionIInv, Answered, Ended, Recorded

(* Steps that neither read a line nor record a call: the client may write.   *)
LEMMA NothingRead ==
    ASSUME SessionIInv, SessionTypes', UNCHANGED <<counts, read, answers, posts, recorded>>,
           \A i \in 1..read : sent'[i] = sent[i],
           Ended', cause' = "line" <=> cause = "line", cause' = "cut" <=> cause = "cut"
    PROVE  SessionIInv'
<1>1. CallsRead' = CallsRead /\ CallsBefore' = CallsBefore
  BY DEF CallsRead, CallsBefore, SessionIInv, SessionTypes
<1>2. Recorded'
  BY <1>1 DEF SessionIInv, Recorded
<1>3. Answered'
  <2>1. \A i \in 1..Len(answers) : i \in 1..read
    BY DEF SessionIInv, Answered, SessionTypes
  <2>2. cause = "line" => read \in 1..read
    BY DEF SessionIInv, Answered, SessionTypes
  <2> QED
    BY <2>1, <2>2 DEF SessionIInv, Answered
<1> QED
  BY <1>2, <1>3 DEF SessionIInv

(* The client writes a line or closes its end.                               *)
LEMMA ClientStep ==
    ASSUME SessionIInv,
           \/ \E kind \in Session!Kinds, id \in 0..MaxLines : Session!ClientSends(kind, id)
           \/ Session!ClientCloses
    PROVE  SessionIInv'
<1>1. ASSUME NEW kind \in Session!Kinds, NEW id \in 0..MaxLines, Session!ClientSends(kind, id)
      PROVE  SessionIInv'
  <2>1. /\ ~closed /\ Len(sent) < MaxLines /\ id \in {0, Len(sent) + 1}
        /\ sent' = Append(sent, [kind |-> kind, id |-> id])
        /\ UNCHANGED <<counts, running, loop, cause, closed, read, answers, late, posts, recorded>>
    BY <1>1 DEF Session!ClientSends, Session!callVars
  <2>2. [kind |-> kind, id |-> id] \in Lines
    BY SessionAssumption DEF Lines
  <2>3. /\ sent \in Seq(Lines) /\ Len(sent) \in Nat /\ read <= Len(sent) /\ read \in Nat
        /\ sent' \in Seq(Lines) /\ Len(sent') = Len(sent) + 1
        /\ \A i \in 1..Len(sent) : sent'[i] = sent[i]
        /\ sent'[Len(sent) + 1] = [kind |-> kind, id |-> id]
    BY <2>1, <2>2 DEF SessionIInv, SessionTypes, Session!TypeOK
  <2>4. \A i \in DOMAIN sent' : sent'[i].kind \in Session!Kinds /\ sent'[i].id \in {0, i}
    <3>1. DOMAIN sent = 1..Len(sent) /\ DOMAIN sent' = 1..(Len(sent) + 1)
      BY <2>3
    <3>2. \A i \in 1..Len(sent) : sent'[i].kind \in Session!Kinds /\ sent'[i].id \in {0, i}
      BY <2>3, <3>1 DEF SessionIInv, SessionTypes, Session!TypeOK
    <3>3. /\ sent'[Len(sent) + 1].kind \in Session!Kinds
          /\ sent'[Len(sent) + 1].id \in {0, Len(sent) + 1}
      BY <2>1, <2>3
    <3> QED
      BY <2>3, <3>1, <3>2, <3>3
  <2>5. SessionTypes'
    BY <2>1, <2>3, <2>4, SessionAssumption DEF SessionIInv, SessionTypes, Session!TypeOK
  <2>6. Ended'
    BY <2>1 DEF SessionIInv, Ended
  <2> QED
    BY <2>1, <2>3, <2>5, <2>6, NothingRead
<1>2. CASE Session!ClientCloses
  <2>1. SessionTypes' /\ Ended'
    BY <1>2 DEF Session!ClientCloses, Session!callVars, SessionIInv, SessionTypes, Session!TypeOK, Ended
  <2> QED
    BY <1>2, <2>1, NothingRead DEF Session!ClientCloses, Session!callVars
<1> QED
  BY <1>1, <1>2

(* The loop starts, is told to stop, or ends without reading a line.         *)
LEMMA LoopStep ==
    ASSUME SessionIInv,
           Session!Start \/ Session!Stop \/ Session!Interrupt \/ Session!EndOfFile
    PROVE  SessionIInv'
<1>1. /\ UNCHANGED <<counts, sent, closed, read, answers, late, posts, recorded>>
      /\ running' \in BOOLEAN
      /\ loop' \in {"off", "reading", "ended"} /\ (running' => loop' = "reading")
      /\ cause' \in {"nothing", "stop", "end_of_file", "interrupt", cause}
  BY DEF Session!Start, Session!Stop, Session!Interrupt, Session!EndOfFile, Session!LoopEnds,
         Session!clientVars, Session!callVars, SessionIInv, SessionTypes, Session!TypeOK
<1>2. SessionTypes'
  BY <1>1 DEF SessionIInv, SessionTypes, Session!TypeOK
<1>3. Ended' /\ (cause' = "line" <=> cause = "line") /\ (cause' = "cut" <=> cause = "cut")
  BY DEF Session!Start, Session!Stop, Session!Interrupt, Session!EndOfFile, Session!LoopEnds,
         Session!clientVars, Session!callVars, SessionIInv, SessionTypes, Session!TypeOK, Ended
<1> QED
  BY <1>1, <1>2, <1>3, NothingRead

(* A line is read: the calls among the lines are those before, and it.       *)
LEMMA CallsGrow ==
    ASSUME SessionTypes, UNCHANGED sent, read' = read + 1
    PROVE  /\ sent[read + 1].kind # "call" => CallsRead' = CallsRead
           /\ sent[read + 1].kind = "call" =>
                Cardinality(CallsRead') = Cardinality(CallsRead) + 1
<1>1. \A i : i \in 1..(read + 1) <=> i \in 1..read \/ i = read + 1
  BY DEF SessionTypes
<1>2. ASSUME sent[read + 1].kind # "call" PROVE CallsRead' = CallsRead
  BY <1>1, <1>2 DEF CallsRead
<1>3. ASSUME sent[read + 1].kind = "call" PROVE CallsRead' = CallsRead \cup {read + 1}
  BY <1>1, <1>3 DEF CallsRead
<1>4. read + 1 \notin CallsRead
  BY DEF CallsRead, SessionTypes
<1> QED
  BY <1>2, <1>3, <1>4, CallsCounted, FS_AddElement

LEMMA LineStep ==
    ASSUME SessionIInv, Session!Line
    PROVE  SessionIInv'
<1> DEFINE line == sent[read + 1]
           a == [id |-> line.id, outcome |-> Session!Outcome(line.kind)]
<1>1. /\ loop = "reading" /\ read < Len(sent) /\ line.kind # "no_object"
      /\ read' = read + 1
      /\ answers' = answers \o <<a>>
      /\ UNCHANGED <<counts, running, sent, closed, posts>>
  BY DEF Session!Line, Session!Reply, Session!clientVars
<1>2. /\ late = 0 /\ cause = "nothing"
      /\ read \in Nat /\ Len(sent) \in Nat /\ sent \in Seq(Lines) /\ answers \in Seq(Answers)
      /\ Len(answers) = read
  BY <1>1 DEF SessionIInv, SessionTypes, Ended, Answered
<1>3. line \in Lines /\ read + 1 \in 1..Len(sent)
  BY <1>1, <1>2
<1>4. a \in Answers /\ a.id = line.id
  BY <1>3 DEF Lines, Answers, Session!Outcome
<1> HIDE DEF a
<1>5. /\ answers' \in Seq(Answers) /\ Len(answers') = read + 1
      /\ \A i \in 1..read : answers'[i] = answers[i]
      /\ answers'[read + 1] = a
  <2>1. answers' = Append(answers, a)
    BY <1>1, <1>2, <1>4, AppendIsConcat
  <2> QED
    BY <1>2, <1>4, <2>1
<1>6. /\ \/ running /\ late' = 0 /\ loop' = loop /\ cause' = cause
         \/ ~running /\ late' = late + 1 /\ loop' = "ended" /\ cause' = "stop"
      /\ recorded' = IF line.kind = "call" /\ counts THEN recorded + 1 ELSE recorded
  BY DEF Session!Line, Session!CallTool
<1>6a. posts \in Nat /\ counts \in BOOLEAN /\ SessionTypes
  BY SessionAssumption DEF SessionIInv, SessionTypes
<1>6b. Cardinality(CallsRead) \in Nat
  BY <1>2, <1>6a, CallsCounted
<1>6c. recorded = IF counts THEN posts + Cardinality(CallsRead) ELSE 0
  BY <1>2 DEF SessionIInv, Recorded
<1>6d. Cardinality(CallsRead') = IF line.kind = "call" THEN Cardinality(CallsRead) + 1
                                 ELSE Cardinality(CallsRead)
  BY <1>1, <1>6a, CallsGrow
<1> HIDE DEF line
<1>6e. recorded' = IF counts' THEN posts' + Cardinality(CallsRead') ELSE 0
  <2>1. CASE ~counts
    BY <1>1, <1>6, <1>6c, <2>1
  <2>2. CASE counts /\ line.kind = "call"
    BY <1>1, <1>6, <1>6a, <1>6b, <1>6c, <1>6d, <2>2
  <2>3. CASE counts /\ line.kind # "call"
    BY <1>1, <1>6, <1>6c, <1>6d, <2>3
  <2> QED
    BY <1>6a, <2>1, <2>2, <2>3
<1>7. Recorded'
  BY <1>6e DEF Recorded
<1> USE DEF line
<1>8. Answered'
  <2>1. cause' \notin {"line", "cut"}
    BY <1>2, <1>6
  <2>2. \A i \in 1..(read + 1) : answers'[i].id = sent[i].id /\ sent[i].kind # "no_object"
    BY <1>1, <1>2, <1>4, <1>5 DEF SessionIInv, Answered
  <2> QED
    BY <1>1, <1>5, <2>1, <2>2 DEF Answered
<1>9. Ended'
  BY <1>2, <1>6, <1>1 DEF SessionIInv, Ended, SessionTypes, Session!TypeOK
<1>10. SessionTypes'
  <2>1. SessionTypes /\ Session!TypeOK
    BY DEF SessionIInv, SessionTypes
  <2>2. recorded' \in 0..(MaxLines + MaxPosts)
    <3>1. /\ Cardinality(CallsRead') \in 0..read'
      <4>1. IsFiniteSet(1..read') /\ Cardinality(1..read') = read'
        BY <1>1, <1>2, FS_Interval
      <4>2. Cardinality(CallsRead') <= Cardinality(1..read') /\ IsFiniteSet(CallsRead')
        BY <4>1, FS_Subset DEF CallsRead
      <4> QED
        BY <1>1, <1>2, <4>1, <4>2, FS_CardinalityType
    <3>2. read' \in 0..MaxLines
      BY <1>1, <1>2, <2>1, SessionAssumption DEF SessionTypes
    <3>3. posts' \in 0..MaxPosts
      BY <1>1, <2>1 DEF SessionTypes
    <3> QED
      BY <1>6e, <3>1, <3>2, <3>3, SessionAssumption
  <2>3. late' \in Nat /\ loop' \in {"off", "reading", "ended"} /\ (running' => loop' = "reading")
        /\ cause' \in {"nothing", "stop"}
    BY <1>1, <1>2, <1>6
  <2> QED
    BY <1>1, <1>2, <1>5, <2>1, <2>2, <2>3 DEF SessionTypes, Session!TypeOK
<1> QED
  BY <1>7, <1>8, <1>9, <1>10 DEF SessionIInv

(* A line that is no object ends the loop.                                   *)
LEMMA LineEndsStep ==
    ASSUME SessionIInv, Session!LineEndsLoop
    PROVE  SessionIInv'
<1>1. /\ loop = "reading" /\ read < Len(sent) /\ sent[read + 1].kind = "no_object"
      /\ read' = read + 1 /\ running' = FALSE /\ loop' = "ended" /\ cause' = "line"
      /\ UNCHANGED <<counts, sent, closed, answers, late, posts, recorded>>
  BY DEF Session!LineEndsLoop, Session!LoopEnds, Session!clientVars, Session!callVars
<1>2. late = 0 /\ cause = "nothing" /\ read \in Nat /\ Len(sent) \in Nat
  BY <1>1 DEF SessionIInv, SessionTypes, Ended
<1>3. SessionTypes'
  <2>1. read' \in 0..Len(sent') /\ read' \in Nat
    BY <1>1, <1>2
  <2>2. Session!TypeOK'
    BY <1>1, <2>1 DEF SessionIInv, SessionTypes, Session!TypeOK
  <2> QED
    BY <1>1, <2>1, <2>2 DEF SessionIInv, SessionTypes
<1>4. Recorded'
  <2>1. CallsRead' = CallsRead
    BY <1>1, CallsGrow DEF SessionIInv
  <2>2. IF counts THEN recorded = posts + Cardinality(CallsRead) ELSE recorded = 0
    BY <1>2 DEF SessionIInv, Recorded
  <2>3. IF counts' THEN recorded' = posts' + Cardinality(CallsRead') ELSE recorded' = 0
    BY <1>1, <2>1, <2>2
  <2> QED
    BY <2>3 DEF Recorded
<1>5. Answered'
  BY <1>1, <1>2 DEF SessionIInv, Answered
<1>6. Ended'
  BY <1>1, <1>2 DEF SessionIInv, Ended
<1> QED
  BY <1>3, <1>4, <1>5, <1>6 DEF SessionIInv

(* A line that is cut off: its call has been recorded, or has not.           *)
LEMMA LineCutStep ==
    ASSUME SessionIInv, Session!LineCut
    PROVE  SessionIInv'
<1>1. /\ loop = "reading" /\ read < Len(sent)
      /\ read' = read + 1 /\ running' = FALSE /\ loop' = "ended" /\ cause' = "cut"
      /\ UNCHANGED <<counts, sent, closed, answers, late, posts>>
      /\ \/ recorded' = recorded
         \/ sent[read + 1].kind = "call" /\ recorded' = IF counts THEN recorded + 1 ELSE recorded
  BY DEF Session!LineCut, Session!LoopEnds, Session!CallTool, Session!clientVars
<1>2. late = 0 /\ cause = "nothing" /\ read \in Nat /\ Len(sent) \in Nat /\ read + 1 <= MaxLines
  BY <1>1, SessionAssumption DEF SessionIInv, SessionTypes, Ended
<1>3. CallsBefore' = CallsRead
  BY <1>1, <1>2 DEF CallsBefore, CallsRead
<1>4. Cardinality(CallsRead) \in 0..read
  BY CallsCounted DEF SessionIInv
<1>5. recorded = IF counts THEN posts + Cardinality(CallsRead) ELSE 0
  BY <1>2 DEF SessionIInv, Recorded
<1>6. Recorded'
  <2>1. SessionTypes /\ posts \in Nat
    BY SessionAssumption DEF SessionIInv, SessionTypes
  <2>2. CASE recorded' = recorded
    BY <1>1, <1>3, <1>5, <2>2 DEF Recorded
  <2>3. CASE recorded' # recorded
    <3>1. sent[read + 1].kind = "call" /\ counts /\ recorded' = recorded + 1
      BY <1>1, <2>3
    <3>2. Cardinality(CallsRead') = Cardinality(CallsRead) + 1
      BY <1>1, <2>1, <3>1, CallsGrow
    <3> QED
      BY <1>1, <1>4, <1>5, <2>1, <3>1, <3>2 DEF Recorded
  <2> QED
    BY <2>2, <2>3
<1>7. recorded' \in 0..(MaxLines + MaxPosts)
  BY <1>1, <1>2, <1>4, <1>5, SessionAssumption DEF SessionIInv, SessionTypes
<1>8. SessionTypes'
  <2>1. read' \in 0..Len(sent') /\ read' \in Nat
    BY <1>1, <1>2
  <2>2. Session!TypeOK'
    BY <1>1, <1>7, <2>1 DEF SessionIInv, SessionTypes, Session!TypeOK
  <2> QED
    BY <1>1, <2>1, <2>2 DEF SessionIInv, SessionTypes
<1>9. Answered' /\ Ended'
  BY <1>1, <1>2 DEF SessionIInv, Answered, Ended
<1> QED
  BY <1>6, <1>8, <1>9 DEF SessionIInv

(* A tool is executed over HTTP.                                             *)
LEMMA ExecuteStep ==
    ASSUME SessionIInv, Session!ExecuteTool
    PROVE  SessionIInv'
<1>1. /\ posts < MaxPosts /\ posts' = posts + 1
      /\ recorded' = IF counts THEN recorded + 1 ELSE recorded
      /\ UNCHANGED <<counts, running, loop, cause, sent, closed, read, answers, late>>
  BY DEF Session!ExecuteTool, Session!CallTool, Session!clientVars
<1>2. CallsRead' = CallsRead /\ CallsBefore' = CallsBefore
  BY <1>1 DEF CallsRead, CallsBefore
<1>2a. IsFiniteSet(CallsRead) /\ Cardinality(CallsRead) \in 0..read
      /\ Cardinality(CallsBefore) \in 0..read
  BY CallsCounted, BeforeCounted DEF SessionIInv
<1>3. Recorded'
  BY <1>1, <1>2, <1>2a, SessionAssumption DEF SessionIInv, SessionTypes, Recorded
<1>4. recorded' \in 0..(MaxLines + MaxPosts)
  BY <1>1, <1>2, <1>2a, <1>3, SessionAssumption
  DEF SessionIInv, SessionTypes, Session!TypeOK, Recorded
<1>5. SessionTypes'
  BY <1>1, <1>4, SessionAssumption DEF SessionIInv, SessionTypes, Session!TypeOK
<1>6. Answered' /\ Ended'
  BY <1>1 DEF SessionIInv, Answered, Ended
<1> QED
  BY <1>3, <1>5, <1>6 DEF SessionIInv

(* Every step of the session keeps its invariant.                            *)
LEMMA SessionKept ==
    ASSUME SessionIInv, Session!Next \/ UNCHANGED sessionVars
    PROVE  SessionIInv'
<1>1. CASE UNCHANGED sessionVars
  BY <1>1
  DEF sessionVars, SessionIInv, SessionTypes, Session!TypeOK, Answered, Ended, Recorded, CallsRead,
    CallsBefore
<1> QED
  BY <1>1, ClientStep, LoopStep, LineStep, LineEndsStep, LineCutStep, ExecuteStep
  DEF Session!Next, Session!Reads

(* Without a line that is no object among them, the k-th line is the k-th    *)
(* that is answered.                                                         *)
LEMMA SessionSound == SessionIInv => Session!SessionIsSound
<1> SUFFICES ASSUME SessionIInv PROVE Session!SessionIsSound
  OBVIOUS
<1> DEFINE m == Len(answers)
<1>1. m \in Nat /\ read \in Nat /\ read \in 0..Len(sent)
  BY DEF SessionIInv, SessionTypes, Session!TypeOK
<1>2. Session!Answerable = 1..m
  BY <1>1 DEF SessionIInv, Answered, Session!Answerable
<1> HIDE DEF m
<1>3. Cardinality(1..m) = m
  BY <1>1, FS_Interval
<1>4. ASSUME NEW i \in 1..m PROVE Session!Turn(i) = i
  <2>1. {j \in 1..m : j <= i} = 1..i
    BY <1>1
  <2>2. Cardinality(1..i) = i
    BY <1>1, FS_Interval
  <2> QED
    BY <1>2, <2>1, <2>2, SessionCount DEF Session!Turn
<1>5. Session!AnswersFollowLines
  BY <1>2, <1>3, <1>4, SessionCount DEF m, SessionIInv, Answered, Session!AnswersFollowLines
<1>6. Session!NothingLeftBehind
  BY DEF SessionIInv, Answered, Ended, Session!NothingLeftBehind
<1>7. Session!CallsAreRecorded
  <2>1. Session!Calls(read) = Cardinality(CallsRead)
    BY SessionCount DEF Session!Calls, CallsRead
  <2>2. Session!Calls(read - 1) = Cardinality(CallsBefore)
    BY SessionCount DEF Session!Calls, CallsBefore
  <2> QED
    BY <2>1, <2>2 DEF SessionIInv, Recorded, Session!CallsAreRecorded
<1> QED
  BY <1>5, <1>6, <1>7 DEF Session!SessionIsSound

-----------------------------------------------------------------------------
(* Transports, mcp/transport_plugins.py.                                     *)

PluginOf(n) ==
    [name : Transport!Builtins \cup {"custom"}, type : Transport!Types,
     priority : Priorities \cup {100}, enabled : BOOLEAN, link : 0..n]

(* The plugins and the table; the first places of the table are those of the *)
(* plugins that the manager brings, under their names.                       *)
Plugged ==
    /\ links \in 0..MaxLinks
    /\ plugins \in Seq(PluginOf(links)) /\ Len(plugins) <= MaxPlugins
    /\ table \in Seq(DOMAIN plugins)
    /\ Transport!LinksAreOwned
    /\ initialized \in BOOLEAN /\ (initialized => table # <<>>)
    /\ table # <<>> =>
        /\ Len(Builtin) <= Len(table)
        /\ \A i \in DOMAIN Builtin : plugins[table[i]].name = Builtin[i]

Call == [pc : {"none", "connecting", "closing"}, plugin : Nat, link : Nat, at : Nat, size : Nat]

(* Who waits knows a plugin; who walks is within the table.                  *)
Fits(c) ==
    /\ c \in Call
    /\ c.pc = "none" => c = Transport!Resting
    /\ c.pc # "none" => c.plugin \in DOMAIN plugins
    /\ c.pc = "connecting" => c.at = 0 /\ plugins[c.plugin].type # "stdio"
    /\ c.at > 0 => c.at <= c.size /\ c.size <= Len(table)

Calling == call \in [Users -> Call] /\ \A u \in Users : Fits(call[u])

Opened == open \subseteq 1..links /\ disturbed \in BOOLEAN /\ down \in BOOLEAN

(* What was given up has been opened, and is not counted as open.            *)
GivenUp == stuck \subseteq 1..links /\ stuck \cap open = {}

(* Undisturbed, who waits for a plugin of the table waits for it alone, and  *)
(* what is closed is what the plugin has; a shutdown is alone with all       *)
(* plugins, and has left none with a link behind.                            *)
Waiting(u) ==
    LET p == call[u].plugin
    IN  /\ \E i \in DOMAIN table : table[i] = p
        /\ \A v \in Users \ {u} :
            ~Transport!Idle(v) => call[v].plugin # p /\ ~Transport!Walking(v)
        /\ call[u].pc = "connecting" => plugins[p].link = 0 \/ plugins[p].type = "http"
        /\ call[u].pc = "closing" => call[u].link = plugins[p].link /\ plugins[p].type # "stdio"
        /\ Transport!Walking(u) =>
            /\ initialized /\ table[call[u].at] = p
            /\ \A j \in 1..(call[u].at - 1) : plugins[table[j]].link = 0

Held == open \subseteq {plugins[table[i]].link : i \in DOMAIN table}

Undisturbed ==
    /\ Held
    /\ \A u \in Users : ~Transport!Idle(u) => Waiting(u)
    /\ down => open = {} /\ \A u \in Users : call[u].pc # "connecting"

TransportIInv == Plugged /\ Calling /\ Opened /\ (~disturbed => Undisturbed)

(* A function on 1..n is a sequence.                                         *)
LEMMA FunctionIsSeq ==
    ASSUME NEW S, NEW n \in Nat, NEW f \in [1..n -> S]
    PROVE  f \in Seq(S) /\ Len(f) = n /\ DOMAIN f = 1..n
  OBVIOUS

LEMMA LeastExists ==
    ASSUME NEW S \in SUBSET Nat, S # {}
    PROVE  Transport!Min(S) \in S /\ \A n \in S : Transport!Min(S) <= n
<1>1. IsWellFoundedOn(OpToRel(<, Nat), Nat)
  BY NatLessThanWellFounded
<1>2. PICK m \in S : \A n \in S : ~ (<<n, m>> \in OpToRel(<, Nat))
  BY <1>1, WFMin
<1>3. ASSUME NEW n \in S PROVE ~(n < m)
  <2>1. <<n, m>> \notin OpToRel(<, Nat)
    BY <1>2
  <2>2. <<n, m>> \in {mn \in Nat \X Nat : mn[1] < mn[2]} <=> n < m
    OBVIOUS
  <2> QED
    BY <2>1, <2>2 DEF OpToRel
<1>4. \A n \in S : m <= n
  BY <1>3
<1> QED
  BY <1>4 DEF Transport!Min

(* The links of plugins.                                                     *)
LEMMA PluginDropped ==
    ASSUME NEW n \in Nat, NEW x \in PluginOf(n)
    PROVE  /\ Transport!Dropped(x) \in PluginOf(n)
           /\ Transport!Dropped(x).link = 0
           /\ Transport!Dropped(x).name = x.name /\ Transport!Dropped(x).type = x.type
  BY DEF PluginOf, Transport!Dropped

LEMMA PluginLinked ==
    ASSUME NEW n \in Nat, NEW m \in 0..n, NEW k \in 0..n, NEW x \in PluginOf(m)
    PROVE  /\ x \in PluginOf(n)
           /\ [x EXCEPT !.link = k] \in PluginOf(n)
           /\ [x EXCEPT !.link = k].link = k
           /\ [x EXCEPT !.link = k].name = x.name /\ [x EXCEPT !.link = k].type = x.type
<1>1. x.link \in 0..m
  BY DEF PluginOf
<1>2. x.link \in 0..n
  BY <1>1
<1>3. x \in PluginOf(n)
  BY <1>2 DEF PluginOf
<1> QED
  BY <1>3 DEF PluginOf

LEMMA PluginSwitched ==
    ASSUME NEW n, NEW x \in PluginOf(n)
    PROVE  /\ [x EXCEPT !.enabled = ~@] \in PluginOf(n)
           /\ [x EXCEPT !.enabled = ~@].link = x.link
           /\ [x EXCEPT !.enabled = ~@].name = x.name /\ [x EXCEPT !.enabled = ~@].type = x.type
<1>1. x.enabled \in BOOLEAN
  BY DEF PluginOf
<1>2. (~x.enabled) \in BOOLEAN
  BY <1>1
<1> QED
  BY <1>1, <1>2 DEF PluginOf

LEMMA PluginMade ==
    ASSUME NEW n \in Nat, NEW name \in Transport!Builtins \cup {"custom"},
           NEW type \in Transport!Types, NEW priority \in Priorities \cup {100}, NEW m \in Nat,
           type = "http" => n < m, n <= m
    PROVE  /\ Transport!Made(name, type, priority, n) \in PluginOf(m)
           /\ Transport!Made(name, type, priority, n).name = name
           /\ Transport!Made(name, type, priority, n).link = IF type = "http" THEN n + 1 ELSE 0
<1>1. (IF type = "http" THEN n + 1 ELSE 0) \in 0..m
  OBVIOUS
<1> QED
  BY <1>1 DEF PluginOf, Transport!Made, Transport!Plugin

-----------------------------------------------------------------------------
(* What steps on plugins keep.                                               *)

(* The plugins that are there keep their names and types.                    *)
PluginsStay ==
    /\ DOMAIN plugins \subseteq DOMAIN plugins' /\ Len(table) <= Len(table')
    /\ \A p \in DOMAIN plugins :
        plugins'[p].name = plugins[p].name /\ plugins'[p].type = plugins[p].type

LEMMA SamePlugins ==
    ASSUME Plugged, UNCHANGED <<plugins, table>>
    PROVE  PluginsStay
  BY DEF PluginsStay, Plugged

(* Another call of one user, or none.                                        *)
LEMMA StillFits ==
    ASSUME Plugged, PluginsStay, NEW c, Fits(c)
    PROVE  Fits(c)'
  BY DEF Fits, PluginsStay, Call, Plugged

LEMMA CallingKept ==
    ASSUME Plugged, Calling, PluginsStay, NEW u \in Users, NEW c, Fits(c)',
           call' = [call EXCEPT ![u] = c]
    PROVE  Calling'
<1>1. \A v \in Users : call'[v] = IF v = u THEN c ELSE call[v]
  BY DEF Calling
<1>2. call' \in [Users -> Call]
  BY DEF Calling, Fits
<1>3. ASSUME NEW v \in Users PROVE Fits(call[v])'
  <2>1. CASE v = u
    BY <1>1, <2>1
  <2>2. CASE v # u
    <3>1. call'[v] = call[v] /\ Fits(call[v])
      BY <1>1, <2>2 DEF Calling
    <3> DEFINE d == call[v]
    <3>2. PICK e : e = d
      OBVIOUS
    <3>3. Fits(e)'
      BY <3>1, <3>2, StillFits
    <3> QED
      BY <3>1, <3>2, <3>3
  <2> QED
    BY <2>1, <2>2
<1> QED
  BY <1>2, <1>3 DEF Calling

LEMMA CallsStay ==
    ASSUME Plugged, Calling, PluginsStay, UNCHANGED call
    PROVE  Calling'
<1>1. ASSUME NEW v \in Users PROVE Fits(call[v])'
  <2>1. PICK e : e = call[v]
    OBVIOUS
  <2>2. Fits(e)'
    BY <2>1, StillFits DEF Calling
  <2> QED
    BY <2>1, <2>2
<1> QED
  BY <1>1 DEF Calling

LEMMA RestingFits == Fits(Transport!Resting) /\ Fits(Transport!Resting)'
  BY DEF Fits, Call, Transport!Resting

(* Links are taken from plugins; a table that stays, and names that stay,    *)
(* are as good as they were.                                                 *)
LEMMA PluggedKept ==
    ASSUME Plugged, links' \in 0..MaxLinks,
           plugins' \in Seq(PluginOf(links')), Len(plugins') = Len(plugins),
           PluginsStay, UNCHANGED table,
           initialized' \in BOOLEAN, initialized' => initialized,
           \A p, q \in DOMAIN plugins :
             p # q /\ plugins'[p].link # 0 => plugins'[p].link # plugins'[q].link
    PROVE  Plugged'
<1>1. DOMAIN plugins' = DOMAIN plugins
  BY DEF Plugged
<1>2. table' \in Seq(DOMAIN plugins') /\ \A i \in DOMAIN table : table[i] \in DOMAIN plugins
  BY <1>1 DEF Plugged
<1>3. Transport!LinksAreOwned'
  BY <1>1, <1>2 DEF Plugged, Transport!LinksAreOwned, PluginsStay
<1>4. table' # <<>> =>
        /\ Len(Builtin) <= Len(table')
        /\ \A i \in DOMAIN Builtin : plugins'[table'[i]].name = Builtin[i]
  <2>1. SUFFICES ASSUME table # <<>>
                 PROVE  /\ Len(Builtin) <= Len(table)
                        /\ \A i \in DOMAIN Builtin : plugins'[table[i]].name = Builtin[i]
    OBVIOUS
  <2>2. ASSUME NEW i \in DOMAIN Builtin PROVE i \in DOMAIN table
    BY <2>1, TransportsAssumption DEF Plugged
  <2> QED
    BY <1>2, <2>1, <2>2 DEF Plugged, PluginsStay
<1> QED
  BY <1>1, <1>2, <1>3, <1>4 DEF Plugged

LEMMA DropKeeps ==
    ASSUME Plugged, NEW D, UNCHANGED <<table, links>>,
           initialized' \in BOOLEAN, initialized' => initialized,
           plugins' = [p \in DOMAIN plugins |->
                         IF p \in D THEN Transport!Dropped(plugins[p]) ELSE plugins[p]]
    PROVE  /\ Plugged' /\ PluginsStay
           /\ \A p \in DOMAIN plugins :
                plugins'[p].link = IF p \in D THEN 0 ELSE plugins[p].link
<1>1. links \in Nat /\ \A p \in DOMAIN plugins : plugins[p] \in PluginOf(links)
  BY TransportsAssumption DEF Plugged
<1>2. ASSUME NEW p \in DOMAIN plugins
      PROVE  /\ plugins'[p] \in PluginOf(links)
             /\ plugins'[p].link = IF p \in D THEN 0 ELSE plugins[p].link
             /\ plugins'[p].name = plugins[p].name /\ plugins'[p].type = plugins[p].type
  BY <1>1, PluginDropped
<1>3. plugins' \in [1..Len(plugins) -> PluginOf(links)] /\ Len(plugins) \in Nat
  BY <1>2 DEF Plugged
<1>4. plugins' \in Seq(PluginOf(links)) /\ Len(plugins') = Len(plugins)
  BY <1>3, FunctionIsSeq
<1>5. PluginsStay
  BY <1>2, <1>4 DEF PluginsStay, Plugged
<1>6. \A p, q \in DOMAIN plugins :
        p # q /\ plugins'[p].link # 0 => plugins'[p].link # plugins'[q].link
  BY <1>2 DEF Plugged, Transport!LinksAreOwned
<1>7. links' \in 0..MaxLinks
  BY DEF Plugged
<1> QED
  BY <1>2, <1>4, <1>5, <1>6, <1>7, PluggedKept

LEMMA SwitchKeeps ==
    ASSUME Plugged, NEW d \in DOMAIN plugins, UNCHANGED <<initialized, table, links>>,
           plugins' = [plugins EXCEPT ![d].enabled = ~@]
    PROVE  /\ Plugged' /\ PluginsStay
           /\ \A p \in DOMAIN plugins : plugins'[p].link = plugins[p].link
<1>1. links \in Nat /\ \A p \in DOMAIN plugins : plugins[p] \in PluginOf(links)
  BY TransportsAssumption DEF Plugged
<1> DEFINE x == [plugins[d] EXCEPT !.enabled = ~@]
<1>2. plugins' = [plugins EXCEPT ![d] = x]
  OBVIOUS
<1>3. /\ x \in PluginOf(links) /\ x.link = plugins[d].link
      /\ x.name = plugins[d].name /\ x.type = plugins[d].type
  BY <1>1, PluginSwitched
<1> HIDE DEF x
<1>4. plugins' \in Seq(PluginOf(links)) /\ Len(plugins') = Len(plugins)
  BY <1>2, <1>3 DEF Plugged
<1>5. \A p \in DOMAIN plugins :
        /\ plugins'[p].link = plugins[p].link
        /\ plugins'[p].name = plugins[p].name /\ plugins'[p].type = plugins[p].type
  BY <1>2, <1>3
<1>6. PluginsStay
  BY <1>4, <1>5 DEF PluginsStay, Plugged
<1>7. \A p, q \in DOMAIN plugins :
        p # q /\ plugins'[p].link # 0 => plugins'[p].link # plugins'[q].link
  BY <1>5 DEF Plugged, Transport!LinksAreOwned
<1>8. links' \in 0..MaxLinks /\ initialized' \in BOOLEAN
  BY DEF Plugged
<1> QED
  BY <1>4, <1>5, <1>6, <1>7, <1>8, PluggedKept

LEMMA LinkKeeps ==
    ASSUME Plugged, NEW d \in DOMAIN plugins, UNCHANGED <<initialized, table>>,
           Transport!Linked(d)
    PROVE  /\ Plugged' /\ PluginsStay
           /\ \A p \in DOMAIN plugins :
                plugins'[p].link = IF p = d THEN links + 1 ELSE plugins[p].link
<1>1. links \in Nat /\ \A p \in DOMAIN plugins : plugins[p] \in PluginOf(links)
  BY TransportsAssumption DEF Plugged
<1> DEFINE x == [plugins[d] EXCEPT !.link = links']
<1>2. plugins' = [plugins EXCEPT ![d] = x] /\ links' = links + 1 /\ links < MaxLinks
  BY DEF Transport!Linked
<1>3. \A p \in DOMAIN plugins : plugins[p] \in PluginOf(links')
  <2>1. PICK n \in Nat : n = links'
    BY <1>1, <1>2
  <2>2. links \in 0..n /\ 0 \in 0..n
    BY <1>1, <1>2, <2>1
  <2>3. ASSUME NEW p \in DOMAIN plugins PROVE plugins[p] \in PluginOf(n)
    <3>1. plugins[p] \in PluginOf(links)
      BY <1>1
    <3> QED
      BY <2>2, <3>1, PluginLinked
  <2> QED
    BY <2>1, <2>3
<1>4. /\ x \in PluginOf(links') /\ x.link = links'
      /\ x.name = plugins[d].name /\ x.type = plugins[d].type
  <2>1. PICK n \in Nat : n = links'
    BY <1>1, <1>2
  <2>2. links \in 0..n /\ n \in 0..n
    BY <1>1, <1>2, <2>1
  <2>3. PICK y \in PluginOf(links) : y = plugins[d]
    BY <1>1
  <2>4. /\ [y EXCEPT !.link = n] \in PluginOf(n) /\ [y EXCEPT !.link = n].link = n
        /\ [y EXCEPT !.link = n].name = y.name /\ [y EXCEPT !.link = n].type = y.type
    BY <2>2, PluginLinked
  <2> QED
    BY <2>1, <2>3, <2>4
<1> HIDE DEF x
<1>5. plugins' \in [1..Len(plugins) -> PluginOf(links')] /\ Len(plugins) \in Nat
  BY <1>2, <1>3, <1>4 DEF Plugged
<1>6. plugins' \in Seq(PluginOf(links')) /\ Len(plugins') = Len(plugins)
  BY <1>5, FunctionIsSeq
<1>7. \A p \in DOMAIN plugins :
        /\ plugins'[p].link = IF p = d THEN links + 1 ELSE plugins[p].link
        /\ plugins'[p].name = plugins[p].name /\ plugins'[p].type = plugins[p].type
  BY <1>2, <1>4
<1>8. PluginsStay
  BY <1>6, <1>7 DEF PluginsStay, Plugged
<1>9. \A p \in DOMAIN plugins : plugins[p].link \in 0..links
  BY <1>1 DEF PluginOf
<1>10. \A p, q \in DOMAIN plugins :
        p # q /\ plugins'[p].link # 0 => plugins'[p].link # plugins'[q].link
  <2> SUFFICES ASSUME NEW p \in DOMAIN plugins, NEW q \in DOMAIN plugins,
                      p # q, plugins'[p].link # 0
               PROVE  plugins'[p].link # plugins'[q].link
    OBVIOUS
  <2>1. plugins[p].link # 0 => plugins[p].link # plugins[q].link
    BY DEF Plugged, Transport!LinksAreOwned
  <2> QED
    BY <1>1, <1>7, <1>9, <2>1
<1>11. links' \in 0..MaxLinks /\ initialized' \in BOOLEAN
  BY <1>1, <1>2, TransportsAssumption DEF Plugged
<1> QED
  BY <1>6, <1>7, <1>8, <1>10, <1>11, PluggedKept

-----------------------------------------------------------------------------
(* Who waits.                                                                *)

(* Nobody walks beside one who waits.                                        *)
LEMMA NoWalker ==
    ASSUME Undisturbed, NEW u \in Users, ~Transport!Idle(u), NEW v \in Users \ {u},
           ~Transport!Idle(v)
    PROVE  /\ ~Transport!Walking(u) /\ ~Transport!Walking(v)
           /\ call[u].plugin # call[v].plugin
<1>1. Waiting(u) /\ Waiting(v) /\ u \in Users \ {v}
  BY DEF Undisturbed
<1> QED
  BY <1>1 DEF Waiting

(* Who does not walk goes on waiting, if nobody comes to its plugin.         *)
LEMMA WaitingKept ==
    ASSUME Plugged, Calling, PluginsStay,
           NEW v \in Users, ~Transport!Idle(v), Waiting(v), ~Transport!Walking(v),
           call'[v] = call[v],
           plugins'[call[v].plugin].link = plugins[call[v].plugin].link,
           \E i \in DOMAIN table' : table'[i] = call[v].plugin,
           \A w \in Users \ {v} :
             \/ call'[w] = call[w]
             \/ call'[w].pc = "none"
             \/ call'[w].plugin # call[v].plugin /\ ~(call'[w].at > 0)
    PROVE  Waiting(v)'
<1>1. call[v].plugin \in DOMAIN plugins
  BY DEF Calling, Fits, Transport!Idle
<1>2. plugins'[call[v].plugin].type = plugins[call[v].plugin].type
  BY <1>1 DEF PluginsStay
<1>3. \A w \in Users \ {v} :
        ~Transport!Idle(w)' => call'[w].plugin # call'[v].plugin /\ ~Transport!Walking(w)'
  BY DEF Waiting, Transport!Idle, Transport!Walking
<1> QED
  BY <1>2, <1>3 DEF Waiting, Transport!Idle, Transport!Walking

(* Everybody goes on waiting while the plugins keep their links and places.  *)
LEMMA AllWaitOn ==
    ASSUME Plugged, Calling, PluginsStay, UNCHANGED call, initialized => initialized',
           \A p \in DOMAIN plugins : plugins'[p].link = plugins[p].link,
           \A i \in DOMAIN table : table'[i] = table[i], table' \in Seq(Nat),
           NEW v \in Users, ~Transport!Idle(v), Waiting(v)
    PROVE  Waiting(v)'
<1> DEFINE p == call[v].plugin
<1>1. p \in DOMAIN plugins
  BY DEF Calling, Fits, Transport!Idle
<1>2. plugins'[p].type = plugins[p].type /\ plugins'[p].link = plugins[p].link
  BY <1>1 DEF PluginsStay
<1>3. DOMAIN table \subseteq DOMAIN table'
  BY DEF PluginsStay, Plugged
<1>4. \E i \in DOMAIN table' : table'[i] = p
  BY <1>3 DEF Waiting
<1>5. \A w \in Users \ {v} :
        ~Transport!Idle(w)' => call'[w].plugin # p /\ ~Transport!Walking(w)'
  BY DEF Waiting, Transport!Idle, Transport!Walking
<1>6. Transport!Walking(v) =>
        /\ initialized' /\ table'[call[v].at] = p
        /\ \A j \in 1..(call[v].at - 1) : plugins'[table'[j]].link = 0
  <2> SUFFICES ASSUME Transport!Walking(v)
               PROVE  /\ initialized' /\ table'[call[v].at] = p
                      /\ \A j \in 1..(call[v].at - 1) : plugins'[table'[j]].link = 0
    OBVIOUS
  <2>1. call[v].at \in 1..Len(table) /\ Len(table) \in Nat
    BY DEF Calling, Fits, Call, Transport!Walking, Plugged
  <2>2. ASSUME NEW j \in 1..(call[v].at - 1) PROVE plugins'[table'[j]].link = 0
    <3>1. j \in DOMAIN table
      BY <2>1 DEF Plugged
    <3>2. plugins[table[j]].link = 0
      BY DEF Waiting
    <3>3. table[j] \in DOMAIN plugins
      BY <3>1 DEF Plugged
    <3> QED
      BY <3>1, <3>2, <3>3
  <2>3. call[v].at \in DOMAIN table
    BY <2>1 DEF Plugged
  <2> QED
    BY <2>2, <2>3 DEF Waiting
<1> QED
  BY <1>2, <1>4, <1>5, <1>6 DEF Waiting, Transport!Idle, Transport!Walking

(* What is open is held, when what dropped plugins held is closed.           *)
LEMMA DropHolds ==
    ASSUME Plugged, Held, NEW D, UNCHANGED table,
           \A p \in DOMAIN plugins :
             plugins'[p].link = IF p \in D THEN 0 ELSE plugins[p].link,
           open' \subseteq open,
           \A p \in D \cap DOMAIN plugins : plugins[p].link \notin open'
    PROVE  Held'
<1>1. ASSUME NEW l \in open' PROVE \E i \in DOMAIN table' : plugins'[table'[i]].link = l
  <2>1. PICK i \in DOMAIN table : plugins[table[i]].link = l
    BY DEF Held
  <2>2. table[i] \in DOMAIN plugins
    BY DEF Plugged
  <2> QED
    BY <2>1, <2>2
<1> QED
  BY <1>1 DEF Held

(* The selected plugin is of its type, and in the table.                     *)
LEMMA SelectedThere ==
    ASSUME Plugged, NEW type, Transport!Best(type) # {}
    PROVE  /\ \E i \in DOMAIN table : table[i] = Transport!Selected(type)
           /\ Transport!Selected(type) \in DOMAIN plugins
           /\ plugins[Transport!Selected(type)].type = type
<1>1. Transport!Best(type) \subseteq DOMAIN table /\ DOMAIN table \subseteq Nat
  BY DEF Transport!Best, Transport!Candidates, Plugged
<1>2. Transport!Min(Transport!Best(type)) \in Transport!Best(type)
  BY <1>1, LeastExists
<1>3. PICK k \in DOMAIN table : k = Transport!Min(Transport!Best(type)) /\ k \in Transport!Best(type)
  BY <1>1, <1>2
<1>4. Transport!Selected(type) = table[k]
  BY <1>3 DEF Transport!Selected
<1>5. table[k] \in DOMAIN plugins
  BY DEF Plugged
<1>6. plugins[table[k]].type = type
  BY <1>3 DEF Transport!Best, Transport!Candidates
<1> QED
  BY <1>4, <1>5, <1>6

-----------------------------------------------------------------------------
(* The steps, one by one.                                                    *)

LEMMA SwitchStep ==
    ASSUME TransportIInv, NEW i \in DOMAIN table, Transport!Switch(i)
    PROVE  TransportIInv'
<1> USE DEF TransportIInv
<1>1. /\ UNCHANGED <<initialized, table, call, links, open, disturbed, down>>
      /\ plugins' = [plugins EXCEPT ![table[i]].enabled = ~@]
  BY DEF Transport!Switch
<1>2. table[i] \in DOMAIN plugins
  BY DEF Plugged
<1>3. /\ Plugged' /\ PluginsStay
      /\ \A p \in DOMAIN plugins : plugins'[p].link = plugins[p].link
  BY <1>1, <1>2, SwitchKeeps
<1>4. Calling' /\ Opened'
  BY <1>1, <1>3, CallsStay DEF Opened
<1>5. ASSUME ~disturbed' PROVE Undisturbed'
  <2>1. Undisturbed
    BY <1>1, <1>5
  <2>2. Held'
    <3>1. \A p \in DOMAIN plugins : plugins'[p].link = IF p \in {} THEN 0 ELSE plugins[p].link
      BY <1>3
    <3> QED
      BY <1>1, <2>1, <3>1, DropHolds DEF Undisturbed
  <2>3. table' \in Seq(Nat)
    BY <1>1 DEF Plugged
  <2>4. ASSUME NEW v \in Users, ~Transport!Idle(v)' PROVE Waiting(v)'
    <3>1. ~Transport!Idle(v) /\ Waiting(v)
      BY <1>1, <2>1, <2>4 DEF Undisturbed, Transport!Idle
    <3> QED
      BY <1>1, <1>3, <2>3, <3>1, AllWaitOn
  <2> QED
    BY <1>1, <2>1, <2>2, <2>4 DEF Undisturbed
<1> QED
  BY <1>3, <1>4, <1>5

LEMMA PeerStep ==
    ASSUME TransportIInv, NEW q \in DOMAIN plugins, Transport!PeerCloses(q)
    PROVE  TransportIInv'
<1> USE DEF TransportIInv
<1>1. /\ UNCHANGED <<initialized, plugins, table, call, links, disturbed, down>>
      /\ open' \subseteq open
  BY DEF Transport!PeerCloses
<1>2. Plugged' /\ PluginsStay
  BY <1>1, SamePlugins DEF Plugged, Transport!LinksAreOwned
<1>3. Calling' /\ Opened'
  BY <1>1, <1>2, CallsStay DEF Opened
<1>4. ASSUME ~disturbed' PROVE Undisturbed'
  <2>1. Undisturbed
    BY <1>1, <1>4
  <2>2. Held'
    BY <1>1, <2>1 DEF Undisturbed, Held
  <2>3. ASSUME NEW v \in Users, ~Transport!Idle(v)' PROVE Waiting(v)'
    BY <1>1, <2>1, <2>3 DEF Undisturbed, Transport!Idle, Waiting, Transport!Walking
  <2> QED
    BY <1>1, <2>1, <2>2, <2>3 DEF Undisturbed
<1> QED
  BY <1>2, <1>3, <1>4

(* A plugin of the table that nobody waits for.                              *)
LEMMA FreePlugin ==
    ASSUME Undisturbed, NEW u \in Users, NEW p, ~Transport!Busy(u, p),
           NEW v \in Users \ {u}, ~Transport!Idle(v)
    PROVE  Waiting(v) /\ call[v].plugin # p /\ ~Transport!Walking(v)
  BY DEF Undisturbed, Transport!Busy

(* The calls of who begins to wait.                                          *)
LEMMA ConnectingCall ==
    ASSUME NEW p \in Nat
    PROVE  LET c == [Transport!Resting EXCEPT !.pc = "connecting", !.plugin = p]
           IN  c \in Call /\ c.pc = "connecting" /\ c.plugin = p /\ c.link = 0 /\ c.at = 0
  BY DEF Call, Transport!Resting

LEMMA ConnectBeginsStep ==
    ASSUME TransportIInv, NEW u \in Users, NEW type, Transport!ConnectBegins(u, type)
    PROVE  TransportIInv'
<1> USE DEF TransportIInv
<1>0. PICK p : p = Transport!Selected(type)
  OBVIOUS
<1>1. /\ UNCHANGED <<initialized, plugins, table, links, open>>
      /\ Transport!Idle(u) /\ Transport!Best(type) # {} /\ type # "stdio"
      /\ call' = [call EXCEPT ![u] = [Transport!Resting EXCEPT !.pc = "connecting",
                                                                !.plugin = p]]
      /\ disturbed' = (disturbed \/ ~Transport!Proper(u, p)) /\ ~down'
  BY <1>0 DEF Transport!ConnectBegins
<1>2. /\ \E i \in DOMAIN table : table[i] = p
      /\ p \in DOMAIN plugins /\ plugins[p].type # "stdio"
  BY <1>0, <1>1, SelectedThere
<1>4. p \in Nat
  BY <1>2 DEF Plugged
<1>5. PICK c : c = [Transport!Resting EXCEPT !.pc = "connecting", !.plugin = p]
  OBVIOUS
<1>6. /\ c \in Call /\ c.pc = "connecting" /\ c.plugin = p /\ ~(c.at > 0) /\ c.at = 0
      /\ call' = [call EXCEPT ![u] = c]
  <2>1. c \in Call /\ c.pc = "connecting" /\ c.plugin = p /\ c.at = 0
    BY <1>4, <1>5, ConnectingCall
  <2> QED
    BY <1>1, <1>5, <2>1
<1>7. Plugged' /\ PluginsStay
  BY <1>1, SamePlugins DEF Plugged, Transport!LinksAreOwned
<1>8. Fits(c)'
  BY <1>1, <1>2, <1>6 DEF Fits
<1>9. Calling'
  BY <1>6, <1>7, <1>8, CallingKept
<1>10. disturbed' \in BOOLEAN /\ down' \in BOOLEAN
  <2>1. down' = FALSE
    BY DEF Transport!ConnectBegins
  <2> QED
    BY <1>1, <2>1
<1>11. Opened'
  BY <1>1, <1>10 DEF Opened
<1>12. ASSUME ~disturbed' PROVE Undisturbed'
  <2>1. Undisturbed /\ Transport!Proper(u, p)
    BY <1>1, <1>12
  <2>2. ~Transport!Busy(u, p) /\ (plugins[p].link = 0 \/ plugins[p].type = "http")
    BY <2>1 DEF Transport!Proper
  <2>3. Held'
    BY <1>1, <2>1 DEF Undisturbed, Held
  <2>4. call'[u] = c /\ \A v \in Users \ {u} : call'[v] = call[v]
    BY <1>6 DEF Calling
  <2>5. Waiting(u)'
    <3>1. \A v \in Users \ {u} :
            ~Transport!Idle(v)' => call'[v].plugin # p /\ ~Transport!Walking(v)'
      BY <2>1, <2>2, <2>4, FreePlugin DEF Transport!Idle, Transport!Walking
    <3>2. ~Transport!Walking(u)'
      BY <1>6, <2>4 DEF Transport!Walking
    <3>3. \E i \in DOMAIN table' : table'[i] = p
      BY <1>1, <1>2
    <3>4. plugins'[p].link = 0 \/ plugins'[p].type = "http"
      BY <1>1, <2>2
    <3> QED
      BY <1>6, <2>4, <3>1, <3>2, <3>3, <3>4 DEF Waiting
  <2>6. ASSUME NEW v \in Users \ {u}, ~Transport!Idle(v)' PROVE Waiting(v)'
    <3>1. ~Transport!Idle(v) /\ call'[v] = call[v]
      BY <2>4, <2>6 DEF Transport!Idle
    <3>2. Waiting(v) /\ call[v].plugin # p /\ ~Transport!Walking(v)
      BY <2>1, <2>2, <3>1, FreePlugin
    <3>3. \A w \in Users \ {v} :
            \/ call'[w] = call[w]
            \/ call'[w].plugin # call[v].plugin /\ ~(call'[w].at > 0)
      <4>1. call'[u].plugin # call[v].plugin /\ ~(call'[u].at > 0)
        BY <1>6, <2>4, <3>2
      <4> QED
        BY <2>4, <4>1
    <3>4. \E i \in DOMAIN table' : table'[i] = call[v].plugin
      BY <1>1, <3>2 DEF Waiting
    <3> QED
      BY <1>1, <1>7, <3>1, <3>2, <3>3, <3>4, WaitingKept
  <2> QED
    BY <1>1, <2>3, <2>5, <2>6 DEF Undisturbed
<1> QED
  BY <1>7, <1>9, <1>11, <1>12

(* A step of one user on one plugin, which others do not wait for.           *)
LEMMA OthersWait ==
    ASSUME Plugged, Calling, PluginsStay, UNCHANGED table,
           NEW u \in Users, NEW p, NEW v \in Users \ {u},
           ~Transport!Idle(v), Waiting(v), ~Transport!Walking(v), call[v].plugin # p,
           \A q \in DOMAIN plugins : q # p => plugins'[q].link = plugins[q].link,
           \A w \in Users \ {u} : call'[w] = call[w],
           \/ call'[u] = call[u]
           \/ call'[u].pc = "none"
           \/ call'[u].plugin = p /\ ~(call'[u].at > 0)
    PROVE  Waiting(v)'
<1>1. call[v].plugin \in DOMAIN plugins
  BY DEF Calling, Fits, Transport!Idle
<1>2. plugins'[call[v].plugin].link = plugins[call[v].plugin].link
  BY <1>1
<1>3. \E i \in DOMAIN table' : table'[i] = call[v].plugin
  BY DEF Waiting
<1>4. \A w \in Users \ {v} :
        \/ call'[w] = call[w]
        \/ call'[w].pc = "none"
        \/ call'[w].plugin # call[v].plugin /\ ~(call'[w].at > 0)
  OBVIOUS
<1> QED
  BY <1>2, <1>3, <1>4, WaitingKept

(* Who has waited rests.                                                     *)
LEMMA UserRests ==
    ASSUME Plugged, Calling, PluginsStay, UNCHANGED table, Undisturbed,
           NEW u \in Users, ~Transport!Idle(u),
           call' = [call EXCEPT ![u] = Transport!Resting],
           \A q \in DOMAIN plugins :
             q # call[u].plugin => plugins'[q].link = plugins[q].link
    PROVE  /\ Calling'
           /\ \A v \in Users : ~Transport!Idle(v)' => Waiting(v)'
           /\ \A v \in Users : call'[v].pc = "connecting" => call[v].pc = "connecting"
<1>1. call'[u] = Transport!Resting /\ \A w \in Users \ {u} : call'[w] = call[w]
  BY DEF Calling
<1>2. call'[u].pc = "none"
  BY <1>1 DEF Transport!Resting
<1>3. ASSUME NEW v \in Users, ~Transport!Idle(v)' PROVE Waiting(v)'
  <2>1. v # u
    BY <1>2, <1>3 DEF Transport!Idle
  <2>2. ~Transport!Idle(v) /\ v \in Users \ {u}
    BY <1>1, <1>3, <2>1 DEF Transport!Idle
  <2>3. ~Transport!Walking(v) /\ call[v].plugin # call[u].plugin
    BY <2>2, NoWalker
  <2>4. Waiting(v)
    BY <2>2 DEF Undisturbed
  <2> QED
    BY <1>1, <1>2, <2>2, <2>3, <2>4, OthersWait
<1>4. PICK c : c = Transport!Resting
  OBVIOUS
<1>5. Fits(c)' /\ call' = [call EXCEPT ![u] = c]
  BY <1>4, RestingFits
<1>6. Calling'
  BY <1>5, CallingKept
<1> QED
  BY <1>1, <1>2, <1>3, <1>6

LEMMA RestKept ==
    ASSUME Plugged, Calling, PluginsStay, NEW u \in Users,
           call' = [call EXCEPT ![u] = Transport!Resting]
    PROVE  Calling'
<1>1. PICK c : c = Transport!Resting
  OBVIOUS
<1>2. Fits(c)' /\ call' = [call EXCEPT ![u] = c]
  BY <1>1, RestingFits
<1> QED
  BY <1>2, CallingKept

LEMMA ConnectFailsStep ==
    ASSUME TransportIInv, NEW u \in Users, call[u].pc = "connecting",
           call' = [call EXCEPT ![u] = Transport!Resting],
           UNCHANGED <<initialized, plugins, table, links, open, disturbed, down>>
    PROVE  TransportIInv'
<1> USE DEF TransportIInv
<1>1. Plugged' /\ PluginsStay
  BY SamePlugins DEF Plugged, Transport!LinksAreOwned
<1>2. Calling' /\ Opened'
  BY <1>1, RestKept DEF Opened
<1>3. ASSUME ~disturbed' PROVE Undisturbed'
  <2>1. Undisturbed /\ ~Transport!Idle(u)
    BY <1>3 DEF Transport!Idle
  <2>2. Held'
    BY <2>1 DEF Undisturbed, Held
  <2>3. /\ \A v \in Users : ~Transport!Idle(v)' => Waiting(v)'
        /\ \A v \in Users : call'[v].pc = "connecting" => call[v].pc = "connecting"
    BY <1>1, <2>1, UserRests
  <2> QED
    BY <2>1, <2>2, <2>3 DEF Undisturbed
<1> QED
  BY <1>1, <1>2, <1>3

LEMMA OneMore ==
    ASSUME Opened, NEW n \in Nat, n = links
    PROVE  open \cup {n + 1} \subseteq 1..(n + 1)
  BY DEF Opened

(* A plugin without a link gets one; what is open stays held.                *)
LEMMA LinkHolds ==
    ASSUME Plugged, Held, Opened, NEW p, plugins[p].link = 0,
           \E i \in DOMAIN table : table[i] = p, UNCHANGED table,
           \A q \in DOMAIN plugins :
             plugins'[q].link = IF q = p THEN links + 1 ELSE plugins[q].link,
           open' = open \cup {links + 1}
    PROVE  Held'
<1>1. links \in Nat /\ 0 \notin open
  BY TransportsAssumption DEF Plugged, Opened
<1>2. ASSUME NEW l \in open' PROVE \E i \in DOMAIN table : plugins'[table[i]].link = l
  <2>1. CASE l = links + 1
    BY <2>1 DEF Plugged
  <2>2. CASE l \in open
    <3>1. PICK i \in DOMAIN table : plugins[table[i]].link = l
      BY <2>2 DEF Held
    <3>2. table[i] \in DOMAIN plugins /\ table[i] # p
      BY <1>1, <2>2, <3>1 DEF Plugged
    <3> QED
      BY <3>1, <3>2
  <2> QED
    BY <2>1, <2>2
<1> QED
  BY <1>2 DEF Held

LEMMA WebsocketStep ==
    ASSUME TransportIInv, NEW u \in Users, call[u].pc = "connecting",
           plugins[call[u].plugin].type = "websocket", Transport!Linked(call[u].plugin),
           call' = [call EXCEPT ![u] = Transport!Resting],
           UNCHANGED <<initialized, table, disturbed, down>>
    PROVE  TransportIInv'
<1> USE DEF TransportIInv
<1>1. ~Transport!Idle(u)
  BY DEF Transport!Idle
<1>2. PICK p \in DOMAIN plugins : p = call[u].plugin
  BY <1>1 DEF Calling, Fits, Transport!Idle
<1>3. /\ Plugged' /\ PluginsStay
      /\ \A q \in DOMAIN plugins :
           plugins'[q].link = IF q = p THEN links + 1 ELSE plugins[q].link
  BY <1>2, LinkKeeps
<1>4. links' = links + 1 /\ open' = open \cup {links + 1} /\ links \in Nat
  BY TransportsAssumption DEF Transport!Linked, Plugged
<1>5. Calling' /\ Opened'
  <2>1. Calling'
    BY <1>3, RestKept
  <2>2. open' \subseteq 1..links'
    BY <1>4, OneMore
  <2> QED
    BY <2>1, <2>2 DEF Opened
<1>6. ASSUME ~disturbed' PROVE Undisturbed'
  <2>1. Undisturbed
    BY <1>6
  <2>2. Waiting(u) /\ ~down
    BY <1>1, <2>1 DEF Undisturbed
  <2>3. plugins[p].link = 0 /\ \E i \in DOMAIN table : table[i] = p
    BY <1>2, <2>2 DEF Waiting
  <2>4. Held'
    BY <1>3, <1>4, <2>1, <2>3, LinkHolds DEF Undisturbed
  <2>5. \A v \in Users : ~Transport!Idle(v)' => Waiting(v)'
    BY <1>1, <1>2, <1>3, <2>1, UserRests
  <2> QED
    BY <2>2, <2>4, <2>5 DEF Undisturbed
<1> QED
  BY <1>3, <1>5, <1>6

LEMMA ConnectStdioStep ==
    ASSUME TransportIInv, NEW u \in Users, Transport!ConnectStdio(u)
    PROVE  TransportIInv'
<1> USE DEF TransportIInv
<1>1. PICK p : p = Transport!Selected("stdio")
  OBVIOUS
<1>2. /\ UNCHANGED <<initialized, table, call>>
      /\ Transport!Idle(u) /\ Transport!Best("stdio") # {} /\ Transport!Linked(p)
      /\ disturbed' = (disturbed \/ ~Transport!Proper(u, p)) /\ down' = FALSE
  BY <1>1 DEF Transport!ConnectStdio
<1>3. /\ p \in DOMAIN plugins /\ \E i \in DOMAIN table : table[i] = p
      /\ plugins[p].type = "stdio"
  BY <1>1, <1>2, SelectedThere
<1>4. /\ Plugged' /\ PluginsStay
      /\ \A q \in DOMAIN plugins :
           plugins'[q].link = IF q = p THEN links + 1 ELSE plugins[q].link
  BY <1>2, <1>3, LinkKeeps
<1>5. links' = links + 1 /\ open' = open \cup {links + 1} /\ links \in Nat
  BY <1>2, TransportsAssumption DEF Transport!Linked, Plugged
<1>6. Calling'
  BY <1>2, <1>4, CallsStay
<1>7. Opened'
  <2>1. open' \subseteq 1..links'
    BY <1>5, OneMore
  <2>2. disturbed' \in BOOLEAN
    BY <1>2 DEF Opened
  <2> QED
    BY <1>2, <2>1, <2>2 DEF Opened
<1>8. ASSUME ~disturbed' PROVE Undisturbed'
  <2>1. Undisturbed /\ Transport!Proper(u, p)
    BY <1>2, <1>8
  <2>2. ~Transport!Busy(u, p) /\ plugins[p].link = 0
    BY <1>3, <2>1 DEF Transport!Proper
  <2>3. Held'
    BY <1>2, <1>3, <1>4, <1>5, <2>1, <2>2, LinkHolds DEF Undisturbed
  <2>4. ASSUME NEW v \in Users, ~Transport!Idle(v)' PROVE Waiting(v)'
    <3>1. v \in Users \ {u} /\ ~Transport!Idle(v)
      BY <1>2, <2>4 DEF Transport!Idle
    <3>2. Waiting(v) /\ call[v].plugin # p /\ ~Transport!Walking(v)
      BY <2>1, <2>2, <3>1, FreePlugin
    <3> QED
      BY <1>2, <1>4, <3>1, <3>2, OthersWait
  <2> QED
    BY <1>2, <2>3, <2>4 DEF Undisturbed
<1> QED
  BY <1>4, <1>6, <1>7, <1>8

LEMMA DisconnectStep ==
    ASSUME TransportIInv, NEW u \in Users, NEW i \in DOMAIN table, Transport!Disconnect(u, i)
    PROVE  TransportIInv'
<1> USE DEF TransportIInv
<1>1. PICK p \in DOMAIN plugins : p = table[i]
  BY DEF Plugged
<1>2. /\ UNCHANGED <<initialized, plugins, table, links, open, down>>
      /\ Transport!Idle(u) /\ Transport!Waits(p)
      /\ call' = [call EXCEPT ![u] = [Transport!Resting EXCEPT !.pc = "closing", !.plugin = p,
                                                               !.link = plugins[p].link]]
      /\ disturbed' = (disturbed \/ Transport!Busy(u, p))
  BY <1>1 DEF Transport!Disconnect
<1>3. p \in Nat
  BY DEF Plugged
<1>4. PICK l \in Nat : l = plugins[p].link
  <2>1. plugins[p] \in PluginOf(links) /\ links \in Nat
    BY TransportsAssumption DEF Plugged
  <2> QED
    BY <2>1 DEF PluginOf
<1>5. PICK c : c = [Transport!Resting EXCEPT !.pc = "closing", !.plugin = p, !.link = l]
  OBVIOUS
<1>6. /\ c \in Call /\ c.pc = "closing" /\ c.plugin = p /\ c.link = l /\ ~(c.at > 0) /\ c.at = 0
      /\ call' = [call EXCEPT ![u] = c]
  <2>1. c \in Call /\ c.pc = "closing" /\ c.plugin = p /\ c.link = l /\ c.at = 0
    BY <1>3, <1>4, <1>5 DEF Call, Transport!Resting
  <2> QED
    BY <1>2, <1>4, <1>5, <2>1
<1>7. Plugged' /\ PluginsStay
  BY <1>2, SamePlugins DEF Plugged, Transport!LinksAreOwned
<1>8. Fits(c)'
  BY <1>2, <1>6 DEF Fits
<1>9. Calling'
  BY <1>6, <1>7, <1>8, CallingKept
<1>10. disturbed' \in BOOLEAN
  BY <1>2
<1>11. Opened'
  BY <1>2, <1>10 DEF Opened
<1>12. ASSUME ~disturbed' PROVE Undisturbed'
  <2>1. Undisturbed /\ ~Transport!Busy(u, p)
    BY <1>2, <1>12
  <2>2. Held'
    BY <1>2, <2>1 DEF Undisturbed, Held
  <2>3. call'[u] = c /\ \A v \in Users \ {u} : call'[v] = call[v]
    BY <1>6 DEF Calling
  <2>4. Waiting(u)'
    <3>1. \A v \in Users \ {u} :
            ~Transport!Idle(v)' => call'[v].plugin # p /\ ~Transport!Walking(v)'
      BY <2>1, <2>3, FreePlugin DEF Transport!Idle, Transport!Walking
    <3>2. ~Transport!Walking(u)'
      BY <1>6, <2>3 DEF Transport!Walking
    <3>3. \E j \in DOMAIN table' : table'[j] = p
      BY <1>1, <1>2
    <3>4. plugins'[p].link = l /\ plugins'[p].type # "stdio"
      BY <1>2, <1>4 DEF Transport!Waits
    <3> QED
      BY <1>6, <2>3, <3>1, <3>2, <3>3, <3>4 DEF Waiting
  <2>5. ASSUME NEW v \in Users \ {u}, ~Transport!Idle(v)' PROVE Waiting(v)'
    <3>1. ~Transport!Idle(v)
      BY <2>3, <2>5 DEF Transport!Idle
    <3>2. Waiting(v) /\ call[v].plugin # p /\ ~Transport!Walking(v)
      BY <2>1, <3>1, FreePlugin
    <3>3. call'[u].plugin = p /\ ~(call'[u].at > 0)
      BY <1>6, <2>3
    <3>4. \A q \in DOMAIN plugins : q # p => plugins'[q].link = plugins[q].link
      BY <1>2
    <3> QED
      BY <1>2, <1>7, <2>3, <3>1, <3>2, <3>3, <3>4, OthersWait
  <2>6. \A v \in Users : call'[v].pc = "connecting" => call[v].pc = "connecting"
    BY <1>6, <2>3
  <2> QED
    BY <1>2, <2>1, <2>2, <2>4, <2>5, <2>6 DEF Undisturbed
<1> QED
  BY <1>7, <1>9, <1>11, <1>12

(* One plugin is dropped.                                                    *)
LEMMA DropOne ==
    ASSUME Plugged, NEW d \in DOMAIN plugins, UNCHANGED <<initialized, table, links>>,
           plugins' = [plugins EXCEPT ![d] = Transport!Dropped(@)]
    PROVE  /\ Plugged' /\ PluginsStay
           /\ \A p \in DOMAIN plugins :
                plugins'[p].link = IF p \in {d} THEN 0 ELSE plugins[p].link
<1>1. plugins' = [p \in DOMAIN plugins |->
                    IF p \in {d} THEN Transport!Dropped(plugins[p]) ELSE plugins[p]]
  BY DEF Plugged
<1>2. initialized' \in BOOLEAN /\ (initialized' => initialized)
  BY DEF Plugged
<1> QED
  BY <1>1, <1>2, DropKeeps

LEMMA DisconnectStdioStep ==
    ASSUME TransportIInv, NEW u \in Users, NEW i \in DOMAIN table,
           Transport!DisconnectStdio(u, i)
    PROVE  TransportIInv'
<1> USE DEF TransportIInv
<1>1. PICK p \in DOMAIN plugins : p = table[i]
  BY DEF Plugged
<1>2. /\ UNCHANGED <<initialized, table, call, links, down>>
      /\ Transport!Idle(u)
      /\ plugins' = [plugins EXCEPT ![p] = Transport!Dropped(@)]
      /\ open' = open \ {plugins[p].link}
      /\ disturbed' = (disturbed \/ Transport!Busy(u, p))
  BY <1>1 DEF Transport!DisconnectStdio, Transport!Closes
<1>3. /\ Plugged' /\ PluginsStay
      /\ \A q \in DOMAIN plugins :
           plugins'[q].link = IF q \in {p} THEN 0 ELSE plugins[q].link
  BY <1>2, DropOne
<1>4. Calling'
  BY <1>2, <1>3, CallsStay
<1>5. disturbed' \in BOOLEAN /\ open' \subseteq open
  BY <1>2
<1>6. Opened'
  BY <1>2, <1>5 DEF Opened
<1>7. ASSUME ~disturbed' PROVE Undisturbed'
  <2>1. Undisturbed /\ ~Transport!Busy(u, p) /\ open' = open \ {plugins[p].link}
    BY <1>2, <1>7
  <2>2. \A q \in {p} \cap DOMAIN plugins : plugins[q].link \notin open'
    BY <2>1
  <2>3. Held'
    BY <1>2, <1>3, <1>5, <2>1, <2>2, DropHolds DEF Undisturbed
  <2>4. ASSUME NEW v \in Users, ~Transport!Idle(v)' PROVE Waiting(v)'
    <3>1. v \in Users \ {u} /\ ~Transport!Idle(v)
      BY <1>2, <2>4 DEF Transport!Idle
    <3>2. Waiting(v) /\ call[v].plugin # p /\ ~Transport!Walking(v)
      BY <2>1, <3>1, FreePlugin
    <3> QED
      BY <1>2, <1>3, <3>1, <3>2, OthersWait
  <2> QED
    BY <1>2, <1>5, <2>1, <2>3, <2>4 DEF Undisturbed
<1> QED
  BY <1>3, <1>4, <1>6, <1>7

(* What the finally of disconnect does.                                      *)
LEMMA CloseStep ==
    ASSUME TransportIInv, NEW u \in Users, call[u].pc = "closing",
           plugins' = Transport!Closed(u), Transport!Closes({call[u].link}),
           call' = [call EXCEPT ![u] = Transport!Resting],
           UNCHANGED <<initialized, table, links, disturbed, down>>
    PROVE  TransportIInv'
<1> USE DEF TransportIInv
<1>1. ~Transport!Idle(u) /\ open' = open \ {call[u].link}
  BY DEF Transport!Idle, Transport!Closes
<1>2. PICK p \in DOMAIN plugins : p = call[u].plugin
  BY <1>1 DEF Calling, Fits, Transport!Idle
<1>3. plugins' = [plugins EXCEPT ![p] = Transport!Dropped(@)]
  BY <1>2 DEF Transport!Closed
<1>4. /\ Plugged' /\ PluginsStay
      /\ \A q \in DOMAIN plugins :
           plugins'[q].link = IF q \in {p} THEN 0 ELSE plugins[q].link
  BY <1>3, DropOne
<1>5. Calling' /\ Opened'
  BY <1>1, <1>4, RestKept DEF Opened
<1>6. ASSUME ~disturbed' PROVE Undisturbed'
  <2>1. Undisturbed
    BY <1>6
  <2>2. call[u].link = plugins[p].link
    BY <1>1, <1>2, <2>1 DEF Undisturbed, Waiting
  <2>3. open' \subseteq open /\ \A q \in {p} \cap DOMAIN plugins : plugins[q].link \notin open'
    BY <1>1, <2>2
  <2>4. Held'
    BY <1>4, <2>1, <2>3, DropHolds DEF Undisturbed
  <2>5. /\ \A v \in Users : ~Transport!Idle(v)' => Waiting(v)'
        /\ \A v \in Users : call'[v].pc = "connecting" => call[v].pc = "connecting"
    BY <1>1, <1>2, <1>4, <2>1, UserRests
  <2> QED
    BY <2>1, <2>3, <2>4, <2>5 DEF Undisturbed
<1> QED
  BY <1>4, <1>5, <1>6

-----------------------------------------------------------------------------
(* The walk of shutdown.                                                     *)

(* It goes to the next plugin that it waits for, past processes and plugins  *)
(* without a link.                                                           *)
LEMMA StopoverIs ==
    ASSUME Plugged, NEW from \in Nat \ {0}, NEW to, to = Transport!Stopover(from)
    PROVE  /\ to \in Nat
           /\ to # Len(table) + 1 => to \in from..Len(table) /\ Transport!Waits(table[to])
           /\ \A j \in DOMAIN table : from <= j /\ j < to => ~Transport!Waits(table[j])
           /\ \A j \in DOMAIN table : j < to \/ to # Len(table) + 1
<1> DEFINE waiting == {j \in from..Len(table) : Transport!Waits(table[j])}
<1>1. Len(table) \in Nat /\ DOMAIN table = 1..Len(table)
  BY DEF Plugged
<1>2. waiting \subseteq Nat /\ waiting \subseteq from..Len(table)
  BY <1>1
<1>3. to = IF waiting = {} THEN Len(table) + 1 ELSE Transport!Min(waiting)
  BY DEF Transport!Stopover
<1>4. CASE waiting = {}
  <2>1. to = Len(table) + 1
    BY <1>3, <1>4
  <2>2. ASSUME NEW j \in DOMAIN table, from <= j PROVE ~Transport!Waits(table[j])
    <3>1. j \in from..Len(table)
      BY <1>1, <2>2
    <3> QED
      BY <1>4, <3>1
  <2> QED
    BY <1>1, <2>1, <2>2
<1>5. CASE waiting # {}
  <2>1. to \in waiting /\ \A n \in waiting : to <= n
    BY <1>2, <1>3, <1>5, LeastExists
  <2>2. to \in from..Len(table) /\ Transport!Waits(table[to])
    BY <2>1
  <2>3. ASSUME NEW j \in DOMAIN table, from <= j, j < to PROVE ~Transport!Waits(table[j])
    <3>1. j \in from..Len(table)
      BY <1>1, <2>3
    <3>2. j \notin waiting
      BY <1>1, <2>1, <2>2, <2>3
    <3> QED
      BY <3>1, <3>2
  <2> QED
    BY <1>1, <2>2, <2>3
<1> QED
  BY <1>4, <1>5

(* The call of one who walks.                                                *)
LEMMA WalkerFits ==
    ASSUME Plugged, NEW to \in DOMAIN table, NEW l \in Nat, NEW c,
           c = [pc |-> "closing", plugin |-> table[to], link |-> l, at |-> to,
                size |-> Len(table)]
    PROVE  /\ Fits(c) /\ c.pc = "closing" /\ c.plugin = table[to] /\ c.link = l /\ c.at = to
           /\ c.at > 0
<1>1. /\ to \in Nat \ {0} /\ to <= Len(table) /\ Len(table) \in Nat
      /\ table[to] \in DOMAIN plugins /\ table[to] \in Nat
  BY DEF Plugged
<1> QED
  BY <1>1 DEF Fits, Call

(* The walk itself, whoever begins it or goes on with it.                    *)
LEMMA WalksStep ==
    ASSUME TransportIInv, NEW u \in Users, NEW from \in Nat \ {0}, NEW held,
           Transport!Walks(u, from, held), UNCHANGED <<table, links>>,
           disturbed' \in BOOLEAN, ~disturbed' => ~disturbed,
           ~disturbed' =>
             /\ initialized
             /\ \A v \in Users \ {u} : Transport!Idle(v)
             /\ \A j \in DOMAIN table : j < from =>
                  table[j] \in held \/ plugins[table[j]].link = 0
             /\ \A p \in held \cap DOMAIN plugins : plugins[p].link = call[u].link
             /\ \A j \in DOMAIN table : from <= j => table[j] \notin held
    PROVE  TransportIInv'
<1> USE DEF TransportIInv
<1>1. PICK to : to = Transport!Stopover(from)
  OBVIOUS
<1>2. PICK ended : ended = Transport!Passed(from, to)
  OBVIOUS
<1>3. PICK done \in BOOLEAN : done = (to = Len(table) + 1)
  OBVIOUS
<1> DEFINE D == ended \cup held
<1>4. /\ plugins' = [p \in DOMAIN plugins |->
                       IF p \in D THEN Transport!Dropped(plugins[p]) ELSE plugins[p]]
      /\ open' = open \ ({plugins[p].link : p \in ended} \cup {call[u].link})
      /\ call' = [call EXCEPT ![u] = IF done THEN Transport!Resting ELSE
           [pc |-> "closing", plugin |-> table[to], link |-> plugins[table[to]].link,
            at |-> to, size |-> Len(table)]]
      /\ initialized' = (initialized /\ ~done)
      /\ down' = (done \/ down)
  BY <1>1, <1>2, <1>3 DEF Transport!Walks, Transport!Closes
<1>5. initialized' \in BOOLEAN /\ (initialized' => initialized) /\ down' \in BOOLEAN
  BY <1>3, <1>4 DEF Plugged, Opened
<1> HIDE DEF D
<1>6. /\ Plugged' /\ PluginsStay
      /\ \A p \in DOMAIN plugins :
           plugins'[p].link = IF p \in D THEN 0 ELSE plugins[p].link
  BY <1>4, <1>5, DropKeeps
<1>7. Opened'
  BY <1>4, <1>5 DEF Opened
<1>8. /\ to \in Nat
      /\ to # Len(table) + 1 => to \in from..Len(table) /\ Transport!Waits(table[to])
      /\ \A j \in DOMAIN table : from <= j /\ j < to => ~Transport!Waits(table[j])
      /\ \A j \in DOMAIN table : j < to \/ to # Len(table) + 1
  BY <1>1, StopoverIs
<1>9. ~done => to \in DOMAIN table /\ from <= to
  BY <1>3, <1>8 DEF Plugged
<1>10. ended = {table[j] : j \in {j \in from..(to - 1) : plugins[table[j]].type = "stdio"}}
  BY <1>2 DEF Transport!Passed
(* What the step leaves in the places of the table that it has passed.       *)
<1>11. ASSUME ~disturbed', NEW j \in DOMAIN table, j < to
       PROVE  plugins'[table[j]].link = 0
  <2>1. table[j] \in DOMAIN plugins /\ j \in Nat
    BY DEF Plugged
  <2>2. CASE j < from
    BY <1>6, <1>11, <2>1, <2>2 DEF D
  <2>3. CASE from <= j
    <3>1. ~Transport!Waits(table[j])
      BY <1>8, <1>11, <2>3
    <3>2. plugins[table[j]].type = "stdio" => table[j] \in ended
      <4>1. j \in from..(to - 1)
        BY <1>8, <1>11, <2>1, <2>3
      <4> QED
        BY <1>10, <4>1
    <3> QED
      BY <1>6, <2>1, <3>1, <3>2 DEF D, Transport!Waits
  <2> QED
    BY <2>1, <2>2, <2>3
<1>12. Held' \/ disturbed'
  <2> SUFFICES ASSUME ~disturbed' PROVE Held'
    OBVIOUS
  <2>1. ASSUME NEW p \in D \cap DOMAIN plugins PROVE plugins[p].link \notin open'
    BY <1>4 DEF D
  <2> QED
    BY <1>4, <1>6, <2>1, DropHolds DEF Undisturbed
<1>13. CASE done
  <2>1. call' = [call EXCEPT ![u] = Transport!Resting]
    BY <1>4, <1>13
  <2>2. Calling'
    BY <1>6, <2>1, RestKept
  <2>3. ASSUME ~disturbed' PROVE Undisturbed'
    <3>1. call'[u].pc = "none" /\ \A v \in Users \ {u} : call'[v] = call[v]
      BY <2>1 DEF Calling, Transport!Resting
    <3>2. \A v \in Users : call'[v].pc = "none"
      BY <2>3, <3>1 DEF Transport!Idle
    <3>3. ASSUME NEW l \in open' PROVE FALSE
      <4>1. PICK i \in DOMAIN table : plugins'[table[i]].link = l
        BY <1>12, <2>3, <3>3 DEF Held
      <4>2. i < to
        BY <1>3, <1>8, <1>13
      <4>3. l = 0
        BY <1>11, <2>3, <4>1, <4>2
      <4> QED
        BY <1>4, <3>3, <4>3 DEF Opened
    <3> QED
      BY <1>12, <2>3, <3>2, <3>3 DEF Undisturbed, Transport!Idle
  <2> QED
    BY <1>6, <1>7, <2>2, <2>3
<1>14. CASE ~done
  <2>1. to \in DOMAIN table /\ from <= to /\ Transport!Waits(table[to])
    BY <1>3, <1>8, <1>9, <1>14
  <2>2. PICK p \in DOMAIN plugins : p = table[to]
    BY <2>1 DEF Plugged
  <2>3. PICK l \in Nat : l = plugins[p].link
    <3>1. plugins[p] \in PluginOf(links) /\ links \in Nat
      BY TransportsAssumption DEF Plugged
    <3> QED
      BY <3>1 DEF PluginOf
  <2>4. PICK c : c = [pc |-> "closing", plugin |-> table[to], link |-> l, at |-> to,
                      size |-> Len(table)]
    OBVIOUS
  <2>5. call' = [call EXCEPT ![u] = c]
    BY <1>4, <1>14, <2>2, <2>3, <2>4
  <2>6. Fits(c) /\ c.pc = "closing" /\ c.plugin = p /\ c.link = l /\ c.at = to /\ c.at > 0
    BY <2>1, <2>2, <2>3, <2>4, WalkerFits
  <2>7. Calling'
    BY <1>6, <2>5, <2>6, StillFits, CallingKept
  <2>8. ASSUME ~disturbed' PROVE Undisturbed'
    <3>1. call'[u] = c /\ \A v \in Users \ {u} : call'[v] = call[v]
      BY <2>5 DEF Calling
    <3>2. \A v \in Users \ {u} : Transport!Idle(v)'
      BY <2>8, <3>1 DEF Transport!Idle
    <3>3. p \notin D
      <4>1. p \notin held
        BY <2>1, <2>2, <2>8
      <4>2. plugins[p].type # "stdio"
        BY <2>1, <2>2 DEF Transport!Waits
      <4>3. p \notin ended
        BY <1>10, <4>2
      <4> QED
        BY <4>1, <4>3 DEF D
    <3>4. plugins'[p].link = l /\ plugins'[p].type # "stdio"
      BY <1>6, <2>1, <2>2, <2>3, <3>3 DEF Transport!Waits, PluginsStay
    <3>5. initialized'
      BY <1>4, <1>14, <2>8
    <3>6. \A j \in 1..(to - 1) : plugins'[table[j]].link = 0
      <4>1. ASSUME NEW j \in 1..(to - 1) PROVE j \in DOMAIN table /\ j < to
        BY <2>1 DEF Plugged
      <4> QED
        BY <1>11, <2>8, <4>1
    <3>7. Waiting(u)'
      BY <2>1, <2>2, <2>6, <3>1, <3>2, <3>4, <3>5, <3>6
      DEF Waiting, Transport!Idle, Transport!Walking
    <3>8. down' => open' = {}
      BY <1>3, <1>4, <1>14, <2>8 DEF Undisturbed
    <3>9. \A v \in Users : call'[v].pc # "connecting"
      BY <2>6, <3>1, <3>2 DEF Transport!Idle
    <3> QED
      BY <1>12, <2>8, <3>2, <3>7, <3>8, <3>9 DEF Undisturbed
  <2> QED
    BY <1>6, <1>7, <2>7, <2>8
<1> QED
  BY <1>3, <1>13, <1>14

LEMMA ShutdownStep ==
    ASSUME TransportIInv, NEW u \in Users, Transport!Shutdown(u)
    PROVE  TransportIInv'
<1> USE DEF TransportIInv
<1>1. /\ Transport!Idle(u) /\ initialized /\ Transport!Walks(u, 1, {})
      /\ disturbed' = (disturbed \/ \E v \in Users \ {u} : ~Transport!Idle(v))
      /\ UNCHANGED <<table, links>>
  BY DEF Transport!Shutdown
<1>2. \A j \in DOMAIN table : ~(j < 1)
  BY DEF Plugged
<1>3. disturbed' \in BOOLEAN
  BY <1>1
<1>4. 1 \in Nat \ {0}
  OBVIOUS
<1> QED
  BY <1>1, <1>2, <1>3, <1>4, WalksStep

LEMMA WalkStep ==
    ASSUME TransportIInv, NEW u \in Users, Transport!WalkGoesOn(u)
    PROVE  TransportIInv'
<1> USE DEF TransportIInv
<1>1. PICK at : at = call[u].at
  OBVIOUS
<1>2. PICK p : p = call[u].plugin
  OBVIOUS
<1>3. /\ Transport!Walking(u) /\ Transport!Walks(u, at + 1, {p})
      /\ UNCHANGED <<table, links, disturbed>>
  BY <1>1, <1>2 DEF Transport!WalkGoesOn
<1>4. at \in Nat \ {0} /\ at <= Len(table) /\ call[u].pc = "closing" /\ ~Transport!Idle(u)
  BY <1>1, <1>3 DEF Calling, Fits, Call, Transport!Walking, Transport!Idle, Transport!Resting,
    Plugged
<1>5. at \in DOMAIN table /\ at + 1 \in Nat \ {0}
  BY <1>4 DEF Plugged
<1>6. ASSUME ~disturbed'
      PROVE  /\ initialized
             /\ \A v \in Users \ {u} : Transport!Idle(v)
             /\ \A j \in DOMAIN table : j < at + 1 =>
                  table[j] \in {p} \/ plugins[table[j]].link = 0
             /\ \A q \in {p} \cap DOMAIN plugins : plugins[q].link = call[u].link
             /\ \A j \in DOMAIN table : at + 1 <= j => table[j] \notin {p}
  <2>1. Undisturbed
    BY <1>3, <1>6
  <2>2. Waiting(u)
    BY <1>4, <2>1 DEF Undisturbed
  <2>3. /\ initialized /\ table[at] = p /\ call[u].link = plugins[p].link
        /\ \A j \in 1..(at - 1) : plugins[table[j]].link = 0
    BY <1>1, <1>2, <1>3, <1>4, <2>2 DEF Waiting
  <2>4. \A v \in Users \ {u} : Transport!Idle(v)
    BY <1>3, <1>4, <2>1, NoWalker
  <2>5. ASSUME NEW j \in DOMAIN table, j < at + 1
        PROVE  table[j] \in {p} \/ plugins[table[j]].link = 0
    <3>1. j = at \/ j \in 1..(at - 1)
      BY <1>4, <2>5 DEF Plugged
    <3> QED
      BY <2>3, <3>1
  <2>6. ASSUME NEW j \in DOMAIN table, at + 1 <= j PROVE table[j] \notin {p}
    <3>1. j # at
      BY <1>4, <2>6 DEF Plugged
    <3>2. plugins[table[j]].name # plugins[table[at]].name
      BY <1>5, <3>1 DEF Plugged, Transport!LinksAreOwned
    <3> QED
      BY <2>3, <3>2
  <2> QED
    BY <2>3, <2>4, <2>5, <2>6
<1>7. disturbed' \in BOOLEAN /\ (~disturbed' => ~disturbed)
  BY <1>3 DEF Opened
<1> QED
  BY <1>3, <1>5, <1>6, <1>7, WalksStep

-----------------------------------------------------------------------------
(* Plugins that come.                                                        *)

(* A plugin at the end, with a link of its own or without one.               *)
LEMMA PluginAdded ==
    ASSUME Plugged, NEW new, NEW more \in {0, 1}, new \in PluginOf(links + more),
           links' = links + more, links' \in 0..MaxLinks, new.link = IF more = 1 THEN links + 1 ELSE 0,
           plugins' = Append(plugins, new), Len(plugins) < MaxPlugins
    PROVE  /\ plugins' \in Seq(PluginOf(links')) /\ Len(plugins') = Len(plugins) + 1
           /\ Len(plugins') <= MaxPlugins /\ DOMAIN plugins \subseteq DOMAIN plugins'
           /\ Len(plugins') \in DOMAIN plugins' /\ plugins'[Len(plugins')] = new
           /\ \A p \in DOMAIN plugins : plugins'[p] = plugins[p]
           /\ \A p, q \in DOMAIN plugins' :
                p # q /\ plugins'[p].link # 0 => plugins'[p].link # plugins'[q].link
<1>1. /\ links \in Nat /\ Len(plugins) \in Nat /\ DOMAIN plugins = 1..Len(plugins)
      /\ \A p \in DOMAIN plugins : plugins[p] \in PluginOf(links)
  BY TransportsAssumption DEF Plugged
<1>2. PICK n \in Nat : n = links + more
  BY <1>1
<1>3. links \in 0..n /\ 0 \in 0..n
  BY <1>1, <1>2
<1>4. ASSUME NEW p \in DOMAIN plugins PROVE plugins[p] \in PluginOf(n)
  <2>1. plugins[p] \in PluginOf(links)
    BY <1>1
  <2> QED
    BY <1>3, <2>1, PluginLinked
<1>5. plugins \in Seq(PluginOf(n)) /\ new \in PluginOf(n)
  <2>1. plugins \in [1..Len(plugins) -> PluginOf(n)]
    BY <1>1, <1>4 DEF Plugged
  <2> QED
    BY <1>1, <1>2, <2>1, FunctionIsSeq
<1>6. /\ plugins' \in Seq(PluginOf(n)) /\ Len(plugins') = Len(plugins) + 1
      /\ plugins'[Len(plugins) + 1] = new
      /\ \A p \in 1..Len(plugins) : plugins'[p] = plugins[p]
      /\ DOMAIN plugins' = 1..(Len(plugins) + 1)
  BY <1>5, AppendProperties
<1>7. \A p \in DOMAIN plugins : plugins[p].link \in 0..links
  BY <1>1 DEF PluginOf
<1>8. ASSUME NEW p \in DOMAIN plugins', NEW q \in DOMAIN plugins', p # q, plugins'[p].link # 0
      PROVE  plugins'[p].link # plugins'[q].link
  <2>1. CASE p \in DOMAIN plugins /\ q \in DOMAIN plugins
    <3>1. plugins[p].link # 0 => plugins[p].link # plugins[q].link
      BY <1>8, <2>1 DEF Plugged, Transport!LinksAreOwned
    <3> QED
      BY <1>1, <1>6, <1>8, <2>1, <3>1
  <2>2. CASE p \in DOMAIN plugins /\ q = Len(plugins) + 1
    BY <1>1, <1>6, <1>7, <1>8, <2>2
  <2>3. CASE p = Len(plugins) + 1 /\ q \in DOMAIN plugins
    BY <1>1, <1>6, <1>7, <1>8, <2>3
  <2> QED
    BY <1>1, <1>6, <1>8, <2>1, <2>2, <2>3
<1>9. Len(plugins') = Len(plugins) + 1 /\ Len(plugins) + 1 <= MaxPlugins
  BY <1>1, <1>6, TransportsAssumption
<1>10. Len(plugins') \in DOMAIN plugins' /\ plugins'[Len(plugins')] = new
  BY <1>1, <1>6
<1> QED
  BY <1>1, <1>2, <1>6, <1>8, <1>9, <1>10

LEMMA RegisterPluginStep ==
    ASSUME TransportIInv, NEW name \in Transport!Builtins \cup {"custom"},
           NEW type \in CustomTypes, NEW priority \in Priorities,
           Transport!RegisterPlugin(name, type, priority)
    PROVE  TransportIInv'
<1> USE DEF TransportIInv
<1>1. PICK new : new = Transport!Made(name, type, priority, links)
  OBVIOUS
<1>2. PICK more \in {0, 1} : more = IF type = "http" THEN 1 ELSE 0
  OBVIOUS
<1>3. links \in Nat /\ Len(plugins) \in Nat /\ MaxLinks \in Nat
  BY TransportsAssumption DEF Plugged
<1>4. /\ initialized /\ Len(plugins) < MaxPlugins /\ links < MaxLinks
      /\ plugins' = Append(plugins, new)
      /\ table' = IF Transport!Place(name) = {} THEN Append(table, Len(plugins'))
                  ELSE [i \in DOMAIN table |->
                          IF i \in Transport!Place(name) THEN Len(plugins') ELSE table[i]]
      /\ links' = links + more
      /\ open' = IF type = "http" THEN open \cup {links'} ELSE open
      /\ disturbed' = (disturbed \/ \E i \in Transport!Place(name) : Transport!Used(i))
      /\ down' = FALSE
      /\ UNCHANGED <<initialized, call>>
  BY <1>1, <1>2, <1>3 DEF Transport!RegisterPlugin
<1>5. links' \in 0..MaxLinks /\ links' \in Nat
  BY <1>3, <1>4
<1>6. /\ new \in PluginOf(links + more) /\ new.name = name
      /\ new.link = IF more = 1 THEN links + 1 ELSE 0
  <2>1. PICK m \in Nat : m = links + more
    BY <1>3
  <2>2. (type = "http" => links < m) /\ links <= m
    BY <1>2, <1>3, <2>1
  <2>3. type \in Transport!Types /\ priority \in Priorities \cup {100}
    BY DEF Transport!Types
  <2>4. /\ new \in PluginOf(m) /\ new.name = name
        /\ new.link = IF type = "http" THEN links + 1 ELSE 0
    BY <1>1, <1>3, <2>2, <2>3, PluginMade
  <2> QED
    BY <1>2, <2>1, <2>4
<1>7. /\ plugins' \in Seq(PluginOf(links')) /\ Len(plugins') = Len(plugins) + 1
      /\ Len(plugins') <= MaxPlugins /\ DOMAIN plugins \subseteq DOMAIN plugins'
      /\ Len(plugins') \in DOMAIN plugins' /\ plugins'[Len(plugins')] = new
      /\ \A p \in DOMAIN plugins : plugins'[p] = plugins[p]
      /\ \A p, q \in DOMAIN plugins' :
           p # q /\ plugins'[p].link # 0 => plugins'[p].link # plugins'[q].link
  BY <1>2, <1>4, <1>5, <1>6, PluginAdded
<1>8. PICK n \in DOMAIN plugins' : n = Len(plugins') /\ plugins'[n] = new
  BY <1>7
<1>9. /\ Len(table) \in Nat /\ DOMAIN table = 1..Len(table)
      /\ \A i \in DOMAIN table : table[i] \in DOMAIN plugins /\ table[i] \in DOMAIN plugins'
      /\ table \in Seq(DOMAIN plugins')
  BY <1>7 DEF Plugged
(* The table, as it is now: one more place, or another plugin in one place.  *)
<1>10. /\ table' \in Seq(DOMAIN plugins')
       /\ Len(table') = IF Transport!Place(name) = {} THEN Len(table) + 1 ELSE Len(table)
       /\ \A i \in DOMAIN table :
            table'[i] = IF i \in Transport!Place(name) THEN n ELSE table[i]
       /\ Transport!Place(name) = {} => table'[Len(table) + 1] = n
  <2>1. CASE Transport!Place(name) = {}
    <3>1. table' = Append(table, n)
      BY <1>4, <1>8, <2>1
    <3>2. /\ table' \in Seq(DOMAIN plugins') /\ Len(table') = Len(table) + 1
          /\ table'[Len(table) + 1] = n /\ \A i \in 1..Len(table) : table'[i] = table[i]
      BY <1>8, <1>9, <3>1, AppendProperties
    <3> QED
      BY <1>9, <2>1, <3>2
  <2>2. CASE Transport!Place(name) # {}
    <3>1. table' = [i \in DOMAIN table |-> IF i \in Transport!Place(name) THEN n ELSE table[i]]
      BY <1>4, <1>8, <2>2
    <3>2. table' \in [1..Len(table) -> DOMAIN plugins']
      BY <1>8, <1>9, <3>1
    <3>3. table' \in Seq(DOMAIN plugins') /\ Len(table') = Len(table)
      BY <1>9, <3>2, FunctionIsSeq
    <3> QED
      BY <2>2, <3>1, <3>3
  <2> QED
    BY <2>1, <2>2
<1>11. /\ DOMAIN table \subseteq DOMAIN table' /\ Len(table) <= Len(table')
       /\ DOMAIN table' = 1..Len(table')
       /\ \A i \in DOMAIN table' : i \in DOMAIN table \/ (Transport!Place(name) = {} /\ i = Len(table) + 1)
  BY <1>9, <1>10
<1>12. PluginsStay
  BY <1>7, <1>11 DEF PluginsStay
(* Places keep their names; a new place has a new name.                      *)
<1>13. /\ \A i \in DOMAIN table : plugins'[table'[i]].name = plugins[table[i]].name
       /\ Transport!Place(name) = {} =>
            /\ plugins'[table'[Len(table) + 1]].name = name
            /\ \A i \in DOMAIN table : plugins[table[i]].name # name
  BY <1>6, <1>7, <1>8, <1>9, <1>10 DEF Transport!Place
<1>14. ASSUME NEW i \in DOMAIN table', NEW j \in DOMAIN table', i # j
       PROVE  plugins'[table'[i]].name # plugins'[table'[j]].name
  <2>1. CASE i \in DOMAIN table /\ j \in DOMAIN table
    <3>1. plugins[table[i]].name # plugins[table[j]].name
      BY <1>14, <2>1 DEF Plugged, Transport!LinksAreOwned
    <3> QED
      BY <1>13, <2>1, <3>1
  <2> QED
    BY <1>11, <1>13, <1>14, <2>1
<1>15. Transport!LinksAreOwned'
  BY <1>7, <1>14 DEF Transport!LinksAreOwned
<1>16. Plugged'
  <2>1. table # <<>> /\ Len(table) # 0
    BY <1>4, <1>9 DEF Plugged
  <2>2. /\ Len(Builtin) <= Len(table) /\ Len(Builtin) \in Nat
        /\ \A i \in DOMAIN Builtin : plugins[table[i]].name = Builtin[i]
    BY <2>1, TransportsAssumption DEF Plugged
  <2>3. table' # <<>> /\ Len(Builtin) <= Len(table')
    BY <1>9, <1>10, <2>1, <2>2
  <2>4. \A i \in DOMAIN Builtin : plugins'[table'[i]].name = Builtin[i]
    <3>1. \A i \in DOMAIN Builtin : i \in DOMAIN table
      BY <1>9, <2>2, TransportsAssumption
    <3> QED
      BY <1>13, <2>2, <3>1
  <2> QED
    BY <1>4, <1>5, <1>7, <1>10, <1>15, <2>3, <2>4 DEF Plugged
<1>17. Calling'
  BY <1>4, <1>12, CallsStay
<1>18. Opened'
  <2>1. open' \subseteq 1..links'
    <3>1. CASE type = "http"
      <4>1. open' = open \cup {links + 1} /\ links' = links + 1
        BY <1>2, <1>4, <3>1
      <4> QED
        BY <1>3, <4>1, OneMore
    <3>2. CASE type # "http"
      BY <1>2, <1>3, <1>4, <3>2 DEF Opened
    <3> QED
      BY <3>1, <3>2
  <2>2. disturbed' \in BOOLEAN
    BY <1>4
  <2> QED
    BY <1>4, <2>1, <2>2 DEF Opened
<1>19. ASSUME ~disturbed' PROVE Undisturbed'
  <2>1. Undisturbed /\ \A i \in Transport!Place(name) : ~Transport!Used(i)
    BY <1>4, <1>19
  <2>2. ASSUME NEW i \in Transport!Place(name)
        PROVE  plugins[table[i]].link = 0 /\ \A v \in Users : Transport!Idle(v)
    BY <2>1 DEF Transport!Used
  <2>3. 0 \notin open
    BY DEF Opened
  <2>4. ASSUME NEW l \in open' PROVE \E i \in DOMAIN table' : plugins'[table'[i]].link = l
    <3>1. CASE l \in open
      <4>1. PICK i \in DOMAIN table : plugins[table[i]].link = l
        BY <2>1, <3>1 DEF Undisturbed, Held
      <4>2. i \notin Transport!Place(name)
        BY <2>2, <2>3, <3>1, <4>1
      <4>3. table'[i] = table[i] /\ plugins'[table[i]] = plugins[table[i]]
        BY <1>7, <1>9, <1>10, <4>2
      <4> QED
        BY <1>11, <4>1, <4>3
    <3>2. CASE l \notin open
      <4>1. l = links + 1 /\ more = 1
        BY <1>2, <1>4, <2>4, <3>2
      <4>2. \E i \in DOMAIN table' : table'[i] = n
        <5>1. CASE Transport!Place(name) = {}
          <6>1. Len(table) + 1 \in DOMAIN table'
            BY <1>9, <1>10, <1>11, <5>1
          <6> QED
            BY <1>10, <5>1, <6>1
        <5>2. CASE Transport!Place(name) # {}
          <6>1. PICK i \in DOMAIN table : i \in Transport!Place(name)
            BY <5>2 DEF Transport!Place
          <6> QED
            BY <1>10, <1>11, <6>1
        <5> QED
          BY <5>1, <5>2
      <4> QED
        BY <1>6, <1>8, <4>1, <4>2
    <3> QED
      BY <3>1, <3>2
  <2>5. ASSUME NEW v \in Users, ~Transport!Idle(v)' PROVE Waiting(v)'
    <3>1. ~Transport!Idle(v) /\ Waiting(v)
      BY <1>4, <2>1, <2>5 DEF Undisturbed, Transport!Idle
    <3>2. Transport!Place(name) = {}
      BY <2>2, <3>1
    <3>3. \A i \in DOMAIN table : table'[i] = table[i]
      BY <1>10, <3>2
    <3>4. table' \in Seq(Nat)
      BY <1>7, <1>10
    <3>5. \A p \in DOMAIN plugins : plugins'[p].link = plugins[p].link
      BY <1>7
    <3> QED
      BY <1>4, <1>12, <3>1, <3>3, <3>4, <3>5, AllWaitOn
  <2>6. Held'
    BY <2>4 DEF Held
  <2>7. ~down'
    BY <1>4
  <2> QED
    BY <2>5, <2>6, <2>7 DEF Undisturbed
<1> QED
  BY <1>16, <1>17, <1>18, <1>19

(* The plugins of the manager come, each in the place of its type.           *)
LEMMA InitializeStep ==
    ASSUME TransportIInv, Transport!Initialize
    PROVE  TransportIInv'
<1> USE DEF TransportIInv
<1>1. PICK n \in Nat \ {0} : n = Len(Builtin)
  <2>1. Len(Builtin) \in Nat /\ Len(Builtin) # 0
    BY TransportsAssumption
  <2> QED
    BY <2>1
<1>2. PICK k \in Nat : k = Len(plugins)
  BY DEF Plugged
<1>3. PICK m \in Nat : m = Len(table)
  BY DEF Plugged
<1>4. PICK more \in {0, 1} : more = IF "http" \in Transport!Builtins THEN 1 ELSE 0
  OBVIOUS
<1>5. PICK came : came = [i \in DOMAIN Builtin |->
                            Transport!Made(Builtin[i], Builtin[i], 100, links)]
  OBVIOUS
<1>6. PICK first : first = [i \in DOMAIN Builtin |-> k + i]
  OBVIOUS
<1>7. PICK rest : rest = SubSeq(table, n + 1, m)
  OBVIOUS
<1>8. /\ links \in Nat /\ DOMAIN Builtin = 1..n /\ DOMAIN plugins = 1..k /\ DOMAIN table = 1..m
      /\ MaxLinks \in Nat /\ MaxPlugins \in Nat
  BY <1>1, <1>2, <1>3, TransportsAssumption DEF Plugged
<1>9. /\ ~initialized /\ k + n <= MaxPlugins /\ links < MaxLinks
      /\ initialized' = TRUE /\ down' = FALSE /\ UNCHANGED call
      /\ plugins' = plugins \o came
      /\ table' = first \o rest
      /\ links' = links + more
      /\ open' = IF "http" \in Transport!Builtins THEN open \cup {links'} ELSE open
      /\ disturbed' = (disturbed \/ \E i \in DOMAIN table \cap DOMAIN Builtin : Transport!Used(i))
  BY <1>1, <1>2, <1>3, <1>4, <1>5, <1>6, <1>7, <1>8 DEF Transport!Initialize
<1>10. links' \in 0..MaxLinks /\ links' \in Nat
  BY <1>8, <1>9
(* The new plugins, one of which may have a link.                            *)
<1>11. /\ came \in Seq(PluginOf(links')) /\ Len(came) = n
       /\ \A i \in 1..n : /\ came[i].name = Builtin[i]
                          /\ came[i].link = IF Builtin[i] = "http" THEN links + 1 ELSE 0
  <2>1. ASSUME NEW i \in 1..n
        PROVE  /\ came[i] \in PluginOf(links') /\ came[i].name = Builtin[i]
               /\ came[i].link = IF Builtin[i] = "http" THEN links + 1 ELSE 0
    <3>1. PICK t : t = Builtin[i]
      OBVIOUS
    <3>2. t \in Transport!Builtins /\ t \in Transport!Types
      BY <1>8, <3>1 DEF Transport!Builtins, Transport!Types
    <3>3. PICK l \in Nat : l = links'
      BY <1>10
    <3>4. (t = "http" => links < l) /\ links <= l
      BY <1>4, <1>8, <1>9, <3>2, <3>3
    <3>5. t \in Transport!Builtins \cup {"custom"} /\ 100 \in Priorities \cup {100}
      BY <3>2
    <3>6. /\ Transport!Made(t, t, 100, links) \in PluginOf(l)
          /\ Transport!Made(t, t, 100, links).name = t
          /\ Transport!Made(t, t, 100, links).link = IF t = "http" THEN links + 1 ELSE 0
      BY <1>8, <3>2, <3>4, <3>5, PluginMade
    <3>7. came[i] = Transport!Made(t, t, 100, links)
      BY <1>5, <1>8, <3>1
    <3> QED
      BY <3>1, <3>3, <3>6, <3>7
  <2>2. came \in [1..n -> PluginOf(links')]
    BY <1>5, <1>8, <2>1
  <2>3. came \in Seq(PluginOf(links')) /\ Len(came) = n
    BY <2>2, FunctionIsSeq
  <2> QED
    BY <2>1, <2>3
<1>12. plugins \in Seq(PluginOf(links'))
  <2>1. PICK l \in Nat : l = links'
    BY <1>10
  <2>2. links \in 0..l /\ 0 \in 0..l
    BY <1>8, <1>9, <2>1
  <2>3. ASSUME NEW p \in 1..k PROVE plugins[p] \in PluginOf(l)
    <3>1. plugins[p] \in PluginOf(links)
      BY <1>8 DEF Plugged
    <3> QED
      BY <2>2, <3>1, PluginLinked
  <2>4. plugins \in [1..k -> PluginOf(l)]
    BY <1>2, <2>3 DEF Plugged
  <2> QED
    BY <2>1, <2>4, FunctionIsSeq
<1>13. /\ plugins' \in Seq(PluginOf(links')) /\ Len(plugins') = k + n
       /\ DOMAIN plugins' = 1..(k + n)
       /\ \A p \in 1..k : plugins'[p] = plugins[p]
       /\ \A i \in 1..n : plugins'[k + i] = came[i]
  <2>1. /\ plugins' \in Seq(PluginOf(links')) /\ Len(plugins') = k + n
        /\ \A i \in 1..(k + n) : plugins'[i] = IF i <= k THEN plugins[i] ELSE came[i - k]
    <3>1. PICK S : S = PluginOf(links')
      OBVIOUS
    <3>2. plugins \in Seq(S) /\ came \in Seq(S) /\ Len(plugins) = k /\ Len(came) = n
      BY <1>2, <1>11, <1>12, <3>1
    <3>3. /\ plugins \o came \in Seq(S) /\ Len(plugins \o came) = k + n
          /\ \A i \in 1..(k + n) :
               (plugins \o came)[i] = IF i <= k THEN plugins[i] ELSE came[i - k]
      BY <3>2, ConcatProperties
    <3> QED
      BY <1>9, <3>1, <3>3
  <2>2. \A i \in 1..n : k + i \in 1..(k + n) /\ ~(k + i <= k) /\ (k + i) - k = i
    OBVIOUS
  <2>3. \A p \in 1..k : p \in 1..(k + n) /\ p <= k
    OBVIOUS
  <2>4. \A i \in 1..n : plugins'[k + i] = came[i]
    BY <2>1, <2>2
  <2> QED
    BY <2>1, <2>3, <2>4
(* The table: the new plugins first, then what was behind those places.      *)
<1>14. first \in Seq(DOMAIN plugins') /\ Len(first) = n /\ \A i \in 1..n : first[i] = k + i
  <2>1. \A i \in 1..n : first[i] = k + i /\ k + i \in 1..(k + n)
    BY <1>6, <1>8
  <2>2. first \in [1..n -> DOMAIN plugins']
    BY <1>6, <1>8, <1>13, <2>1
  <2> QED
    BY <2>1, <2>2, FunctionIsSeq
<1>15. /\ rest \in Seq(DOMAIN plugins') /\ Len(rest) = IF n <= m THEN m - n ELSE 0
       /\ \A i \in 1..(m - n) : rest[i] = table[n + i]
  <2>1. table \in Seq(DOMAIN plugins')
    <3>1. \A i \in 1..m : table[i] \in 1..k
      BY <1>8 DEF Plugged
    <3>2. table \in [1..m -> DOMAIN plugins']
      BY <1>3, <1>13, <3>1 DEF Plugged
    <3> QED
      BY <3>2, FunctionIsSeq
  <2>2. \A i \in (n + 1)..m : i \in 1..Len(table)
    BY <1>3
  <2>3. n + 1 \in Int /\ m \in Int
    OBVIOUS
  <2>4. /\ rest \in Seq(DOMAIN plugins')
        /\ Len(rest) = IF n + 1 <= m + 1 THEN m - (n + 1) + 1 ELSE 0
        /\ \A i \in 1..(m - (n + 1) + 1) : rest[i] = table[n + 1 + i - 1]
    BY <1>7, <2>1, <2>2, <2>3, SubSeqProperties
  <2>5. m - (n + 1) + 1 = m - n /\ (n + 1 <= m + 1 <=> n <= m)
    OBVIOUS
  <2>6. \A i \in 1..(m - n) : n + 1 + i - 1 = n + i
    OBVIOUS
  <2> QED
    BY <2>4, <2>5, <2>6
<1>16. /\ table' \in Seq(DOMAIN plugins') /\ Len(table') = IF n <= m THEN m ELSE n
       /\ \A i \in 1..n : table'[i] = k + i
       /\ \A i \in (n + 1)..m : table'[i] = table[i]
  <2>1. PICK r \in Nat : r = Len(rest)
    BY <1>15
  <2>2. /\ table' \in Seq(DOMAIN plugins') /\ Len(table') = n + r
        /\ \A i \in 1..(n + r) : table'[i] = IF i <= n THEN first[i] ELSE rest[i - n]
    <3>1. PICK S : S = DOMAIN plugins'
      OBVIOUS
    <3>2. first \in Seq(S) /\ rest \in Seq(S) /\ Len(first) = n /\ Len(rest) = r
      BY <1>14, <1>15, <2>1, <3>1
    <3>3. /\ first \o rest \in Seq(S) /\ Len(first \o rest) = n + r
          /\ \A i \in 1..(n + r) :
               (first \o rest)[i] = IF i <= n THEN first[i] ELSE rest[i - n]
      BY <3>2, ConcatProperties
    <3> QED
      BY <1>9, <3>1, <3>3
  <2>3. n + r = IF n <= m THEN m ELSE n
    BY <1>15, <2>1
  <2>4. \A i \in 1..n : i \in 1..(n + r) /\ i <= n
    OBVIOUS
  <2>5. \A i \in (n + 1)..m :
          /\ i \in 1..(n + r) /\ ~(i <= n) /\ i - n \in 1..(m - n) /\ n + (i - n) = i
    BY <2>3
  <2>6. \A i \in 1..n : table'[i] = k + i
    BY <1>14, <2>2, <2>4
  <2>7. \A i \in (n + 1)..m : table'[i] = table[i]
    BY <1>15, <2>2, <2>5
  <2> QED
    BY <2>2, <2>3, <2>6, <2>7
<1>17. DOMAIN table' = 1..Len(table') /\ Len(table') \in Nat /\ m <= Len(table') /\ n <= Len(table')
  BY <1>16
<1>18. PluginsStay
  BY <1>3, <1>8, <1>13, <1>17 DEF PluginsStay
<1>19. \A i \in DOMAIN table' : i \in 1..n \/ i \in (n + 1)..m
  BY <1>16, <1>17
(* Places keep their names.                                                  *)
<1>20. /\ \A i \in 1..n : plugins'[table'[i]].name = Builtin[i]
       /\ \A i \in (n + 1)..m : plugins'[table'[i]].name = plugins[table[i]].name
  <2>1. ASSUME NEW i \in 1..n PROVE plugins'[table'[i]].name = Builtin[i]
    BY <1>11, <1>13, <1>16
  <2>2. ASSUME NEW i \in (n + 1)..m
        PROVE  plugins'[table'[i]].name = plugins[table[i]].name
    <3>1. table[i] \in 1..k
      BY <1>8 DEF Plugged
    <3> QED
      BY <1>13, <1>16, <3>1
  <2> QED
    BY <2>1, <2>2
<1>21. m # 0 => n <= m /\ \A i \in 1..n : plugins[table[i]].name = Builtin[i]
  <2>1. m # 0 => table # <<>>
    BY <1>3
  <2> QED
    BY <1>1, <1>3, <1>8, <2>1 DEF Plugged
<1>22. ASSUME NEW i \in DOMAIN table', NEW j \in DOMAIN table', i # j
       PROVE  plugins'[table'[i]].name # plugins'[table'[j]].name
  <2>1. CASE i \in 1..n /\ j \in 1..n
    <3>1. Builtin[i] # Builtin[j]
      BY <1>8, <1>22, <2>1, TransportsAssumption
    <3> QED
      BY <1>20, <2>1, <3>1
  <2>2. CASE i \in (n + 1)..m \/ j \in (n + 1)..m
    <3>1. m # 0 /\ i \in DOMAIN table /\ j \in DOMAIN table
      BY <1>8, <1>19, <1>21, <1>22, <2>2
    <3>2. plugins[table[i]].name # plugins[table[j]].name
      BY <1>22, <3>1 DEF Plugged, Transport!LinksAreOwned
    <3> QED
      BY <1>19, <1>20, <1>21, <1>22, <3>1, <3>2
  <2> QED
    BY <1>19, <1>22, <2>1, <2>2
<1>23. \A p \in 1..k : plugins[p].link \in 0..links
  <2>1. \A p \in 1..k : plugins[p] \in PluginOf(links)
    BY <1>8 DEF Plugged
  <2> QED
    BY <2>1 DEF PluginOf
<1>24. \A p \in DOMAIN plugins' : p \in 1..k \/ \E i \in 1..n : p = k + i
  <2>1. ASSUME NEW p \in 1..(k + n), p \notin 1..k PROVE p - k \in 1..n /\ p = k + (p - k)
    BY <2>1
  <2> QED
    BY <1>13, <2>1
<1>25. ASSUME NEW p \in DOMAIN plugins', NEW q \in DOMAIN plugins', p # q, plugins'[p].link # 0
       PROVE  plugins'[p].link # plugins'[q].link
  <2>1. CASE p \in 1..k /\ q \in 1..k
    <3>1. plugins[p].link # 0 => plugins[p].link # plugins[q].link
      BY <1>8, <1>25, <2>1 DEF Plugged, Transport!LinksAreOwned
    <3> QED
      BY <1>13, <1>25, <2>1, <3>1
  <2>2. CASE p \in 1..k /\ q \notin 1..k
    <3>1. PICK i \in 1..n : q = k + i
      BY <1>24, <2>2
    <3>2. plugins'[q].link = 0 \/ plugins'[q].link = links + 1
      BY <1>11, <1>13, <3>1
    <3>3. plugins'[p].link \in 0..links
      BY <1>13, <1>23, <2>2
    <3> QED
      BY <1>8, <1>25, <3>2, <3>3
  <2>3. CASE p \notin 1..k /\ q \in 1..k
    <3>1. PICK i \in 1..n : p = k + i
      BY <1>24, <2>3
    <3>2. plugins'[p].link = links + 1
      BY <1>11, <1>13, <1>25, <3>1
    <3>3. plugins'[q].link \in 0..links
      BY <1>13, <1>23, <2>3
    <3> QED
      BY <1>8, <3>2, <3>3
  <2>4. CASE p \notin 1..k /\ q \notin 1..k
    <3>1. PICK i \in 1..n : p = k + i
      BY <1>24, <2>4
    <3>2. PICK j \in 1..n : q = k + j
      BY <1>24, <2>4
    <3>3. Builtin[i] = "http" /\ plugins'[p].link = links + 1
      BY <1>11, <1>13, <1>25, <3>1
    <3>4. Builtin[j] # "http"
      BY <1>8, <1>25, <3>1, <3>2, <3>3, TransportsAssumption
    <3>5. plugins'[q].link = 0
      BY <1>11, <1>13, <3>2, <3>4
    <3> QED
      BY <1>8, <3>3, <3>5
  <2> QED
    BY <2>1, <2>2, <2>3, <2>4
<1>26. Transport!LinksAreOwned'
  BY <1>22, <1>25 DEF Transport!LinksAreOwned
<1>27. Plugged'
  <2>1. table' # <<>> /\ Len(Builtin) <= Len(table') /\ Len(plugins') <= MaxPlugins
    BY <1>1, <1>9, <1>13, <1>17
  <2>2. \A i \in DOMAIN Builtin : plugins'[table'[i]].name = Builtin[i]
    BY <1>8, <1>20
  <2>3. initialized' \in BOOLEAN
    BY <1>9
  <2> QED
    BY <1>10, <1>13, <1>16, <1>26, <2>1, <2>2, <2>3 DEF Plugged
<1>28. Calling'
  BY <1>9, <1>18, CallsStay
<1>29. Opened'
  <2>1. open' \subseteq 1..links'
    <3>1. CASE "http" \in Transport!Builtins
      <4>1. open' = open \cup {links + 1} /\ links' = links + 1
        BY <1>4, <1>9, <3>1
      <4> QED
        BY <1>8, <4>1, OneMore
    <3>2. CASE "http" \notin Transport!Builtins
      <4>1. open' = open /\ links' = links
        BY <1>4, <1>8, <1>9, <3>2
      <4> QED
        BY <4>1 DEF Opened
    <3> QED
      BY <3>1, <3>2
  <2>2. disturbed' \in BOOLEAN /\ down' \in BOOLEAN
    BY <1>9
  <2> QED
    BY <2>1, <2>2 DEF Opened
<1>30. ASSUME ~disturbed' PROVE Undisturbed'
  <2>1. Undisturbed /\ \A i \in DOMAIN table \cap DOMAIN Builtin : ~Transport!Used(i)
    BY <1>9, <1>30
  <2>2. \A i \in 1..n : m # 0 => i \in DOMAIN table \cap DOMAIN Builtin
    BY <1>8, <1>21
  <2>3. \A i \in 1..n : m # 0 => plugins[table[i]].link = 0
    BY <2>1, <2>2 DEF Transport!Used
  <2>4. ASSUME NEW v \in Users PROVE Transport!Idle(v)
    <3>1. CASE m = 0
      BY <1>8, <2>1, <3>1 DEF Undisturbed, Waiting
    <3>2. CASE m # 0
      <4>1. 1 \in 1..n
        OBVIOUS
      <4> QED
        BY <2>1, <2>2, <3>2, <4>1 DEF Transport!Used
    <3> QED
      BY <3>1, <3>2
  <2>5. \A v \in Users : Transport!Idle(v)'
    BY <1>9, <2>4 DEF Transport!Idle
  <2>6. ASSUME NEW l \in open' PROVE \E i \in DOMAIN table' : plugins'[table'[i]].link = l
    <3>1. CASE l \in open
      <4>1. PICK i \in DOMAIN table : plugins[table[i]].link = l
        BY <2>1, <3>1 DEF Undisturbed, Held
      <4>2. l # 0 /\ m # 0
        BY <1>8, <3>1, <4>1 DEF Opened
      <4>3. i \in (n + 1)..m
        BY <1>8, <2>3, <4>1, <4>2
      <4>4. table'[i] = table[i] /\ table[i] \in 1..k /\ i \in DOMAIN table'
        BY <1>8, <1>16, <1>17, <4>1, <4>3 DEF Plugged
      <4> QED
        BY <1>13, <4>1, <4>4
    <3>2. CASE l \notin open
      <4>1. "http" \in Transport!Builtins /\ l = links + 1
        BY <1>4, <1>9, <2>6, <3>2
      <4>2. PICK i \in 1..n : Builtin[i] = "http"
        BY <1>8, <4>1 DEF Transport!Builtins
      <4>3. table'[i] = k + i /\ plugins'[k + i] = came[i] /\ came[i].link = links + 1
        BY <1>11, <1>13, <1>16, <4>2
      <4>4. i \in DOMAIN table'
        BY <1>17
      <4> QED
        BY <4>1, <4>3, <4>4
    <3> QED
      BY <3>1, <3>2
  <2>7. Held'
    BY <2>6 DEF Held
  <2>8. ~down'
    BY <1>9
  <2> QED
    BY <2>5, <2>7, <2>8 DEF Undisturbed
<1> QED
  BY <1>27, <1>28, <1>29, <1>30

-----------------------------------------------------------------------------
LEMMA TransportInit == Transport!Init => TransportIInv
<1> SUFFICES ASSUME Transport!Init PROVE TransportIInv
  OBVIOUS
<1> USE DEF Transport!Init
<1>1. Plugged
  <2>1. plugins \in Seq(PluginOf(links)) /\ table \in Seq(DOMAIN plugins)
    OBVIOUS
  <2>2. DOMAIN plugins = {} /\ DOMAIN table = {} /\ Len(plugins) = 0
    OBVIOUS
  <2>3. links \in 0..MaxLinks /\ Len(plugins) <= MaxPlugins
    BY <2>2, TransportsAssumption
  <2> QED
    BY <2>1, <2>2, <2>3 DEF Plugged, Transport!LinksAreOwned
<1>2. Calling
  BY RestingFits DEF Calling, Fits, Transport!Resting
<1>3. Opened
  BY DEF Opened
<1>4. Undisturbed
  BY DEF Undisturbed, Held, Transport!Idle, Transport!Resting
<1> QED
  BY <1>1, <1>2, <1>3, <1>4 DEF TransportIInv

LEMMA TransportKept ==
    ASSUME TransportIInv, Transport!Next \/ UNCHANGED transportVars
    PROVE  TransportIInv'
<1>1. CASE Transport!Initialize
  BY <1>1, InitializeStep
<1>2. CASE \E name \in Transport!Builtins \cup {"custom"}, type \in CustomTypes,
              priority \in Priorities : Transport!RegisterPlugin(name, type, priority)
  BY <1>2, RegisterPluginStep
<1>3. CASE \E i \in DOMAIN table : Transport!Switch(i)
  BY <1>3, SwitchStep
<1>4. CASE \E p \in DOMAIN plugins : Transport!PeerCloses(p)
  BY <1>4, PeerStep
<1>5. ASSUME NEW u \in Users,
             \/ \E type \in Transport!Types : Transport!ConnectBegins(u, type)
             \/ Transport!ConnectStdio(u)
             \/ \E i \in DOMAIN table :
                  Transport!Disconnect(u, i) \/ Transport!DisconnectStdio(u, i)
             \/ Transport!Shutdown(u)
             \/ Transport!WalkGoesOn(u)
      PROVE  TransportIInv'
  BY <1>5, ConnectBeginsStep, ConnectStdioStep, DisconnectStep, DisconnectStdioStep,
    ShutdownStep, WalkStep
<1>6. ASSUME NEW u \in Users, Transport!ConnectEnds(u) PROVE TransportIInv'
  <2>1. CASE plugins[call[u].plugin].type = "websocket" /\ Transport!Linked(call[u].plugin)
    BY <1>6, <2>1, WebsocketStep DEF Transport!ConnectEnds
  <2>2. CASE UNCHANGED <<plugins, links, open>>
    BY <1>6, <2>2, ConnectFailsStep DEF Transport!ConnectEnds
  <2> QED
    BY <1>6, <2>1, <2>2 DEF Transport!ConnectEnds
<1>7. ASSUME NEW u \in Users, Transport!ConnectFails(u) PROVE TransportIInv'
  BY <1>7, ConnectFailsStep DEF Transport!ConnectFails
<1>8. ASSUME NEW u \in Users, Transport!CloseEnds(u) \/ Transport!WalkBreaks(u)
      PROVE  TransportIInv'
  <2>1. call[u].pc = "closing"
    BY <1>8 DEF Transport!CloseEnds, Transport!WalkBreaks, Transport!Walking, TransportIInv,
      Calling, Fits, Call, Transport!Resting
  <2> QED
    BY <1>8, <2>1, CloseStep DEF Transport!CloseEnds, Transport!WalkBreaks
<1>9. CASE UNCHANGED transportVars \/ \E l \in stuck : Transport!StuckEnds(l)
  <2>1. UNCHANGED <<initialized, plugins, table, call, links, open, disturbed, down>>
    BY <1>9 DEF transportVars, Transport!StuckEnds
  <2> QED
    BY <2>1 DEF TransportIInv, Plugged, Transport!LinksAreOwned, Calling, Fits, Opened,
      Undisturbed, Held, Waiting, Transport!Idle, Transport!Walking
<1> QED
  BY <1>1, <1>2, <1>3, <1>4, <1>5, <1>6, <1>7, <1>8, <1>9 DEF Transport!Next

(* Who closes gives up what is open at most, and what is opened is new.      *)
LEMMA GivenUpKept ==
    ASSUME TransportIInv, GivenUp, Transport!Next \/ UNCHANGED transportVars
    PROVE  GivenUp'
<1>1. links \in Nat /\ open \subseteq 1..links
  BY TransportsAssumption DEF TransportIInv, Plugged, Opened
<1>2. ASSUME NEW shut, Transport!Closes(shut), UNCHANGED links PROVE GivenUp'
  BY <1>1, <1>2 DEF Transport!Closes, GivenUp
<1>3. ASSUME stuck' \subseteq stuck, UNCHANGED links, open' \subseteq open PROVE GivenUp'
  BY <1>3 DEF GivenUp
<1>4. ASSUME UNCHANGED stuck, links' = links + 1, open' = open \cup {links + 1} PROVE GivenUp'
  BY <1>1, <1>4 DEF GivenUp
<1>5. CASE Transport!Initialize
  <2>1. UNCHANGED <<links, open>> \/ (links' = links + 1 /\ open' = open \cup {links + 1})
    BY <1>5 DEF Transport!Initialize
  <2>2. UNCHANGED stuck
    BY <1>5 DEF Transport!Initialize
  <2> QED
    BY <1>3, <1>4, <2>1, <2>2
<1>6. ASSUME NEW name, NEW type, NEW priority, Transport!RegisterPlugin(name, type, priority)
      PROVE  GivenUp'
  <2>1. UNCHANGED <<links, open>> \/ (links' = links + 1 /\ open' = open \cup {links + 1})
    BY <1>6 DEF Transport!RegisterPlugin
  <2>2. UNCHANGED stuck
    BY <1>6 DEF Transport!RegisterPlugin
  <2> QED
    BY <1>3, <1>4, <2>1, <2>2
<1>7. ASSUME NEW u, Transport!ConnectEnds(u) \/ Transport!ConnectStdio(u) PROVE GivenUp'
  <2>1. UNCHANGED <<links, open>> \/ (links' = links + 1 /\ open' = open \cup {links + 1})
    BY <1>7 DEF Transport!ConnectEnds, Transport!ConnectStdio, Transport!Linked
  <2>2. UNCHANGED stuck
    BY <1>7 DEF Transport!ConnectEnds, Transport!ConnectStdio
  <2> QED
    BY <1>3, <1>4, <2>1, <2>2
<1>8. ASSUME NEW i, NEW u, NEW type, NEW p, NEW l,
             \/ Transport!Switch(i) \/ Transport!PeerCloses(p) \/ Transport!StuckEnds(l)
             \/ Transport!ConnectBegins(u, type) \/ Transport!ConnectFails(u)
             \/ Transport!Disconnect(u, i) \/ UNCHANGED transportVars
      PROVE  GivenUp'
  <2>1. stuck' \subseteq stuck /\ UNCHANGED links /\ open' \subseteq open
    BY <1>8 DEF Transport!Switch, Transport!PeerCloses, Transport!StuckEnds,
      Transport!ConnectBegins, Transport!ConnectFails, Transport!Disconnect, transportVars
  <2> QED
    BY <1>3, <2>1
<1>9. ASSUME NEW u, NEW i, Transport!DisconnectStdio(u, i) PROVE GivenUp'
  BY <1>2, <1>9 DEF Transport!DisconnectStdio
<1>10. ASSUME NEW u, Transport!CloseEnds(u) \/ Transport!WalkBreaks(u) PROVE GivenUp'
  BY <1>2, <1>10 DEF Transport!CloseEnds, Transport!WalkBreaks
<1>11. ASSUME NEW u, Transport!Shutdown(u) \/ Transport!WalkGoesOn(u) PROVE GivenUp'
  BY <1>2, <1>11 DEF Transport!Shutdown, Transport!WalkGoesOn, Transport!Walks
<1> QED
  BY <1>5, <1>6, <1>7, <1>8, <1>9, <1>10, <1>11 DEF Transport!Next

(* The invariant says what the module asks of transports.                    *)
LEMMA TransportSound ==
    TransportIInv /\ GivenUp => Transport!TypeOK /\ Transport!TransportsAreSound
<1> SUFFICES ASSUME TransportIInv, GivenUp PROVE Transport!TypeOK /\ Transport!TransportsAreSound
  OBVIOUS
<1> USE DEF TransportIInv
<1>1. Transport!OpenIsHeld /\ Transport!DownIsClosed
  BY DEF Undisturbed, Held, Transport!OpenIsHeld, Transport!DownIsClosed
<1>2. links \in Nat /\ links \in 0..MaxLinks
  BY TransportsAssumption DEF Plugged
<1>3. ASSUME NEW p \in DOMAIN plugins
      PROVE  /\ plugins[p].type \in Transport!Types /\ plugins[p].link \in 0..MaxLinks
             /\ plugins[p].enabled \in BOOLEAN
  <2>1. plugins[p] \in PluginOf(links)
    BY DEF Plugged
  <2>2. plugins[p].link \in 0..links /\ plugins[p].type \in Transport!Types
    BY <2>1 DEF PluginOf
  <2>3. plugins[p].enabled \in BOOLEAN
    BY <2>1 DEF PluginOf
  <2>4. plugins[p].link \in 0..MaxLinks
    BY <1>2, <2>2, TransportsAssumption
  <2> QED
    BY <2>2, <2>3, <2>4
<1>4. {initialized, disturbed, down} \subseteq BOOLEAN /\ Len(plugins) <= MaxPlugins
  BY DEF Plugged, Opened
<1>5. \A i \in DOMAIN table : table[i] \in DOMAIN plugins
  BY DEF Plugged
<1>6. \A u \in Users : call[u].pc \in {"none", "connecting", "closing"}
  BY DEF Calling, Call
<1>7. Transport!TypeOK
  BY <1>2, <1>3, <1>4, <1>5, <1>6 DEF Opened, GivenUp, Transport!TypeOK
<1> QED
  BY <1>1, <1>7 DEF Plugged, Transport!TransportsAreSound

-----------------------------------------------------------------------------
(* The parts together.                                                       *)

(* A revoked key is not active in memory: what the proofs of Credentials     *)
(* keep.                                                                     *)
CredentialsIInv == TypeOK /\ \A k \in dead : memory[k] # "active"

PlatformIInv ==
    /\ CredentialsIInv /\ OAuthIInv /\ ProxyIInv /\ StreamIInv
    /\ ProgramIInv /\ TransportIInv /\ GivenUp /\ SessionIInv

LEMMA CredentialsInit == Init => CredentialsIInv
BY InitTypeOK DEF Init, CredentialsIInv

LEMMA CredentialsKept ==
    ASSUME CredentialsIInv, Next \/ UNCHANGED vars
    PROVE  CredentialsIInv'
<1>1. TypeOK'
  BY NextTypeOK DEF CredentialsIInv
<1>2. \A k \in dead' : memory'[k] # "active"
  <2> USE DEF CredentialsIInv, TypeOK
  <2>1. CASE Restart
    BY <2>1 DEF Restart
  <2>2. ASSUME NEW k \in Keys, RevokeApiKey(k) \/ KeyExpires(k)
        PROVE  \A j \in dead' : memory'[j] # "active"
    BY <2>2 DEF RevokeApiKey, KeyExpires
  <2>3. ASSUME NEW k \in Keys, NEW b \in BOOLEAN,
               GenerateApiKey(k, b) \/ SaveApiKeyToDb(k, b)
        PROVE  \A j \in dead' : memory'[j] # "active"
    BY <2>3 DEF GenerateApiKey, SaveApiKeyToDb
  <2>4. CASE UNCHANGED keyVars
    BY <2>4 DEF keyVars
  <2> QED
    BY <2>1, <2>2, <2>3, <2>4
    DEF Next, vars, Tick, Login, ApiLogin, CreateUser, DeactivateUser, UpdateUser,
        RevokeToken, ApiRefresh, ApiLogout
<1> QED
  BY <1>1, <1>2 DEF CredentialsIInv

LEMMA PlatformStarts == PlatformInit => PlatformIInv
<1>1. Transport!Init => GivenUp
  BY DEF Transport!Init, GivenUp
<1> QED
  BY <1>1, CredentialsInit, OAuthInit, ProxyInit, StreamInit, ProgramInit, TransportInit,
    SessionInit
  DEF PlatformInit, PlatformIInv

LEMMA PlatformStep == PlatformIInv /\ [PlatformNext]_platformVars => PlatformIInv'
<1> SUFFICES ASSUME PlatformIInv, [PlatformNext]_platformVars PROVE PlatformIInv'
  OBVIOUS
<1>1. /\ Next \/ UNCHANGED vars
      /\ OAuth!Next \/ UNCHANGED oauthVars
      /\ Proxy!Next \/ UNCHANGED proxyVars
      /\ Stream!Next \/ UNCHANGED streamVars
      /\ Program!Next \/ UNCHANGED programVars
      /\ Transport!Next \/ UNCHANGED transportVars
      /\ Session!Next \/ UNCHANGED sessionVars
  BY DEF PlatformNext, platformVars, CredentialsMove, OAuthMoves, ProxyMoves, StreamMoves,
    ProgramMoves, TransportMoves, SessionMoves
<1> QED
  BY <1>1, CredentialsKept, OAuthKept, ProxyKept, StreamKept, ProgramKept, TransportKept,
    GivenUpKept, SessionKept
  DEF PlatformIInv

(* All parts keep their invariants together, whoever the subject is.         *)
THEOREM PlatformInvariant == PlatformSpec => []PlatformIInv
BY PlatformStarts, PlatformStep, PTL DEF PlatformSpec

(* Types, of all parts.                                                      *)
THEOREM PlatformTypes == PlatformSpec => []TypesOK
<1>1. PlatformIInv => TypesOK
  BY TransportSound
  DEF PlatformIInv, CredentialsIInv, OAuthIInv, ProxyIInv, StreamIInv, ProgramIInv, SessionIInv,
    SessionTypes, TypesOK
<1> QED
  BY <1>1, PlatformInvariant, PTL

(* Access: a revoked key is refused in every process that follows, a state   *)
(* of OAuth serves one callback, and a second row of tokens for a user needs *)
(* two callbacks that overlap (auth/api_keys.py, auth/oauth.py).             *)
THEOREM AccessKept == PlatformSpec => []AccessIsSound
<1>1. PlatformIInv => AccessIsSound
  BY OAuthSound
  DEF PlatformIInv, CredentialsIInv, AccessIsSound, RevokedKeyRefused, ValidateApiKey, LookUpInDb
<1> QED
  BY <1>1, PlatformInvariant, PTL

(* Unless two registrations overlapped on its id, what the proxy lists can be *)
(* called where it says, and no id comes back after its server was           *)
(* unregistered (proxy/manager.py, proxy/wrapper.py).                        *)
THEOREM ListingsReal == PlatformSpec => []ListedServersAreReal
<1>1. PlatformIInv => ListedServersAreReal
  BY DEF PlatformIInv, ProxyIInv, ListedServersAreReal
<1> QED
  BY <1>1, PlatformInvariant, PTL

(* A clean shutdown has stopped everything it reaches; the books of streams  *)
(* agree and chunks stay in order; what a transport has open, and nobody has *)
(* failed to close, is held by a plugin that can close it, and is closed     *)
(* after shutdown; a session answers its lines in order.                     *)
THEOREM BooksClosed == PlatformSpec => []BooksAreClosed
<1>1. PlatformIInv => BooksAreClosed
  BY ProgramSound, TransportSound, SessionSound DEF PlatformIInv, StreamIInv, BooksAreClosed
<1> QED
  BY <1>1, PlatformInvariant, PTL
=============================================================================
