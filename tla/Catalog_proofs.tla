---------------------------- MODULE Catalog_proofs ----------------------------
(***************************************************************************)
(* What holds of the catalogue of tools and of what decides who may use     *)
(* them (MCCatalog), for any number of tools, users, policies, callers and  *)
(* requests: each part has an inductive invariant of its own, and together  *)
(* they are the invariant of the composition.                               *)
(***************************************************************************)
EXTENDS MCCatalog, FiniteSetTheorems, SequenceTheorems, WellFoundedInduction, TLAPS
-----------------------------------------------------------------------------
(* Listing and searching in the registry, tools/registry.py.                  *)

(* What a request has found so far is readable too, not only what it answers *)
(* or leaves in the cache.                                                   *)
FoundReadable == \A r \in Requests : req[r].got \subseteq Readable[req[r].user]

(* So is what is cached for a user.                                          *)
CachedReadable == \A u \in Users : cache[u].tools \subseteq Readable[u]

(* The inductive invariant of the registry.                                  *)
IInv == TypeOK /\ FoundReadable /\ CachedReadable

(* The record of a request that has ended.                                   *)
LEMMA IdleRequest ==
    /\ Idle \in Request /\ Idle.phase = "idle" /\ Idle.got = {} /\ Idle.todo = {}
    /\ Idle.user \in Users
  BY ReadableAssumption DEF Idle, Request, Phases

(* The inductive invariant holds initially.                                  *)
LEMMA InitIInv == Init => IInv
  BY IdleRequest, RestartsAssumption
  DEF Init, IInv, TypeOK, FoundReadable, CachedReadable, None

(* A request that is replaced by a sound one leaves the requests sound.      *)
LEMMA Replaced ==
    ASSUME IInv, NEW r \in Requests, NEW new \in Request,
           new.got \subseteq Readable[new.user],
           new.phase \in {"embedding", "clearing"} => new.todo \subseteq tools',
           tools \subseteq tools',
           req' = [req EXCEPT ![r] = new]
    PROVE  /\ req' \in [Requests -> Request]
           /\ FoundReadable'
           /\ \A q \in Requests :
                  req'[q].phase \in {"embedding", "clearing"} =>
                      req'[q].todo \subseteq tools'
  BY DEF IInv, TypeOK, FoundReadable

(* The sets of tools that are handed to the policy engine end in a sound     *)
(* request.                                                                  *)
LEMMA CheckKeeps ==
    ASSUME IInv, NEW r \in Requests, NEW S \in SUBSET Tools,
           NEW phase \in {"listing", "ranking", "scanning"},
           Check(r, phase, S), UNCHANGED tools
    PROVE  \E new \in Request :
               /\ new.got \subseteq Readable[new.user]
               /\ new.phase \notin {"embedding", "clearing"}
               /\ req' = [req EXCEPT ![r] = new]
<1> DEFINE keys  == IF phase = "ranking" THEN {} ELSE tools
           waiting == [req[r] EXCEPT !.phase = phase, !.todo = S, !.seen = keys]
           told  == [req[r] EXCEPT !.phase = After(phase),
                                   !.got = S \cap Readable[req[r].user]]
<1>1. req[r] \in Request /\ tools \subseteq Tools
  BY DEF IInv, TypeOK
<1>2. waiting \in Request /\ told \in Request
  BY <1>1 DEF Request, Phases, After
<1>3. waiting.got \subseteq Readable[waiting.user]
      /\ told.got \subseteq Readable[told.user]
  BY <1>1 DEF Request, IInv, FoundReadable
<1>4. waiting.phase \notin {"embedding", "clearing"}
      /\ told.phase \notin {"embedding", "clearing"}
  BY <1>1 DEF Request, After
<1>5. req' = [req EXCEPT ![r] = waiting] \/ req' = [req EXCEPT ![r] = told]
  BY <1>1 DEF Check
<1> QED
  BY <1>2, <1>3, <1>4, <1>5

(* A step that leaves the request out of a registration, and keeps what it   *)
(* found readable, is all that most actions do.                              *)
LEMMA Served ==
    ASSUME IInv, NEW r \in Requests, NEW new \in Request,
           new.got \subseteq Readable[new.user],
           new.phase \in {"embedding", "clearing"} => new.todo \subseteq tools,
           req' = [req EXCEPT ![r] = new],
           UNCHANGED <<engine, tools, restarts>>,
           index' \in SUBSET Tools,
           cache' \in [Users -> [cached : BOOLEAN, tools : SUBSET Tools]],
           CachedReadable'
    PROVE  IInv'
<1>1. /\ req' \in [Requests -> Request]
      /\ FoundReadable'
      /\ \A q \in Requests :
             req'[q].phase \in {"embedding", "clearing"} =>
                 req'[q].todo \subseteq tools'
  BY Replaced
<1> QED
  BY <1>1 DEF IInv, TypeOK

(* The steps of a request under way keep the invariant.                      *)
LEMMA ProceedIInv ==
    ASSUME IInv, NEW r \in Requests, Proceed(r)
    PROVE  IInv'
<1>1. /\ req[r] \in Request /\ req[r].got \subseteq Readable[req[r].user]
      /\ req[r].todo \subseteq Tools /\ req[r].user \in Users
      /\ req[r].got \subseteq Tools
      /\ index \subseteq Tools /\ tools \subseteq Tools
      /\ cache \in [Users -> [cached : BOOLEAN, tools : SUBSET Tools]]
  BY DEF IInv, TypeOK, FoundReadable, Request
<1>2. UNCHANGED cache => CachedReadable'
  BY DEF IInv, CachedReadable
<1>3. \A phase \in Phases :
         /\ [req[r] EXCEPT !.phase = phase] \in Request
         /\ [req[r] EXCEPT !.phase = phase].phase = phase
         /\ [req[r] EXCEPT !.phase = phase].user = req[r].user
         /\ [req[r] EXCEPT !.phase = phase].todo = req[r].todo
         /\ [req[r] EXCEPT !.phase = phase].got = req[r].got
  BY <1>1 DEF Request
<1>4. CASE Return(r) /\ UNCHANGED <<engine, tools, index, cache, restarts>>
  BY <1>1, <1>2, <1>4, IdleRequest, Served, Zenon DEF Return
<1>5. CASE StoreEmbedding(r)
  <2>1. req[r].todo \subseteq tools
    BY <1>5 DEF IInv, TypeOK, StoreEmbedding, At
  <2>2. index' \in SUBSET Tools
    BY <1>1, <1>5 DEF StoreEmbedding
  <2>3. req' = [req EXCEPT ![r] = [req[r] EXCEPT !.phase = "clearing"]]
    BY <1>5 DEF StoreEmbedding, Goto
  <2> QED
    BY <1>1, <1>2, <1>3, <1>5, <2>1, <2>2, <2>3, Served
    DEF StoreEmbedding, Phases
<1>6. CASE CacheInvalidate(r)
  <2>1. /\ cache' \in [Users -> [cached : BOOLEAN, tools : SUBSET Tools]]
        /\ CachedReadable'
    BY <1>1, <1>6 DEF CacheInvalidate, None, IInv, CachedReadable
  <2> QED
    BY <1>1, <1>6, <2>1, IdleRequest, Served DEF CacheInvalidate, Return
<1>7. CASE CacheHit(r)
  <2> DEFINE new == [req[r] EXCEPT !.phase = "listed",
                                   !.got = cache[Key(r)].tools]
  <2>1. /\ new \in Request /\ new.phase = "listed" /\ new.user = req[r].user
        /\ new.got = cache[req[r].user].tools
    BY <1>1 DEF Request, Phases, Key
  <2>2. new.got \subseteq Readable[new.user]
    BY <1>1, <2>1 DEF IInv, CachedReadable
  <2>3. req' = [req EXCEPT ![r] = new]
    BY <1>7 DEF CacheHit
  <2> QED
    BY <1>1, <1>2, <1>7, <2>1, <2>2, <2>3, Served DEF CacheHit
<1>8. ASSUME NEW S \in SUBSET Tools, NEW phase \in {"listing", "ranking", "scanning"},
             Check(r, phase, S),
             UNCHANGED <<engine, tools, index, cache, restarts>>
      PROVE  IInv'
  <2>1. PICK new \in Request :
            /\ new.got \subseteq Readable[new.user]
            /\ new.phase \notin {"embedding", "clearing"}
            /\ req' = [req EXCEPT ![r] = new]
    BY <1>8, CheckKeeps
  <2> QED
    BY <1>1, <1>2, <1>8, <2>1, Served
<1>9. CASE CacheMiss(r) \/ Ranked(r) \/ Fallback(r)
  BY <1>1, <1>8, <1>9 DEF CacheMiss, Ranked, Fallback, Listing
<1>10. CASE CacheSet(r)
  <2>1. /\ cache' \in [Users -> [cached : BOOLEAN, tools : SUBSET Tools]]
        /\ CachedReadable'
    <3> DEFINE u == req[r].user
               entry == [cached |-> TRUE, tools |-> req[r].got]
    <3>1. u \in Users /\ entry \in [cached : BOOLEAN, tools : SUBSET Tools]
          /\ entry.tools \subseteq Readable[u]
      BY <1>1
    <3>2. cache' = [cache EXCEPT ![u] = entry] \/ UNCHANGED cache
      BY <1>10 DEF CacheSet, Key
    <3> HIDE DEF u, entry
    <3> QED
      BY <1>1, <3>1, <3>2 DEF IInv, CachedReadable
  <2>2. req' = [req EXCEPT ![r] = [req[r] EXCEPT !.phase = "listed"]]
    BY <1>10 DEF CacheSet, Goto
  <2> QED
    BY <1>1, <1>3, <1>10, <2>1, <2>2, Served DEF CacheSet, Phases
<1>11. CASE CheckAccess(r) /\ ~Return(r)
  <2>1. PICK t \in req[r].todo, verdict \in BOOLEAN :
            /\ verdict => t \in Readable[req[r].user]
            /\ LET rest == req[r].todo \ {t}
                   got  == IF verdict THEN req[r].got \cup {t} ELSE req[r].got
               IN  \/ req' = [req EXCEPT ![r].todo = rest, ![r].got = got]
                   \/ req' = [req EXCEPT ![r] =
                          [Idle EXCEPT !.phase = After(req[r].phase),
                                       !.user = req[r].user, !.got = got]]
    BY <1>11 DEF CheckAccess, Verdicts
  <2> DEFINE got == IF verdict THEN req[r].got \cup {t} ELSE req[r].got
  <2>2. /\ got \subseteq Readable[req[r].user] /\ got \subseteq Tools
        /\ \/ req' = [req EXCEPT ![r] =
                  [req[r] EXCEPT !.todo = @ \ {t}, !.got = got]]
           \/ req' = [req EXCEPT ![r] =
                  [Idle EXCEPT !.phase = After(req[r].phase),
                               !.user = req[r].user, !.got = got]]
    BY <1>1, <2>1 DEF IInv, TypeOK
  <2> HIDE DEF got
  <2> DEFINE going == [req[r] EXCEPT !.todo = @ \ {t}, !.got = got]
             done  == [Idle EXCEPT !.phase = After(req[r].phase),
                                   !.user = req[r].user, !.got = got]
  <2>3. /\ going \in Request /\ going.user = req[r].user /\ going.got = got
        /\ going.phase = req[r].phase
    BY <1>1, <2>2 DEF Request
  <2>4. /\ done \in Request /\ done.user = req[r].user /\ done.got = got
        /\ done.phase \notin {"embedding", "clearing"}
    BY <1>1, <2>2, IdleRequest DEF Request, Phases, After
  <2>5. req[r].phase \notin {"embedding", "clearing"}
    BY <1>11 DEF CheckAccess
  <2> QED
    BY <1>1, <1>2, <1>11, <2>2, <2>3, <2>4, <2>5, Served DEF CheckAccess
<1> QED
  BY <1>4, <1>5, <1>6, <1>7, <1>9, <1>10, <1>11
  DEF Proceed, StoreFails, Answer, CheckAccess

(* Every step keeps the invariant.                                           *)
LEMMA NextIInv == IInv /\ [Next]_vars => IInv'
<1> SUFFICES ASSUME IInv, [Next]_vars PROVE IInv'
  OBVIOUS
<1>1. CASE \E r \in Requests : Proceed(r)
  BY <1>1, ProceedIInv
<1>2. ASSUME NEW r \in Requests, NEW t \in Tools, RegisterTool(r, t)
      PROVE  IInv'
  <2> DEFINE new == [Idle EXCEPT !.phase = "embedding", !.todo = {t}]
  <2>1. /\ new \in Request /\ new.got = {} /\ new.todo = {t}
        /\ req' = [req EXCEPT ![r] = new]
    BY <1>2, IdleRequest DEF Request, Phases, RegisterTool
  <2>2. tools' = tools \cup {t}
    BY <1>2 DEF RegisterTool, Entered
  <2>3. /\ req' \in [Requests -> Request]
        /\ FoundReadable'
        /\ \A q \in Requests :
               req'[q].phase \in {"embedding", "clearing"} =>
                   req'[q].todo \subseteq tools'
    BY <2>1, <2>2, Replaced
  <2> QED
    BY <1>2, <2>2, <2>3 DEF IInv, TypeOK, CachedReadable, RegisterTool
<1>3. ASSUME NEW r \in Requests, NEW u \in Users, ListTools(r, u) \/ SearchTools(r, u)
      PROVE  IInv'
  <2>1. PICK phase \in {"lookup", "query"} :
            req' = [req EXCEPT ![r] = [Idle EXCEPT !.phase = phase, !.user = u]]
    BY <1>3 DEF ListTools, SearchTools
  <2> DEFINE new == [Idle EXCEPT !.phase = phase, !.user = u]
  <2>2. new \in Request /\ new.got = {} /\ new.phase = phase
    BY IdleRequest DEF Request, Phases
  <2>3. UNCHANGED <<engine, tools, index, cache, restarts>>
    BY <1>3 DEF ListTools, SearchTools
  <2> QED
    BY <2>1, <2>2, <2>3, Served DEF IInv, TypeOK, CachedReadable
<1>4. ASSUME NEW u \in Users, Expire(u) PROVE IInv'
  BY <1>4 DEF Expire, None, IInv, TypeOK, FoundReadable, CachedReadable
<1>5. CASE Restart
  BY <1>5, IdleRequest, RestartsAssumption
  DEF Restart, None, IInv, TypeOK, FoundReadable, CachedReadable
<1>6. CASE UNCHANGED vars
  BY <1>6 DEF vars, IInv, TypeOK, FoundReadable, CachedReadable
<1> QED
  BY <1>1, <1>2, <1>3, <1>4, <1>5, <1>6 DEF Next

(* The registry keeps its inductive invariant.                               *)
THEOREM RegistryInvariant == Spec => []IInv
  BY InitIInv, NextIInv, PTL DEF Spec

(* Every variable has its type, and a tool whose registration is under way   *)
(* is in the dictionary (register_tool enters it before its first await).    *)
THEOREM TypeCorrect == Spec => []TypeOK
  BY RegistryInvariant, PTL DEF IInv

(* Neither list_tools, from the cache or not, nor search_tools, with or      *)
(* without the vector index, answers a tool that the policy does not let the *)
(* user read.                                                                *)
THEOREM AnswersReadable == Spec => []OnlyReadable
<1>1. IInv => OnlyReadable
  BY DEF IInv, FoundReadable, CachedReadable, OnlyReadable
<1> QED
  BY <1>1, RegistryInvariant, PTL
-----------------------------------------------------------------------------
(* The checks of access, security/policies.py.                               *)

(* Counting goes on: what was counted before a time stays.  Nothing was       *)
(* counted after the window has run out; what the window counts was counted   *)
(* since its start, and the minute before its start saw no more than a limit. *)
CountsGoOn ==
    /\ counted \in [Checks!Times -> Nat]
    /\ \A s, t \in Checks!Times : s <= t => counted[s] <= counted[t]
    /\ \A t \in Checks!Times : clock < t => counted[t] = counted[clock + 1]

WindowCounts ==
    LET start == counter.start
    IN  /\ start > clock => start = MaxTime + 1 /\ counted[clock + 1] = 0
        /\ start <= clock =>
            /\ counted[clock + 1] - counted[start] <= counter.count
            /\ \A t \in Checks!Times :
                start + Minute < t => counted[t] = counted[clock + 1]
            /\ \A a \in 0..start : start <= a + Minute =>
                \E limit \in Limits : counted[start] - counted[a] <= limit

(* The inductive invariant of the checks.                                    *)
ChecksIInv ==
    /\ Checks!TypeOK /\ CountsGoOn /\ WindowCounts
    /\ Checks!MinuteIsBounded /\ Checks!BarredStaysOut

(* It holds before the first check.                                          *)
LEMMA ChecksInit == Checks!Init => ChecksIInv
<1> SUFFICES ASSUME Checks!Init PROVE ChecksIInv
  OBVIOUS
<1> USE ChecksAssumption DEF Checks!Init, Checks!Times
<1>1. PICK limit \in Limits : TRUE
  OBVIOUS
<1>2. Checks!TypeOK
  BY <1>1 DEF Checks!TypeOK
<1>3. CountsGoOn /\ WindowCounts
  BY DEF CountsGoOn, WindowCounts
<1>4. Checks!MinuteIsBounded /\ Checks!BarredStaysOut
  BY <1>1 DEF Checks!MinuteIsBounded, Checks!BarredStaysOut
<1> QED
  BY <1>2, <1>3, <1>4 DEF ChecksIInv

(* A minute meets two windows: the one at hand, and the one before.          *)
LEMMA CountKeeps ==
    ASSUME ChecksIInv, NEW limit \in Limits, Checks!Passes(limit), UNCHANGED clock
    PROVE  /\ counter' \in [count : Nat, start : Checks!Times]
           /\ \E l \in Limits : counter'.count <= l
           /\ CountsGoOn' /\ WindowCounts' /\ Checks!MinuteIsBounded'
<1> USE ChecksAssumption DEF Checks!Times
<1>1. /\ clock \in 0..MaxTime /\ counter \in [count : Nat, start : Checks!Times]
      /\ CountsGoOn /\ WindowCounts /\ Checks!MinuteIsBounded
      /\ \E l \in Limits : counter.count <= l
  BY DEF ChecksIInv, Checks!TypeOK
<1>2. CASE UNCHANGED <<counter, counted>>
  BY <1>1, <1>2 DEF CountsGoOn, WindowCounts, Checks!MinuteIsBounded
<1>3. CASE Checks!Current.count < limit /\ Checks!Counted
  <2> DEFINE fresh == counter.start > clock \/ counter.start + Minute < clock
  <2>1. PICK start, count :
            /\ start = IF fresh THEN clock ELSE counter.start
            /\ count = IF fresh THEN 1 ELSE counter.count + 1
    OBVIOUS
  <2>2. counter'.start = start /\ counter'.count = count
        /\ counter' \in [count : Nat, start : Checks!Times]
    <3>1. PICK rec : rec = Checks!Current
      OBVIOUS
    <3>2. /\ rec \in [count : Nat, start : Checks!Times]
          /\ rec.start = start /\ rec.count + 1 = count
      BY <1>1, <2>1, <3>1 DEF Checks!Current
    <3>3. counter' = [rec EXCEPT !.count = @ + 1]
      BY <1>3, <3>1 DEF Checks!Counted
    <3> QED
      BY <3>2, <3>3
  <2>3. /\ start \in 0..clock /\ count \in Nat /\ count <= limit /\ clock <= start + Minute
    BY <1>1, <1>3, <2>1 DEF Checks!Current
  <2>5. counted' = [t \in Checks!Times |-> counted[t] + IF t > clock THEN 1 ELSE 0]
    BY <1>3 DEF Checks!Counted
  <2>6. counted \in [Checks!Times -> Nat] /\ clock + 1 \in Checks!Times /\ start \in Checks!Times
    BY <1>1, <2>3 DEF CountsGoOn
  <2>7. CountsGoOn'
    BY <1>1, <2>5, <2>6 DEF CountsGoOn
  (* what the minute before the window saw                                   *)
  <2>8. ASSUME NEW a \in 0..start, start <= a + Minute
        PROVE  \E l \in Limits : counted[start] - counted[a] <= l
    <3>1. CASE ~fresh
      BY <1>1, <2>1, <2>3, <2>8, <3>1 DEF WindowCounts
    <3>2. CASE fresh /\ counter.start > clock
      <4>1. start = clock /\ counted[clock + 1] = 0
        BY <1>1, <2>1, <3>2 DEF WindowCounts
      <4>2. counted[start] = 0 /\ counted[a] = 0
        BY <2>3, <2>6, <4>1, <1>1 DEF CountsGoOn
      <4> QED
        BY <4>2
    <3>3. CASE fresh /\ counter.start <= clock
      <4>1. start = clock /\ counter.start + Minute < clock /\ counter.start < a
        BY <1>1, <2>1, <2>8, <3>3
      <4>2. counted[clock + 1] - counted[counter.start] <= counter.count
        BY <1>1, <3>3 DEF WindowCounts
      <4>3. counted[clock] <= counted[clock + 1] /\ counted[counter.start] <= counted[a]
        BY <1>1, <2>6, <4>1 DEF CountsGoOn
      <4> QED
        BY <1>1, <2>6, <4>1, <4>2, <4>3
    <3> QED
      BY <1>1, <3>1, <3>2, <3>3
  <2>9. counted[clock + 1] - counted[start] <= count - 1
    <3>1. CASE ~fresh
      BY <1>1, <2>1, <3>1 DEF WindowCounts
    <3>2. CASE fresh
      <4>1. start = clock /\ count = 1
        BY <2>1, <3>2
      <4>2. CASE counter.start > clock
        <5>1. counted[clock + 1] = 0
          BY <1>1, <4>2 DEF WindowCounts
        <5> QED
          BY <2>6, <4>1, <5>1
      <4>3. CASE counter.start <= clock
        <5>1. counter.start + Minute < clock
          BY <1>1, <3>2, <4>3
        <5>2. counted[clock] = counted[clock + 1]
          BY <1>1, <4>3, <5>1 DEF WindowCounts
        <5> QED
          BY <2>6, <4>1, <5>2
      <4> QED
        BY <1>1, <2>6, <4>2, <4>3
    <3> QED
      BY <3>1, <3>2
  <2>10. WindowCounts'
    <3>1. /\ counted'[start] = counted[start] /\ counted'[clock + 1] = counted[clock + 1] + 1
          /\ \A a \in 0..start : counted'[a] = counted[a]
      BY <1>1, <2>3, <2>5, <2>6
    <3>2. counted'[clock + 1] - counted'[start] <= count
      BY <2>3, <2>6, <2>9, <3>1
    <3>3. \A t \in Checks!Times : start + Minute < t => counted'[t] = counted'[clock + 1]
      BY <1>1, <2>3, <2>5, <2>6 DEF CountsGoOn
    <3>4. \A a \in 0..start : start <= a + Minute =>
            \E l \in Limits : counted'[start] - counted'[a] <= l
      BY <2>8, <3>1
    <3>5. clock' = clock /\ counter'.start = start /\ counter'.count = count /\ ~(start > clock)
      BY <1>1, <2>2, <2>3
    <3> HIDE DEF fresh
    <3> QED
      BY <3>2, <3>3, <3>4, <3>5 DEF WindowCounts
  <2>11. Checks!MinuteIsBounded'
    <3> SUFFICES ASSUME NEW a \in Checks!Times, NEW b \in Checks!Times, a <= b, b <= a + Minute + 1
                 PROVE  \E l \in Limits : counted'[b] - counted'[a] <= 2 * l
      BY DEF Checks!MinuteIsBounded
    <3>1. CASE b <= clock \/ a > clock
      <4>1. counted'[b] - counted'[a] = counted[b] - counted[a]
        BY <1>1, <2>5, <2>6, <3>1
      <4> QED
        BY <1>1, <4>1 DEF Checks!MinuteIsBounded
    <3>2. CASE b > clock /\ a <= clock
      <4>1. counted'[b] - counted'[a] = counted[clock + 1] + 1 - counted[a]
        BY <1>1, <2>5, <2>6, <3>2 DEF CountsGoOn
      <4>2. CASE start <= a
        <5>1. counted[start] <= counted[a]
          BY <1>1, <2>6, <4>2 DEF CountsGoOn
        <5>2. limit \in Nat /\ counted[a] \in Nat /\ counted[start] \in Nat /\ counted[clock + 1] \in Nat
          BY <2>6
        <5>3. counted[clock + 1] + 1 - counted[a] <= limit
          BY <2>3, <2>9, <5>1, <5>2
        <5>4. counted'[b] - counted'[a] <= 2 * limit
          BY <4>1, <5>2, <5>3
        <5> QED
          BY <5>4
      <4>3. CASE a < start
        <5>1. a \in 0..start /\ start <= a + Minute
          BY <1>1, <2>3, <3>2, <4>3
        <5>2. PICK l \in Limits : counted[start] - counted[a] <= l
          BY <2>8, <5>1
        <5>3. PICK m \in Limits : l <= m /\ limit <= m
          OBVIOUS
        <5>4. counted'[b] - counted'[a] <= l + limit
          <6>1. /\ limit \in Nat /\ l \in Nat
                /\ counted[a] \in Nat /\ counted[start] \in Nat /\ counted[clock + 1] \in Nat
            BY <2>6
          <6> QED
            BY <2>3, <2>9, <4>1, <5>2, <6>1
        <5>5. l \in Nat /\ limit \in Nat /\ m \in Nat
          OBVIOUS
        <5>6. counted'[b] - counted'[a] \in Int
          BY <2>6, <4>1
        <5>7. counted'[b] - counted'[a] <= 2 * m
          BY <5>3, <5>4, <5>5, <5>6
        <5> QED
          BY <5>7
      <4> QED
        BY <1>1, <2>3, <4>2, <4>3
    <3> QED
      BY <1>1, <3>1, <3>2
  <2> QED
    BY <2>2, <2>3, <2>7, <2>10, <2>11
<1> QED
  BY <1>2, <1>3 DEF Checks!Passes

(* What became of a check.                                                   *)
Checked == [is : {"new", "asking", "granted", "denied"}, barred : BOOLEAN]

(* What becomes of one check, when a barred one is new or denied.            *)
LEMMA VerdictKeeps ==
    ASSUME ChecksIInv, NEW k \in Checkers, NEW v \in Checked,
           v.barred => v.is \in {"new", "denied"}, check' = [check EXCEPT ![k] = v]
    PROVE  /\ check' \in [Checkers -> Checked]
           /\ Checks!BarredStaysOut'
  BY DEF ChecksIInv, Checks!TypeOK, Checks!BarredStaysOut, Checked

(* A verdict: granted only to whoever is not barred.                         *)
LEMMA DecidedKeeps ==
    ASSUME ChecksIInv, NEW k \in Checkers, NEW v \in {"granted", "denied"},
           Checks!Decided(k, v), v = "granted" => ~check[k].barred
    PROVE  /\ check' \in [Checkers -> Checked]
           /\ Checks!BarredStaysOut'
<1> DEFINE new == [check[k] EXCEPT !.is = v]
<1>1. check[k] \in Checked
  BY DEF ChecksIInv, Checks!TypeOK, Checked
<1>2. new \in Checked /\ new.is = v /\ new.barred = check[k].barred
  BY <1>1 DEF Checked
<1>3. check' = [check EXCEPT ![k] = new]
  BY DEF Checks!Decided
<1> HIDE DEF new
<1> QED
  BY <1>2, <1>3, VerdictKeeps

(* Every step of the engine keeps the invariant.                             *)
LEMMA ChecksKept ==
    ASSUME ChecksIInv, Checks!Next \/ UNCHANGED checkVars
    PROVE  ChecksIInv'
<1>1. /\ clock \in 0..MaxTime /\ counter \in [count : Nat, start : Checks!Times]
      /\ decider \in {"internal", "opa"} /\ whitelist \subseteq Addresses
      /\ blacklist \subseteq Addresses /\ check \in [Checkers -> Checked]
      /\ CountsGoOn /\ WindowCounts /\ Checks!MinuteIsBounded /\ Checks!BarredStaysOut
      /\ \E l \in Limits : counter.count <= l
  BY DEF ChecksIInv, Checks!TypeOK, Checked
<1>2. CASE UNCHANGED <<decider, whitelist, blacklist, counter, counted, clock>>
      /\ check' \in [Checkers -> Checked] /\ Checks!BarredStaysOut'
  <2>1. CountsGoOn' /\ WindowCounts' /\ Checks!MinuteIsBounded'
    BY <1>1, <1>2 DEF CountsGoOn, WindowCounts, Checks!MinuteIsBounded
  <2> QED
    BY <1>1, <1>2, <2>1 DEF ChecksIInv, Checks!TypeOK, Checked
<1>3. CASE UNCHANGED checkVars
  <2>1. Checks!BarredStaysOut'
    BY <1>1, <1>3 DEF Checks!BarredStaysOut, checkVars
  <2> QED
    BY <1>1, <1>2, <1>3, <2>1 DEF checkVars
<1>4. CASE Checks!Tick
  <2> USE <1>1, <1>4, ChecksAssumption DEF Checks!Tick, Checks!Times
  <2>1. CountsGoOn'
    BY DEF CountsGoOn
  <2>2. counted[clock + 2] = counted[clock + 1]
    BY DEF CountsGoOn
  <2>3. WindowCounts'
    BY <2>2 DEF WindowCounts
  <2>4. Checks!MinuteIsBounded' /\ Checks!BarredStaysOut'
    BY DEF Checks!MinuteIsBounded, Checks!BarredStaysOut
  <2> QED
    BY <2>1, <2>3, <2>4 DEF ChecksIInv, Checks!TypeOK, Checked
<1>5. CASE Checks!ListsChange
  <2>1. CountsGoOn' /\ WindowCounts' /\ Checks!MinuteIsBounded' /\ Checks!BarredStaysOut'
    BY <1>1, <1>5 DEF CountsGoOn, WindowCounts, Checks!MinuteIsBounded, Checks!BarredStaysOut,
      Checks!ListsChange
  <2>2. whitelist' \subseteq Addresses /\ blacklist' \subseteq Addresses
    BY <1>1, <1>5 DEF Checks!ListsChange
  <2> QED
    BY <1>1, <1>5, <2>1, <2>2 DEF ChecksIInv, Checks!TypeOK, Checked, Checks!ListsChange
<1>6. ASSUME NEW k \in Checkers, NEW a \in Addresses, Checks!Refused(k, a)
      PROVE  ChecksIInv'
  <2> DEFINE v == [is |-> "denied", barred |-> a \in blacklist]
  <2>1. (a \in blacklist) \in BOOLEAN
    OBVIOUS
  <2>2. v \in Checked /\ v.is = "denied"
    BY <2>1 DEF Checked
  <2>3. check' = [check EXCEPT ![k] = v]
    BY <1>6 DEF Checks!Refused
  <2> HIDE DEF v
  <2>4. check' \in [Checkers -> Checked] /\ Checks!BarredStaysOut'
    BY <2>2, <2>3, VerdictKeeps
  <2> QED
    BY <1>2, <1>6, <2>4 DEF Checks!Refused
<1>7. ASSUME NEW k \in Checkers, NEW limit \in Limits, Checks!Passes(limit),
             UNCHANGED <<decider, whitelist, blacklist, clock>>,
             check' \in [Checkers -> Checked], Checks!BarredStaysOut'
      PROVE  ChecksIInv'
  BY <1>1, <1>7, CountKeeps DEF ChecksIInv, Checks!TypeOK, Checked
<1>8. ASSUME NEW k \in Checkers, NEW a \in Addresses, NEW limit \in Limits,
             Checks!OverQuota(k, a, limit)
      PROVE  ChecksIInv'
  <2>1. check' \in [Checkers -> Checked] /\ Checks!BarredStaysOut'
    BY <1>8, DecidedKeeps DEF Checks!OverQuota
  <2> QED
    BY <1>7, <1>8, <2>1 DEF Checks!OverQuota
<1>9. ASSUME NEW k \in Checkers, NEW a \in Addresses, NEW limit \in Limits,
             Checks!CheckAccess(k, a, limit)
      PROVE  ChecksIInv'
  <2>1. a \notin blacklist
    BY <1>9 DEF Checks!CheckAccess, Checks!CheckIpAccess
  <2>2. PICK w \in {"asking", "granted", "denied"} :
            check' = [check EXCEPT ![k] = [is |-> w, barred |-> a \in blacklist]]
    BY <1>9 DEF Checks!CheckAccess
  <2> DEFINE v == [is |-> w, barred |-> a \in blacklist]
  <2>3. (a \in blacklist) = FALSE
    BY <2>1
  <2>4. v \in Checked /\ ~v.barred
    BY <2>1, <2>3 DEF Checked
  <2>5. check' = [check EXCEPT ![k] = v]
    BY <2>2
  <2> HIDE DEF v
  <2>6. check' \in [Checkers -> Checked] /\ Checks!BarredStaysOut'
    BY <2>4, <2>5, VerdictKeeps
  <2> QED
    BY <1>7, <1>9, <2>6 DEF Checks!CheckAccess
<1>10. ASSUME NEW k \in Checkers, Checks!ServerAnswers(k) PROVE ChecksIInv'
  <2>1. ~check[k].barred
    BY <1>1, <1>10 DEF Checks!ServerAnswers, Checks!BarredStaysOut
  <2>2. check' \in [Checkers -> Checked] /\ Checks!BarredStaysOut'
    BY <1>10, <2>1, DecidedKeeps DEF Checks!ServerAnswers
  <2> QED
    BY <1>2, <1>10, <2>2 DEF Checks!ServerAnswers
<1>11. ASSUME NEW k \in Checkers, NEW a \in Addresses, NEW limit \in Limits,
              Checks!OverLimit(k, a, limit)
       PROVE  ChecksIInv'
  <2>1. check' \in [Checkers -> Checked] /\ Checks!BarredStaysOut'
    BY <1>11, DecidedKeeps DEF Checks!OverLimit
  <2>2. CASE UNCHANGED counter
    BY <1>2, <1>11, <2>1, <2>2 DEF Checks!OverLimit
  <2>3. CASE counter' = [count |-> 0, start |-> clock]
             /\ (counter.start > clock \/ counter.start + Minute < clock)
    <3> USE ChecksAssumption DEF Checks!Times
    <3>1. UNCHANGED <<counted, clock, decider, whitelist, blacklist>>
      BY <1>11 DEF Checks!OverLimit
    <3>2. counter'.start = clock /\ counter'.count = 0
          /\ counter' \in [count : Nat, start : Checks!Times]
      BY <1>1, <2>3
    <3>3. CountsGoOn' /\ Checks!MinuteIsBounded'
      BY <1>1, <3>1 DEF CountsGoOn, Checks!MinuteIsBounded
    <3>4. counted[clock + 1] = counted[clock]
      <4>1. CASE counter.start > clock
        <5>1. counted[clock + 1] = 0 /\ counted[clock] <= counted[clock + 1]
          BY <1>1, <4>1 DEF WindowCounts, CountsGoOn
        <5> QED
          BY <1>1, <5>1 DEF CountsGoOn
      <4>2. CASE counter.start <= clock
        BY <1>1, <2>3, <4>2 DEF WindowCounts
      <4> QED
        BY <1>1, <4>1, <4>2
    <3>5. ASSUME NEW b \in 0..clock, clock <= b + Minute
          PROVE  \E l \in Limits : counted[clock] - counted[b] <= l
      <4>1. CASE counter.start > clock
        <5>1. counted[clock + 1] = 0 /\ counted[b] <= counted[clock + 1]
          BY <1>1, <4>1 DEF WindowCounts, CountsGoOn
        <5> QED
          BY <1>1, <3>4, <5>1 DEF CountsGoOn
      <4>2. CASE counter.start <= clock
        <5>1. counted[clock + 1] - counted[counter.start] <= counter.count /\ counter.start <= b
          BY <1>1, <2>3, <3>5, <4>2 DEF WindowCounts
        <5>2. counted[counter.start] <= counted[b]
          BY <1>1, <4>2, <5>1 DEF CountsGoOn
        <5> QED
          BY <1>1, <3>4, <5>1, <5>2 DEF CountsGoOn
      <4> QED
        BY <1>1, <4>1, <4>2
    <3>6. WindowCounts'
      <4>1. counted[clock + 1] - counted[clock] <= 0
        BY <1>1, <3>4 DEF CountsGoOn
      <4>2. \A t \in Checks!Times : clock + Minute < t => counted[t] = counted[clock + 1]
        BY <1>1 DEF CountsGoOn
      <4> QED
        BY <1>1, <3>1, <3>2, <3>5, <4>1, <4>2 DEF WindowCounts
    <3>7. \E l \in Limits : counter'.count <= l
      BY <3>2
    <3> QED
      BY <1>1, <2>1, <3>1, <3>2, <3>3, <3>6, <3>7 DEF ChecksIInv, Checks!TypeOK, Checked
  <2> QED
    BY <1>11, <2>2, <2>3 DEF Checks!OverLimit, Checks!Current
<1> QED
  BY <1>3, <1>4, <1>5, <1>6, <1>8, <1>9, <1>10, <1>11 DEF Checks!Next
-----------------------------------------------------------------------------
(* The developers, security/tool_registry.py.                                *)

(* Rows are never deleted: who is being changed, or was, is there.           *)
OfSomebody ==
    /\ \A s \in Sessions : session[s].op # "none" => row[session[s].dev].exists
    /\ \A d \in Devs : settled[d] # {} => row[d].exists

(* The inductive invariant of the developers.                                *)
TeamIInv == Team!TypeOK /\ Team!ChangesAreKept /\ OfSomebody

(* The row that is not there and the session that does nothing are well formed. *)
LEMMA Somebody ==
    /\ (CHOOSE d \in Devs : TRUE) \in Devs
    /\ Team!NoRow \in Team!Row
    /\ Team!NoSession \in [op : Team!Changing \cup {"none"}, dev : Devs, loaded : Team!Row]
<1>1. (CHOOSE d \in Devs : TRUE) \in Devs /\ (CHOOSE u \in Usernames : TRUE) \in Usernames
  BY TeamAssumption
<1>2. Team!NoRow \in Team!Row
  BY <1>1 DEF Team!NoRow, Team!Row
<1> QED
  BY <1>1, <1>2 DEF Team!NoSession

(* It holds of the empty table.                                              *)
LEMMA TeamInit == Team!Init => TeamIInv
<1> SUFFICES ASSUME Team!Init PROVE TeamIInv
  OBVIOUS
<1>1. Team!TypeOK
  BY Somebody DEF Team!Init, Team!TypeOK
<1>2. Team!ChangesAreKept
  BY DEF Team!Init, Team!ChangesAreKept, Team!CanManageTool, Team!CanRegisterTool, Team!NoRow
<1>3. OfSomebody
  BY DEF Team!Init, OfSomebody, Team!NoSession
<1> QED
  BY <1>1, <1>2, <1>3 DEF TeamIInv

(* Every step of a session keeps it.                                         *)
LEMMA TeamKept ==
    ASSUME TeamIInv, Team!Next \/ UNCHANGED teamVars
    PROVE  TeamIInv'
<1> DEFINE Session == [op : Team!Changing \cup {"none"}, dev : Devs, loaded : Team!Row]
           Kept == \A d \in Devs : /\ "deactivate" \in settled[d] => ~row[d].active
                                   /\ "verify" \in settled[d] => row[d].verified
<1>1. /\ ready \in BOOLEAN /\ row \in [Devs -> Team!Row] /\ session \in [Sessions -> Session]
      /\ settled \in [Devs -> SUBSET Team!Changing] /\ OfSomebody /\ Kept
  BY DEF TeamIInv, Team!TypeOK, Team!ChangesAreKept
<1>2. ASSUME ready' \in BOOLEAN, row' \in [Devs -> Team!Row], session' \in [Sessions -> Session],
             settled' \in [Devs -> SUBSET Team!Changing], OfSomebody', Kept'
      PROVE  TeamIInv'
  <2>1. Team!TypeOK'
    BY <1>2 DEF Team!TypeOK
  <2>2. Team!ChangesAreKept'
    BY <1>2 DEF Team!ChangesAreKept, Team!CanManageTool, Team!CanRegisterTool
  <2> QED
    BY <1>2, <2>1, <2>2 DEF TeamIInv
<1>3. Team!NoSession \in Session /\ Team!NoSession.op = "none"
  BY Somebody DEF Team!NoSession
<1>4. CASE UNCHANGED teamVars
  BY <1>1, <1>2, <1>4 DEF teamVars, OfSomebody
<1>5. CASE Team!Initialize \/ Team!Shutdown
  BY <1>1, <1>2, <1>5 DEF Team!Initialize, Team!Shutdown, OfSomebody
<1>6. ASSUME NEW d \in Devs, NEW u \in Usernames, Team!RegisterDeveloper(d, u) PROVE TeamIInv'
  <2> DEFINE new == [exists |-> TRUE, username |-> u, verified |-> FALSE, active |-> TRUE, created |-> {}]
  <2>1. new \in Team!Row /\ new.exists
    BY DEF Team!Row
  <2>2. row' = [row EXCEPT ![d] = new] /\ ~row[d].exists /\ UNCHANGED <<ready, session, settled>>
    BY <1>6 DEF Team!RegisterDeveloper
  <2>3. settled[d] = {}
    BY <1>1, <2>2 DEF OfSomebody
  <2> HIDE DEF new, Session
  <2>4. Kept' /\ OfSomebody'
    BY <1>1, <2>1, <2>2, <2>3 DEF OfSomebody
  <2> QED
    BY <1>1, <1>2, <2>1, <2>2, <2>4
<1>7. ASSUME NEW s \in Sessions, NEW op \in Team!Changing, NEW d \in Devs, Team!Load(s, op, d)
      PROVE  TeamIInv'
  <2> DEFINE new == [op |-> op, dev |-> d, loaded |-> row[d]]
  <2>1. new \in Session /\ new.dev = d
    BY <1>1
  <2>2. session' = [session EXCEPT ![s] = new] /\ row[d].exists /\ UNCHANGED <<ready, row, settled>>
    BY <1>7 DEF Team!Load
  <2> HIDE DEF new, Session
  <2>3. Kept' /\ OfSomebody'
    BY <1>1, <2>1, <2>2 DEF OfSomebody
  <2> QED
    BY <1>1, <1>2, <2>1, <2>2, <2>3
<1>8. ASSUME NEW s \in Sessions, Team!CommitChange(s) PROVE TeamIInv'
  <2>1. PICK d, op : d = session[s].dev /\ op = session[s].op
    OBVIOUS
  <2>2. d \in Devs /\ op \in Team!Changing /\ row[d].exists /\ row[d] \in Team!Row
    BY <1>1, <1>8, <2>1 DEF OfSomebody, Team!CommitChange, Team!Changing
  <2>3. PICK new : new = Team!Written(row[d], session[s].loaded, op)
    OBVIOUS
  <2>4. /\ new \in Team!Row /\ new.exists
        /\ (op = "deactivate" \/ ~row[d].active) => ~new.active
        /\ (op = "verify" \/ row[d].verified) => new.verified
    BY <2>2, <2>3 DEF Team!Row, Team!Written, Team!Changing
  <2>5. /\ row' = [row EXCEPT ![d] = new] /\ settled' = [settled EXCEPT ![d] = @ \cup {op}]
        /\ session' = [session EXCEPT ![s] = Team!NoSession] /\ UNCHANGED ready
    BY <1>8, <2>1, <2>3 DEF Team!CommitChange
  <2> HIDE DEF Session
  <2>6. Kept'
    BY <1>1, <2>2, <2>4, <2>5
  <2>7. OfSomebody'
    BY <1>1, <1>3, <2>2, <2>4, <2>5 DEF OfSomebody
  <2> QED
    BY <1>1, <1>2, <1>3, <2>2, <2>4, <2>5, <2>6, <2>7
<1>9. ASSUME NEW s \in Sessions, Team!ChangeFails(s) PROVE TeamIInv'
  BY <1>1, <1>2, <1>3, <1>9 DEF Team!ChangeFails, OfSomebody
<1>10. ASSUME NEW d \in Devs, NEW t \in Tools, Team!RegisterToolCreation(d, t) PROVE TeamIInv'
  BY <1>1, <1>2, <1>10 DEF Team!RegisterToolCreation, Team!vars, OfSomebody
<1> QED
  BY <1>4, <1>5, <1>6, <1>7, <1>8, <1>9, <1>10 DEF Team!Next
-----------------------------------------------------------------------------
(* The memory cache, utils/cache.py.                                         *)

(* A function that is awaited has not taken longer than it may, and what it   *)
(* returned was not older than that when its entry began to live.            *)
LoadsInTime == \A c \in Callers : caller[c] # Memory!Idle => now <= caller[c].since + LoadTime

EntriesAge ==
    \A k \in DOMAIN memory : memory[k].expires <= memory[k].value + LoadTime + Ttl

(* The inductive invariant of the cache.                                     *)
MemoryIInv ==
    /\ Memory!TypeOK /\ Memory!CacheIsBounded
    /\ IsFiniteSet(DOMAIN memory) /\ LoadsInTime /\ EntriesAge

(* The cardinality of the instance is that of FiniteSets.                    *)
LEMMA MemoryCount == \A S : Memory!Cardinality(S) = Cardinality(S)
<1>1. ASSUME NEW S PROVE Memory!IsFiniteSet(S) = IsFiniteSet(S)
  BY DEF IsFiniteSet, Memory!IsFiniteSet
<1> QED
  BY <1>1 DEF Cardinality, Memory!Cardinality

(* It holds of the empty cache.                                              *)
LEMMA MemoryInit == Memory!Init => MemoryIInv
<1> SUFFICES ASSUME Memory!Init PROVE MemoryIInv
  OBVIOUS
<1>1. DOMAIN memory = {} /\ DOMAIN access = {}
  BY DEF Memory!Init
<1>2. Memory!TypeOK
  BY <1>1, MemoryAssumption DEF Memory!Init, Memory!TypeOK, Memory!Held
<1>3. Cardinality({}) = 0 /\ IsFiniteSet({})
  BY FS_EmptySet
<1>4. Memory!CacheIsBounded
  BY <1>1, <1>3, MemoryCount, MemoryAssumption DEF Memory!CacheIsBounded, Memory!Held
<1>5. LoadsInTime /\ EntriesAge
  BY <1>1 DEF Memory!Init, LoadsInTime, EntriesAge
<1> QED
  BY <1>1, <1>2, <1>3, <1>4, <1>5 DEF MemoryIInv

(* Of the entries there is one that was used longest ago.                    *)
LEMMA SomeOldest == MemoryIInv /\ DOMAIN memory # {} => Memory!Oldest # {}
<1> SUFFICES ASSUME MemoryIInv, DOMAIN memory # {} PROVE Memory!Oldest # {}
  OBVIOUS
<1> DEFINE times == {access[k] : k \in DOMAIN access}
<1>1. DOMAIN access = DOMAIN memory /\ \A k \in DOMAIN access : access[k] \in Nat
  BY DEF MemoryIInv, Memory!TypeOK, Memory!CacheIsBounded, Memory!Held
<1>2. times \in SUBSET Nat /\ times # {}
  BY <1>1
<1> HIDE DEF times
<1>3. IsWellFoundedOn(OpToRel(<, Nat), Nat)
  BY NatLessThanWellFounded
<1>4. PICK x \in times : \A y \in times : ~(<<y, x>> \in OpToRel(<, Nat))
  BY <1>2, <1>3, WFMin
<1>8. ASSUME NEW y \in times PROVE ~(y < x)
  <2>1. <<y, x>> \notin OpToRel(<, Nat)
    BY <1>4
  <2>2. <<y, x>> \in {yx \in Nat \X Nat : yx[1] < yx[2]} <=> y < x
    BY <1>2
  <2> QED
    BY <2>1, <2>2 DEF OpToRel
<1>5. x \in Nat /\ \A y \in times : y \in Nat /\ x <= y
  BY <1>2, <1>8
<1>6. PICK k \in DOMAIN access : access[k] = x
  BY <1>4 DEF times
<1>7. \A j \in DOMAIN access : access[k] <= access[j]
  BY <1>5, <1>6 DEF times
<1> QED
  BY <1>6, <1>7 DEF Memory!Oldest

(* What set does to the entries: one is put, on the memory backend in a place *)
(* that was free or of the oldest.                                           *)
LEMMA SetKeeps ==
    ASSUME MemoryIInv, NEW k \in Keys, NEW value \in 0..now, now <= value + LoadTime,
           Memory!SetMemory(k, value) \/ Memory!SetRedis(k, value), UNCHANGED <<backend, now>>
    PROVE  /\ DOMAIN memory' \subseteq Keys /\ IsFiniteSet(DOMAIN memory')
           /\ DOMAIN access' = DOMAIN memory'
           /\ backend = "memory" => Cardinality(DOMAIN memory') <= MaxSize
           /\ \A j \in DOMAIN memory' :
                memory'[j].value \in 0..now /\ memory'[j].expires \in 0..(MaxTime + Ttl)
           /\ \A j \in DOMAIN access' : access'[j] \in 0..now
           /\ EntriesAge'
<1>1. /\ now \in 0..MaxTime /\ DOMAIN memory \subseteq Keys /\ DOMAIN access = DOMAIN memory
      /\ IsFiniteSet(DOMAIN memory) /\ Cardinality(DOMAIN memory) \in Nat
      /\ backend = "memory" => Cardinality(DOMAIN memory) <= MaxSize
      /\ \A j \in DOMAIN memory :
            memory[j].value \in 0..now /\ memory[j].expires \in 0..(MaxTime + Ttl)
      /\ \A j \in DOMAIN access : access[j] \in 0..now
      /\ EntriesAge
  BY FS_CardinalityType, MemoryCount
  DEF MemoryIInv, Memory!TypeOK, Memory!CacheIsBounded, Memory!Held
<1>2. Memory!Used \in 0..now
  BY <1>1 DEF Memory!Used
<1> DEFINE entry == [value |-> value, expires |-> now + Ttl]
<1>3. entry.value \in 0..now /\ entry.expires \in 0..(MaxTime + Ttl)
      /\ entry.expires <= entry.value + LoadTime + Ttl
  BY <1>1, MemoryAssumption
<1> HIDE DEF entry
<1>4. ASSUME NEW c, NEW a, Memory!Put(k, value, c, a),
             DOMAIN c \subseteq DOMAIN memory, DOMAIN a = DOMAIN c,
             \A j \in DOMAIN c : c[j] = memory[j] /\ a[j] = access[j],
             backend = "memory" => Cardinality(DOMAIN c) < MaxSize
      PROVE  /\ DOMAIN memory' \subseteq Keys /\ IsFiniteSet(DOMAIN memory')
             /\ DOMAIN access' = DOMAIN memory'
             /\ backend = "memory" => Cardinality(DOMAIN memory') <= MaxSize
             /\ \A j \in DOMAIN memory' :
                  memory'[j].value \in 0..now /\ memory'[j].expires \in 0..(MaxTime + Ttl)
             /\ \A j \in DOMAIN access' : access'[j] \in 0..now
             /\ EntriesAge'
  <2>1. /\ memory' = [x \in DOMAIN c \cup {k} |-> IF x = k THEN entry ELSE c[x]]
        /\ access' = [x \in DOMAIN a \cup {k} |-> IF x = k THEN Memory!Used ELSE a[x]]
    BY <1>4 DEF Memory!Put, Memory!With, entry
  <2>2. DOMAIN memory' = DOMAIN c \cup {k} /\ DOMAIN access' = DOMAIN memory'
    BY <1>4, <2>1
  <2>3. IsFiniteSet(DOMAIN c) /\ Cardinality(DOMAIN c) \in Nat
    BY <1>1, <1>4, FS_Subset, FS_CardinalityType
  <2>4. IsFiniteSet(DOMAIN c \cup {k}) /\ Cardinality(DOMAIN c \cup {k}) <= Cardinality(DOMAIN c) + 1
    <3>1. CASE k \in DOMAIN c
      <4>1. DOMAIN c \cup {k} = DOMAIN c
        BY <3>1
      <4> QED
        BY <2>3, <4>1
    <3>2. CASE k \notin DOMAIN c
      <4> DEFINE D == DOMAIN c
      <4>1. IsFiniteSet(D) /\ k \notin D
        BY <2>3, <3>2
      <4> HIDE DEF D
      <4>2. IsFiniteSet(D \cup {k}) /\ Cardinality(D \cup {k}) = Cardinality(D) + 1
        BY <4>1, FS_AddElement
      <4> QED
        BY <2>3, <4>2 DEF D
    <3> QED
      BY <3>1, <3>2
  <2>5. Cardinality(DOMAIN c \cup {k}) \in Nat
    BY <2>4, FS_CardinalityType
  <2>6. \A j \in DOMAIN memory' :
            /\ memory'[j].value \in 0..now /\ memory'[j].expires \in 0..(MaxTime + Ttl)
            /\ memory'[j].expires <= memory'[j].value + LoadTime + Ttl
            /\ access'[j] \in 0..now
    <3> SUFFICES ASSUME NEW j \in DOMAIN memory'
                 PROVE  /\ memory'[j].value \in 0..now /\ memory'[j].expires \in 0..(MaxTime + Ttl)
                        /\ memory'[j].expires <= memory'[j].value + LoadTime + Ttl
                        /\ access'[j] \in 0..now
      OBVIOUS
    <3>1. CASE j = k
      BY <1>2, <1>3, <1>4, <2>1, <2>2, <3>1
    <3>2. CASE j # k
      <4>1. memory'[j] = memory[j] /\ access'[j] = access[j] /\ j \in DOMAIN memory
        BY <1>4, <2>1, <2>2, <3>2
      <4> QED
        BY <1>1, <4>1 DEF EntriesAge
    <3> QED
      BY <3>1, <3>2
  <2> QED
    BY <1>1, <1>4, <2>2, <2>3, <2>4, <2>5, <2>6, MemoryAssumption DEF EntriesAge
<1>5. CASE Memory!Put(k, value, memory, access) /\ (backend = "memory" => Cardinality(DOMAIN memory) < MaxSize)
  BY <1>1, <1>4, <1>5
<1>6. ASSUME NEW old \in Memory!Oldest, backend = "memory",
             LET rest == Memory!Forget(memory, access, old)
             IN  Memory!Put(k, value, rest[1], rest[2])
      PROVE  /\ DOMAIN memory' \subseteq Keys /\ IsFiniteSet(DOMAIN memory')
             /\ DOMAIN access' = DOMAIN memory'
             /\ backend = "memory" => Cardinality(DOMAIN memory') <= MaxSize
             /\ \A j \in DOMAIN memory' :
                  memory'[j].value \in 0..now /\ memory'[j].expires \in 0..(MaxTime + Ttl)
             /\ \A j \in DOMAIN access' : access'[j] \in 0..now
             /\ EntriesAge'
  <2> DEFINE c == [x \in DOMAIN memory \ {old} |-> memory[x]]
             a == [x \in DOMAIN access \ {old} |-> access[x]]
  <2>1. Memory!Put(k, value, c, a)
    BY <1>6 DEF Memory!Forget, Memory!Without, Memory!Restrict
  <2>2. old \in DOMAIN memory
    BY <1>1 DEF Memory!Oldest
  <2>3. Cardinality(DOMAIN memory \ {old}) = Cardinality(DOMAIN memory) - 1
    BY <1>1, <2>2, FS_RemoveElement
  <2>4. /\ DOMAIN c \subseteq DOMAIN memory /\ DOMAIN a = DOMAIN c
        /\ \A j \in DOMAIN c : c[j] = memory[j] /\ a[j] = access[j]
        /\ Cardinality(DOMAIN c) < MaxSize
    BY <1>1, <1>6, <2>3, MemoryAssumption
  <2> HIDE DEF c, a
  <2> QED
    BY <1>4, <2>1, <2>4
<1>7. CASE Memory!SetMemory(k, value)
  <2>1. DOMAIN memory # {} => Memory!Oldest # {}
    BY SomeOldest
  <2>2. Cardinality({}) = 0
    BY FS_EmptySet
  <2>3. Memory!Cardinality(Memory!Held) = Cardinality(DOMAIN memory)
    BY MemoryCount DEF Memory!Held
  <2>4. CASE Cardinality(DOMAIN memory) < MaxSize /\ Memory!Put(k, value, memory, access)
    BY <1>5, <2>4
  <2>5. CASE Cardinality(DOMAIN memory) >= MaxSize /\ Memory!Oldest = {}
    <3>1. DOMAIN memory = {}
      BY <2>1, <2>5
    <3>2. Cardinality(DOMAIN memory) = 0
      BY <2>2, <3>1
    <3> QED
      BY <2>5, <3>2, MemoryAssumption
  <2>6. CASE \E old \in Memory!Oldest : LET rest == Memory!Forget(memory, access, old)
                                       IN  Memory!Put(k, value, rest[1], rest[2])
    BY <1>6, <1>7, <2>6 DEF Memory!SetMemory
  <2> QED
    BY <1>7, <2>3, <2>4, <2>5, <2>6 DEF Memory!SetMemory
<1>8. CASE Memory!SetRedis(k, value)
  <2>1. CASE Memory!Put(k, value, memory, access)
    BY <1>5, <1>8, <2>1 DEF Memory!SetRedis
  <2>2. CASE UNCHANGED <<memory, access>>
    BY <1>1, <2>2 DEF EntriesAge
  <2> QED
    BY <1>8, <2>1, <2>2 DEF Memory!SetRedis
<1> QED
  BY <1>7, <1>8

(* A call that looks up, loads or forgets leaves fewer entries.               *)
LEMMA FewerEntries ==
    ASSUME MemoryIInv, UNCHANGED <<backend, now>>,
           DOMAIN memory' \subseteq DOMAIN memory, DOMAIN access' = DOMAIN memory',
           \A k \in DOMAIN memory' : memory'[k] = memory[k] /\ access'[k] \in 0..now,
           caller' \in [Callers -> [key : Keys, since : 0..now] \cup {Memory!Idle}],
           LoadsInTime'
    PROVE  MemoryIInv'
<1>1. /\ IsFiniteSet(DOMAIN memory') /\ Cardinality(DOMAIN memory') \in Nat
      /\ Cardinality(DOMAIN memory) \in Nat
      /\ Cardinality(DOMAIN memory') <= Cardinality(DOMAIN memory)
  BY FS_Subset, FS_CardinalityType DEF MemoryIInv
<1>2. Memory!TypeOK'
  BY DEF MemoryIInv, Memory!TypeOK, Memory!Held
<1>3. Memory!CacheIsBounded'
  BY <1>1, MemoryCount, MemoryAssumption DEF MemoryIInv, Memory!CacheIsBounded, Memory!Held
<1>4. EntriesAge'
  BY DEF MemoryIInv, EntriesAge
<1> QED
  BY <1>1, <1>2, <1>3, <1>4 DEF MemoryIInv

(* Every step keeps it.                                                      *)
LEMMA MemoryKept ==
    ASSUME MemoryIInv, Memory!Next \/ UNCHANGED memoryVars
    PROVE  MemoryIInv'
<1> DEFINE Call(n) == [key : Keys, since : 0..n] \cup {Memory!Idle}
<1>1. /\ now \in 0..MaxTime /\ DOMAIN memory \subseteq Keys /\ DOMAIN access = DOMAIN memory
      /\ \A j \in DOMAIN memory :
            memory[j].value \in 0..now /\ memory[j].expires \in 0..(MaxTime + Ttl)
      /\ \A j \in DOMAIN access : access[j] \in 0..now
      /\ caller \in [Callers -> Call(now)] /\ LoadsInTime /\ EntriesAge
      /\ \A c \in Callers : caller[c] # Memory!Idle => caller[c].key \in Keys /\ caller[c].since \in 0..now
  BY DEF MemoryIInv, Memory!TypeOK, Memory!CacheIsBounded, Memory!Held
<1>2. Memory!Used \in 0..now
  BY <1>1 DEF Memory!Used
<1>3. Memory!Idle \in Call(now) /\ \A k \in Keys : [key |-> k, since |-> now] \in Call(now)
  BY <1>1
<1>4. ASSUME NEW k
      PROVE  LET rest == Memory!Forget(memory, access, k)
             IN  /\ DOMAIN rest[1] \subseteq DOMAIN memory /\ DOMAIN rest[2] = DOMAIN rest[1]
                 /\ \A j \in DOMAIN rest[1] : rest[1][j] = memory[j] /\ rest[2][j] \in 0..now
  BY <1>1 DEF Memory!Forget, Memory!Without, Memory!Restrict
<1>5. ASSUME NEW c \in Callers, caller' = [caller EXCEPT ![c] = Memory!Idle], UNCHANGED now
      PROVE  caller' \in [Callers -> Call(now)] /\ LoadsInTime'
  <2> HIDE DEF Call
  <2>1. caller' \in [Callers -> Call(now)]
    BY <1>1, <1>3, <1>5
  <2>2. LoadsInTime'
    BY <1>1, <1>5 DEF LoadsInTime
  <2> QED
    BY <2>1, <2>2
<1>6. CASE UNCHANGED memoryVars
  BY <1>1, <1>6, FewerEntries DEF memoryVars, LoadsInTime
<1>7. ASSUME NEW c \in Callers, NEW k \in Keys, Memory!Hit(c, k) PROVE MemoryIInv'
  <2>1. access' = [x \in DOMAIN access \cup {k} |-> IF x = k THEN Memory!Used ELSE access[x]]
    BY <1>7 DEF Memory!Hit, Memory!With
  <2>2. k \in DOMAIN memory /\ UNCHANGED <<backend, now, memory, caller>>
    BY <1>7 DEF Memory!Hit, Memory!Live, Memory!Held
  <2> QED
    BY <1>1, <1>2, <2>1, <2>2, FewerEntries DEF LoadsInTime
<1>8. ASSUME NEW c \in Callers, NEW k \in Keys, Memory!Miss(c, k) PROVE MemoryIInv'
  <2> DEFINE new == [key |-> k, since |-> now]
  <2>1. caller' = [caller EXCEPT ![c] = new] /\ UNCHANGED <<backend, now>>
    BY <1>8 DEF Memory!Miss
  <2>2. new \in Call(now) /\ new.since = now
    BY <1>3
  <2> HIDE DEF new, Call
  <2>3. caller' \in [Callers -> Call(now)]
    BY <1>1, <2>1, <2>2
  <2>4. LoadsInTime'
    BY <1>1, <2>1, <2>2, MemoryAssumption DEF LoadsInTime
  <2>5. /\ DOMAIN memory' \subseteq DOMAIN memory /\ DOMAIN access' = DOMAIN memory'
        /\ \A j \in DOMAIN memory' : memory'[j] = memory[j] /\ access'[j] \in 0..now
    BY <1>1, <1>4, <1>8 DEF Memory!Miss
  <2> QED
    BY <2>1, <2>3, <2>4, <2>5, FewerEntries DEF Call
<1>9. ASSUME NEW c \in Callers, Memory!Loaded(c) PROVE MemoryIInv'
  <2>1. PICK value \in caller[c].since..now :
            Memory!SetMemory(caller[c].key, value) \/ Memory!SetRedis(caller[c].key, value)
    BY <1>9 DEF Memory!Loaded
  <2>2. /\ caller[c].key \in Keys /\ value \in 0..now /\ now <= value + LoadTime
        /\ UNCHANGED <<backend, now>> /\ caller' = [caller EXCEPT ![c] = Memory!Idle]
    BY <1>1, <1>9, <2>1, MemoryAssumption DEF Memory!Loaded, LoadsInTime
  <2>3. /\ DOMAIN memory' \subseteq Keys /\ IsFiniteSet(DOMAIN memory')
        /\ DOMAIN access' = DOMAIN memory'
        /\ backend = "memory" => Cardinality(DOMAIN memory') <= MaxSize
        /\ \A j \in DOMAIN memory' :
             memory'[j].value \in 0..now /\ memory'[j].expires \in 0..(MaxTime + Ttl)
        /\ \A j \in DOMAIN access' : access'[j] \in 0..now
        /\ EntriesAge'
    BY <2>1, <2>2, SetKeeps
  <2>4. caller' \in [Callers -> Call(now)] /\ LoadsInTime'
    BY <1>5, <2>2
  <2>5. Memory!TypeOK'
    BY <1>1, <2>2, <2>3, <2>4 DEF MemoryIInv, Memory!TypeOK, Memory!Held
  <2>6. Memory!CacheIsBounded'
    BY <2>2, <2>3, MemoryCount DEF Memory!CacheIsBounded, Memory!Held
  <2> QED
    BY <2>3, <2>4, <2>5, <2>6 DEF MemoryIInv
<1>10. ASSUME NEW c \in Callers, Memory!LoadFails(c) PROVE MemoryIInv'
  BY <1>1, <1>5, <1>10, FewerEntries DEF Memory!LoadFails
<1>11. ASSUME NEW k \in Keys, Memory!Delete(k) PROVE MemoryIInv'
  BY <1>1, <1>4, <1>11, FewerEntries DEF Memory!Delete, LoadsInTime
<1>12. CASE Memory!Clear
  <2>1. DOMAIN memory' = {} /\ DOMAIN access' = {}
    BY <1>12 DEF Memory!Clear
  <2> QED
    BY <1>1, <1>12, <2>1, FewerEntries DEF Memory!Clear, LoadsInTime
<1>13. CASE Memory!Tick
  <2>1. /\ now' = now + 1 /\ now' \in 0..MaxTime /\ UNCHANGED <<backend, memory, access, caller>>
        /\ \A c \in Callers : caller[c] # Memory!Idle => now < caller[c].since + LoadTime
    BY <1>1, <1>13, MemoryAssumption DEF Memory!Tick
  <2>2. LoadsInTime'
    BY <1>1, <2>1, MemoryAssumption DEF LoadsInTime
  <2>3. caller' \in [Callers -> Call(now')]
    <3>1. Call(now) \subseteq Call(now')
      BY <1>1, <2>1
    <3> HIDE DEF Call
    <3> QED
      BY <1>1, <2>1, <3>1
  <2>4. Memory!TypeOK'
    BY <1>1, <2>1, <2>3 DEF MemoryIInv, Memory!TypeOK, Memory!Held
  <2>5. Memory!CacheIsBounded' /\ EntriesAge'
    BY <2>1 DEF MemoryIInv, Memory!CacheIsBounded, Memory!Held, EntriesAge
  <2> QED
    BY <2>1, <2>2, <2>4, <2>5 DEF MemoryIInv
<1> QED
  BY <1>6, <1>7, <1>8, <1>9, <1>10, <1>11, <1>12, <1>13 DEF Memory!Next

(* What is alive has not outlived its expiry.                                *)
LEMMA MemoryHolds == MemoryIInv => Memory!CacheIsBounded /\ Memory!HitsAreFresh
<1> SUFFICES ASSUME MemoryIInv, Ttl > 0, NEW k \in DOMAIN memory, Memory!Live(k)
             PROVE  now - memory[k].value <= Ttl + LoadTime
  BY DEF MemoryIInv, Memory!HitsAreFresh, Memory!Held
<1>1. now \in Nat /\ memory[k].value \in Nat /\ memory[k].expires \in Nat
  BY MemoryAssumption DEF MemoryIInv, Memory!TypeOK, Memory!Held
<1>2. now <= memory[k].expires
  BY <1>1 DEF Memory!Live, Memory!Expired
<1> QED
  BY <1>1, <1>2, MemoryAssumption DEF MemoryIInv, EntriesAge
-----------------------------------------------------------------------------
(* The versions of policies, security/policies.py.                           *)

(* Of a policy with a history one version is in force.                       *)
OneInForce == \A n \in Policies : inForce[n] # 0 <=> versions[n] # <<>>

(* An upload is at a policy of the list, with a version it has had.           *)
UploadsAreKnown ==
    \A c \in Callers :
        /\ uploading[c].pc = "health" => listed # <<>>
        /\ Versions!Uploads(c) => uploading[c].at \in DOMAIN listed
        /\ uploading[c].pc = "request" =>
              \E i \in DOMAIN versions[listed[uploading[c].at]] :
                  uploading[c].version = 1 + versions[listed[uploading[c].at]][i].version

(* Unless uploads crossed there is one at most.                              *)
OneUpload ==
    ~crossed => \A c, d \in Callers : Versions!Uploads(c) /\ Versions!Uploads(d) => c = d

(* As long as no uploads crossed, none failed and none is about to begin:     *)
(* with no upload going on, every policy is served, and an upload has put in  *)
(* place what comes before the policy it is at.                              *)
ServedAt(j) == opa[listed[j]] = Versions!VersionOf(listed[j])

ServedSoFar ==
    ~crossed /\ ~failed /\ (\A c \in Callers : uploading[c].pc # "health") =>
        /\ (\A c \in Callers : ~Versions!Uploads(c)) => \A j \in DOMAIN listed : ServedAt(j)
        /\ \A c \in Callers : Versions!Uploads(c) =>
              /\ uploading[c].size = Len(listed)
              /\ uploading[c].pc = "request" =>
                    uploading[c].version = Versions!VersionOf(listed[uploading[c].at])
              /\ \A j \in DOMAIN listed :
                    j < uploading[c].at \/ (j = uploading[c].at /\ uploading[c].pc = "answered")
                        => ServedAt(j)

(* The inductive invariant of the versions.                                  *)
VersionsIInv ==
    /\ Versions!TypeOK /\ OneInForce /\ UploadsAreKnown /\ OneUpload /\ ServedSoFar
    /\ Versions!LatestIsCurrent /\ Versions!ServedIsKnown

(* The cardinality of the instance is that of FiniteSets.                    *)
LEMMA VersionsCount == \A S : Versions!Cardinality(S) = Cardinality(S)
<1>1. ASSUME NEW S PROVE Versions!IsFiniteSet(S) = IsFiniteSet(S)
  BY DEF IsFiniteSet, Versions!IsFiniteSet
<1> QED
  BY <1>1 DEF Cardinality, Versions!Cardinality

(* What is known of the policies themselves.                                 *)
Ledger ==
    /\ versions \in [Policies -> Seq(Versions!Version)] /\ inForce \in [Policies -> 0..MaxVersions]
    /\ \A n \in Policies : Len(versions[n]) <= MaxVersions /\ inForce[n] <= Len(versions[n])
    /\ listed \in Seq(Policies)
    /\ \A n \in Policies : n \in Versions!ToSet(listed) <=> inForce[n] # 0
    /\ OneInForce /\ Versions!LatestIsCurrent

(* Histories and the list grow; a version keeps its name.                     *)
Grows ==
    /\ \A n \in Policies : \A i \in DOMAIN versions[n] :
          i \in DOMAIN versions'[n] /\ versions'[n][i].version = versions[n][i].version
    /\ \A j \in DOMAIN listed : j \in DOMAIN listed' /\ listed'[j] = listed[j]

(* It is part of the invariant.                                              *)
LEMMA LedgerOf == VersionsIInv => Ledger
  BY DEF VersionsIInv, Versions!TypeOK, Ledger

(* What is listed is in force, with a version of its history.                 *)
LEMMA ListedIsKnown ==
    ASSUME Ledger, NEW j \in DOMAIN listed
    PROVE  /\ listed[j] \in Policies /\ inForce[listed[j]] \in DOMAIN versions[listed[j]]
           /\ Versions!VersionOf(listed[j]) \in 0..(1 + MaxVersions)
<1> USE VersionsAssumption
<1>1. listed[j] \in Policies
  BY DEF Ledger
<1>2. listed[j] \in Versions!ToSet(listed)
  BY DEF Versions!ToSet
<1>3. /\ inForce[listed[j]] # 0 /\ inForce[listed[j]] \in 0..MaxVersions
      /\ inForce[listed[j]] <= Len(versions[listed[j]])
      /\ versions[listed[j]] \in Seq(Versions!Version)
  BY <1>1, <1>2 DEF Ledger
<1>4. inForce[listed[j]] \in DOMAIN versions[listed[j]]
  BY <1>3
<1>5. versions[listed[j]][inForce[listed[j]]] \in Versions!Version
  BY <1>3, <1>4
<1> QED
  BY <1>1, <1>4, <1>5 DEF Versions!VersionOf, Versions!VersionAt, Versions!Version

(* Whatever is listed has a version in force.                                *)
ListedKnown ==
    \A j \in DOMAIN listed :
        /\ listed[j] \in Policies /\ inForce[listed[j]] \in DOMAIN versions[listed[j]]
        /\ Versions!VersionOf(listed[j]) \in 0..(1 + MaxVersions)

LEMMA AllListedKnown == Ledger => ListedKnown
  BY ListedIsKnown DEF ListedKnown

(* The invariant holds before initialize().                                  *)
LEMMA VersionsInit == Versions!Init => VersionsIInv
<1> SUFFICES ASSUME Versions!Init PROVE VersionsIInv
  OBVIOUS
<1> USE VersionsAssumption
<1>1. listed = <<>> /\ listed \in Seq(Policies) /\ DOMAIN listed = {} /\ Versions!ToSet(listed) = {}
  BY DEF Versions!Init, Versions!ToSet
<1>2. \A c \in Callers : uploading[c] = Versions!Nothing /\ uploading[c].pc = "none"
  BY DEF Versions!Init, Versions!Nothing
<1>3. Versions!Nothing \in Versions!Upload
  BY DEF Versions!Nothing, Versions!Upload
<1>4. \A n \in Policies : versions[n] = <<>> /\ inForce[n] = 0 /\ opa[n] = 0
  BY DEF Versions!Init
<1>5. Versions!TypeOK
  <2>1. versions \in [Policies -> Seq(Versions!Version)]
    BY DEF Versions!Init
  <2>2. inForce \in [Policies -> 0..MaxVersions] /\ opa \in [Policies -> 0..(1 + MaxVersions)]
    BY DEF Versions!Init
  <2>3. \A n \in Policies : Len(versions[n]) <= MaxVersions /\ inForce[n] <= Len(versions[n])
    BY <1>4
  <2>4. uploading \in [Callers -> Versions!Upload]
    BY <1>3 DEF Versions!Init
  <2>5. \A n \in Policies : n \in Versions!ToSet(listed) <=> inForce[n] # 0
    BY <1>1, <1>4
  <2>6. initialized \in BOOLEAN /\ crossed \in BOOLEAN /\ failed \in BOOLEAN
    BY DEF Versions!Init
  <2>7. uploads \in 0..MaxUploads
    BY DEF Versions!Init
  <2> QED
    BY <1>1, <2>1, <2>2, <2>3, <2>4, <2>5, <2>6, <2>7 DEF Versions!TypeOK
<1>6. OneInForce /\ Versions!LatestIsCurrent /\ Versions!ServedIsKnown
  BY <1>4 DEF OneInForce, Versions!LatestIsCurrent, Versions!ServedIsKnown
<1>7. UploadsAreKnown /\ OneUpload /\ ServedSoFar
  BY <1>1, <1>2 DEF UploadsAreKnown, OneUpload, ServedSoFar, Versions!Uploads
<1> QED
  BY <1>5, <1>6, <1>7 DEF VersionsIInv

(* The policies of a server stay known, and so does what uploads carry.       *)
LEMMA ServedStaysKnown ==
    ASSUME VersionsIInv, Grows, UNCHANGED opa
    PROVE  Versions!ServedIsKnown'
  BY DEF VersionsIInv, Versions!TypeOK, Grows, Versions!ServedIsKnown

(* An upload that another step leaves alone still is at a policy it knows.   *)
LEMMA CarriedStaysKnown ==
    ASSUME VersionsIInv, Grows, NEW d \in Callers, uploading'[d] = uploading[d]
    PROVE  /\ uploading'[d].pc = "health" => listed' # <<>>
           /\ uploading'[d].pc \in {"request", "answered"} => uploading'[d].at \in DOMAIN listed'
           /\ uploading'[d].pc = "request" =>
                \E i \in DOMAIN versions'[listed'[uploading'[d].at]] :
                    uploading'[d].version = 1 + versions'[listed'[uploading'[d].at]][i].version
<1>1. /\ uploading[d].pc = "health" => listed # <<>>
      /\ uploading[d].pc \in {"request", "answered"} => uploading[d].at \in DOMAIN listed
      /\ uploading[d].pc = "request" =>
            \E i \in DOMAIN versions[listed[uploading[d].at]] :
                uploading[d].version = 1 + versions[listed[uploading[d].at]][i].version
  BY DEF VersionsIInv, UploadsAreKnown, Versions!Uploads
<1>2. listed \in Seq(Policies)
  BY DEF VersionsIInv, Versions!TypeOK
<1>3. listed # <<>> => listed' # <<>>
  <2>1. SUFFICES ASSUME listed # <<>> PROVE listed' # <<>>
    OBVIOUS
  <2>2. 1 \in DOMAIN listed
    BY <1>2, <2>1
  <2>3. 1 \in DOMAIN listed'
    BY <2>2 DEF Grows
  <2> QED
    BY <2>3
<1>4. ASSUME uploading[d].at \in DOMAIN listed
      PROVE  /\ uploading[d].at \in DOMAIN listed'
             /\ listed'[uploading[d].at] = listed[uploading[d].at]
             /\ listed[uploading[d].at] \in Policies
  BY <1>2, <1>4 DEF Grows
<1> QED
  BY <1>1, <1>3, <1>4 DEF Grows

(* An upload that begins is at the first policy, with its version in force.   *)
LEMMA BeginsKeeps ==
    ASSUME VersionsIInv, NEW c \in Callers, NEW starts \in BOOLEAN,
           Versions!UploadBegins(c, starts), UNCHANGED <<opa, failed>>,
           initialized' \in BOOLEAN, Ledger', Grows, listed' # <<>>
    PROVE  VersionsIInv'
<1> USE VersionsAssumption
<1>1. PICK new : new = [pc |-> "request", at |-> 1, size |-> Len(listed'), starts |-> starts,
                        version |-> Versions!VersionAt(versions'[listed'[1]], inForce'[listed'[1]])]
  OBVIOUS
<1>2. uploading' = [uploading EXCEPT ![c] = new]
  BY <1>1 DEF Versions!UploadBegins
<1>3. listed' \in Seq(Policies) /\ 1 \in DOMAIN listed' /\ Len(listed') \in Nat
  BY DEF Ledger
<1>4. /\ listed'[1] \in Policies /\ inForce'[listed'[1]] \in DOMAIN versions'[listed'[1]]
      /\ Versions!VersionOf(listed[1])' \in 0..(1 + MaxVersions)
  <2>1. ListedKnown'
    BY AllListedKnown, PTL
  <2> QED
    BY <1>3, <2>1 DEF ListedKnown
<1>5. new.version = Versions!VersionOf(listed[1])'
  BY <1>1 DEF Versions!VersionOf, Versions!VersionAt
<1>6. /\ new.pc = "request" /\ new.at = 1 /\ new.size = Len(listed') /\ new.starts = starts
      /\ new.version = 1 + versions'[listed'[1]][inForce'[listed'[1]]].version
      /\ new \in Versions!Upload
  <2>1. Versions!VersionAt(versions'[listed'[1]], inForce'[listed'[1]]) \in 0..(1 + MaxVersions)
    BY <1>4 DEF Versions!VersionOf
  <2>2. new \in Versions!Upload
    BY <1>1, <1>3, <2>1 DEF Versions!Upload
  <2> QED
    BY <1>1, <2>2 DEF Versions!VersionAt
<1>7. /\ uploading \in [Callers -> Versions!Upload] /\ uploading'[c] = new
      /\ \A d \in Callers \ {c} : uploading'[d] = uploading[d]
  BY <1>2 DEF VersionsIInv, Versions!TypeOK
<1>8. crossed' = (crossed \/ \E d \in Callers \ {c} : Versions!Uploads(d))
  BY DEF Versions!UploadBegins
<1>9. Versions!TypeOK'
  <2>1. uploads' \in 0..MaxUploads
    BY DEF VersionsIInv, Versions!TypeOK, Versions!UploadBegins
  <2>2. crossed' \in BOOLEAN
    BY <1>8 DEF VersionsIInv, Versions!TypeOK
  <2>3. uploading' \in [Callers -> Versions!Upload]
    BY <1>2, <1>6, <1>7
  <2> QED
    BY <2>1, <2>2, <2>3 DEF VersionsIInv, Versions!TypeOK, Ledger
<1>10. UploadsAreKnown'
  <2> SUFFICES ASSUME NEW d \in Callers
               PROVE  /\ uploading'[d].pc = "health" => listed' # <<>>
                      /\ uploading'[d].pc \in {"request", "answered"} =>
                            uploading'[d].at \in DOMAIN listed'
                      /\ uploading'[d].pc = "request" =>
                            \E i \in DOMAIN versions'[listed'[uploading'[d].at]] :
                                uploading'[d].version
                                    = 1 + versions'[listed'[uploading'[d].at]][i].version
    BY DEF UploadsAreKnown, Versions!Uploads
  <2>1. CASE d = c
    BY <1>3, <1>4, <1>6, <1>7, <2>1
  <2>2. CASE d # c
    BY <1>7, <2>2, CarriedStaysKnown
  <2> QED
    BY <2>1, <2>2
<1>11. ~crossed' => \A d \in Callers : uploading'[d].pc \in {"request", "answered"} => d = c
  BY <1>7, <1>8 DEF Versions!Uploads
<1>12. OneUpload'
  BY <1>11 DEF OneUpload, Versions!Uploads
<1>13. ServedSoFar'
  <2>1. Versions!Uploads(c)'
    BY <1>6, <1>7 DEF Versions!Uploads
  <2>2. ~crossed' => \A d \in Callers : Versions!Uploads(d)' => d = c
    BY <1>11 DEF Versions!Uploads
  <2>3. /\ uploading'[c].size = Len(listed') /\ uploading'[c].at = 1
        /\ uploading'[c].version = Versions!VersionOf(listed[uploading[c].at])'
        /\ uploading'[c].pc = "request"
    BY <1>5, <1>6, <1>7 DEF Versions!VersionOf
  <2>4. \A j \in DOMAIN listed' :
            ~(j < uploading'[c].at \/ (j = uploading'[c].at /\ uploading'[c].pc = "answered"))
    BY <1>3, <2>3
  <2> QED
    BY <2>1, <2>2, <2>3, <2>4 DEF ServedSoFar
<1>14. Versions!ServedIsKnown'
  BY ServedStaysKnown
<1> QED
  BY <1>9, <1>10, <1>12, <1>13, <1>14 DEF VersionsIInv, Ledger

(* Some policies get a version more, which is in force from then on.          *)
LEMMA VersionsAdded ==
    ASSUME Ledger, NEW S \in SUBSET Policies, S # {},
           versions' \in [Policies -> Seq(Versions!Version)], inForce' \in [Policies -> Nat],
           \A n \in S :
               /\ Len(versions'[n]) = Len(versions[n]) + 1 /\ Len(versions[n]) < MaxVersions
               /\ inForce'[n] = Len(versions'[n])
               /\ ~versions'[n][Len(versions'[n])].deprecated
               /\ \A i \in DOMAIN versions[n] :
                      versions'[n][i].version = versions[n][i].version,
           \A n \in Policies \ S : versions'[n] = versions[n] /\ inForce'[n] = inForce[n],
           listed' \in Seq(Policies),
           \A j \in DOMAIN listed : j \in DOMAIN listed' /\ listed'[j] = listed[j],
           \A n \in Policies : n \in Versions!ToSet(listed') <=> n \in Versions!ToSet(listed) \cup S
    PROVE  Ledger' /\ Grows /\ listed' # <<>>
<1> USE VersionsAssumption
<1>1. /\ versions \in [Policies -> Seq(Versions!Version)] /\ inForce \in [Policies -> 0..MaxVersions]
      /\ \A n \in Policies : Len(versions[n]) <= MaxVersions /\ inForce[n] <= Len(versions[n])
      /\ \A n \in Policies : n \in Versions!ToSet(listed) <=> inForce[n] # 0
      /\ \A n \in Policies : inForce[n] # 0 <=> versions[n] # <<>>
  BY DEF Ledger, OneInForce
<1>8. \A n \in Policies : Len(versions[n]) \in Nat /\ Len(versions'[n]) \in Nat
  BY <1>1
<1>9. \A n \in Policies : versions[n] # <<>> => ~versions[n][Len(versions[n])].deprecated
  BY DEF Ledger, Versions!LatestIsCurrent, Versions!Last
<1>2. ASSUME NEW n \in Policies
      PROVE  /\ Len(versions'[n]) <= MaxVersions /\ inForce'[n] <= Len(versions'[n])
             /\ inForce'[n] \in 0..MaxVersions
             /\ inForce'[n] # 0 <=> versions'[n] # <<>>
             /\ n \in Versions!ToSet(listed') <=> inForce'[n] # 0
             /\ versions'[n] # <<>> => ~versions'[n][Len(versions'[n])].deprecated
             /\ \A i \in DOMAIN versions[n] :
                   i \in DOMAIN versions'[n] /\ versions'[n][i].version = versions[n][i].version
  <2>1. CASE n \in S
    <3>1. /\ Len(versions'[n]) = Len(versions[n]) + 1 /\ Len(versions[n]) < MaxVersions
          /\ inForce'[n] = Len(versions'[n]) /\ ~versions'[n][Len(versions'[n])].deprecated
          /\ versions'[n] \in Seq(Versions!Version) /\ versions[n] \in Seq(Versions!Version)
      BY <1>1, <2>1
    <3>2. versions'[n] # <<>>
      BY <1>8, <3>1
    <3>3. n \in Versions!ToSet(listed')
      BY <2>1
    <3>4. \A i \in DOMAIN versions[n] :
            i \in DOMAIN versions'[n] /\ versions'[n][i].version = versions[n][i].version
      BY <2>1, <3>1
    <3>5. /\ Len(versions'[n]) <= MaxVersions /\ inForce'[n] <= Len(versions'[n])
          /\ inForce'[n] \in 0..MaxVersions /\ inForce'[n] # 0
      BY <1>8, <3>1
    <3> QED
      BY <3>1, <3>2, <3>3, <3>4, <3>5
  <2>2. CASE n \notin S
    <3>1. versions'[n] = versions[n] /\ inForce'[n] = inForce[n]
      BY <2>2
    <3>2. n \in Versions!ToSet(listed') <=> n \in Versions!ToSet(listed)
      BY <2>2
    <3> QED
      BY <1>1, <1>8, <1>9, <3>1, <3>2
  <2> QED
    BY <2>1, <2>2
<1>3. inForce' \in [Policies -> 0..MaxVersions]
  BY <1>2
<1>4. (OneInForce /\ Versions!LatestIsCurrent)'
  BY <1>2 DEF OneInForce, Versions!LatestIsCurrent, Versions!Last
<1>5. Ledger'
  BY <1>2, <1>3, <1>4 DEF Ledger
<1>6. Grows
  BY <1>2 DEF Grows
<1>7. listed' # <<>>
  <2>1. PICK n \in S : n \in Versions!ToSet(listed')
    OBVIOUS
  <2> QED
    BY <2>1 DEF Versions!ToSet
<1> QED
  BY <1>5, <1>6, <1>7

(* A key that is new comes last; one that is there stays where it is.         *)
LEMMA KeyAdded ==
    ASSUME NEW keys \in Seq(Policies), NEW n \in Policies
    PROVE  /\ Versions!WithKey(keys, n) \in Seq(Policies)
           /\ \A j \in DOMAIN keys :
                  /\ j \in DOMAIN Versions!WithKey(keys, n)
                  /\ Versions!WithKey(keys, n)[j] = keys[j]
           /\ \A m \in Policies :
                  m \in Versions!ToSet(Versions!WithKey(keys, n))
                      <=> m \in Versions!ToSet(keys) \cup {n}
<1> PICK new : new = Versions!WithKey(keys, n)
  OBVIOUS
<1>1. CASE n \in Versions!ToSet(keys)
  BY <1>1 DEF Versions!WithKey
<1>2. CASE n \notin Versions!ToSet(keys)
  <2>1. new = Append(keys, n)
    BY <1>2 DEF Versions!WithKey
  <2>2. /\ new \in Seq(Policies) /\ Len(new) = Len(keys) + 1 /\ new[Len(keys) + 1] = n
        /\ \A j \in DOMAIN keys : j \in DOMAIN new /\ new[j] = keys[j]
        /\ \A j \in DOMAIN new : j \in DOMAIN keys \/ j = Len(keys) + 1
        /\ Len(keys) + 1 \in DOMAIN new
    BY <2>1
  <2> QED
    BY <2>2 DEF Versions!ToSet
<1> QED
  BY <1>1, <1>2

(* A new version is well formed and not deprecated.                          *)
LEMMA EntryIsVersion ==
    ASSUME NEW i \in 0..MaxVersions
    PROVE  /\ Versions!Entry(i) \in Versions!Version
           /\ ~Versions!Entry(i).deprecated
  BY DEF Versions!Entry, Versions!Version

(* create_policy, or one more version of a policy that is there.             *)
LEMMA CreateKeeps ==
    ASSUME Ledger, NEW c \in Callers, NEW n \in Policies, Versions!CreatePolicy(c, n)
    PROVE  Ledger' /\ Grows /\ listed' # <<>>
<1> USE VersionsAssumption
<1>1. /\ versions \in [Policies -> Seq(Versions!Version)] /\ inForce \in [Policies -> 0..MaxVersions]
      /\ listed \in Seq(Policies)
  BY DEF Ledger
<1>2. PICK past, entry : past = versions[n] /\ entry = Versions!Entry(Len(past) + 1)
  OBVIOUS
<1>3. past \in Seq(Versions!Version) /\ Len(past) \in Nat /\ Len(past) < MaxVersions
  BY <1>1, <1>2 DEF Versions!CreatePolicy
<1>4. entry \in Versions!Version /\ ~entry.deprecated
  BY <1>2, <1>3, EntryIsVersion
<1>5. PICK new : new = Append(past, entry)
  OBVIOUS
<1>6. /\ new \in Seq(Versions!Version) /\ Len(new) = Len(past) + 1 /\ new[Len(past) + 1] = entry
      /\ \A i \in DOMAIN past : new[i] = past[i]
  BY <1>3, <1>4, <1>5
<1>7. versions' = [versions EXCEPT ![n] = new]
  BY <1>2, <1>5 DEF Versions!CreatePolicy
<1>8. inForce' = [inForce EXCEPT ![n] = Len(versions'[n])]
  BY DEF Versions!CreatePolicy
<1>9. /\ listed' \in Seq(Policies)
      /\ \A j \in DOMAIN listed : j \in DOMAIN listed' /\ listed'[j] = listed[j]
      /\ \A m \in Policies : m \in Versions!ToSet(listed') <=> m \in Versions!ToSet(listed) \cup {n}
  <2>1. PICK keys : keys = Versions!WithKey(listed, n)
    OBVIOUS
  <2>2. /\ keys \in Seq(Policies)
        /\ \A j \in DOMAIN listed : j \in DOMAIN keys /\ keys[j] = listed[j]
        /\ \A m \in Policies : m \in Versions!ToSet(keys) <=> m \in Versions!ToSet(listed) \cup {n}
    <3>1. listed \in Seq(Policies)
      BY <1>1
    <3>2. Versions!WithKey(listed, n) \in Seq(Policies)
      BY <3>1, KeyAdded
    <3>3. \A j \in DOMAIN listed :
              /\ j \in DOMAIN Versions!WithKey(listed, n)
              /\ Versions!WithKey(listed, n)[j] = listed[j]
      BY <3>1, KeyAdded
    <3>4. \A m \in Policies :
              m \in Versions!ToSet(Versions!WithKey(listed, n))
                  <=> m \in Versions!ToSet(listed) \cup {n}
      BY <3>1, KeyAdded
    <3> QED
      BY <2>1, <3>2, <3>3, <3>4
  <2>3. listed' = keys
    BY <2>1 DEF Versions!CreatePolicy
  <2> QED
    BY <2>2, <2>3
<1>10. versions'[n] = new /\ inForce'[n] = Len(new) /\ Len(new) \in Nat
  BY <1>1, <1>6, <1>7, <1>8
<1>11. versions' \in [Policies -> Seq(Versions!Version)] /\ inForce' \in [Policies -> Nat]
  BY <1>1, <1>6, <1>7, <1>8, <1>10
<1>12. \A m \in Policies \ {n} : versions'[m] = versions[m] /\ inForce'[m] = inForce[m]
  BY <1>1, <1>7, <1>8
<1>13. ASSUME NEW m \in {n}
       PROVE  /\ Len(versions'[m]) = Len(versions[m]) + 1 /\ Len(versions[m]) < MaxVersions
              /\ inForce'[m] = Len(versions'[m])
              /\ ~versions'[m][Len(versions'[m])].deprecated
              /\ \A i \in DOMAIN versions[m] :
                    versions'[m][i].version = versions[m][i].version
  BY <1>2, <1>3, <1>4, <1>6, <1>10
<1> QED
  BY <1>9, <1>11, <1>12, <1>13, VersionsAdded

(* update_policy.                                                            *)
LEMMA UpdateKeeps ==
    ASSUME Ledger, NEW c \in Callers, NEW n \in Policies, Versions!UpdatePolicy(c, n)
    PROVE  Ledger' /\ Grows /\ listed' # <<>>
<1> USE VersionsAssumption
<1>1. /\ versions \in [Policies -> Seq(Versions!Version)] /\ inForce \in [Policies -> 0..MaxVersions]
      /\ listed \in Seq(Policies) /\ listed' = listed
      /\ \A m \in Policies : m \in Versions!ToSet(listed) <=> inForce[m] # 0
      /\ inForce[n] # 0 <=> versions[n] # <<>>
  BY DEF Ledger, OneInForce, Versions!UpdatePolicy
<1>2. PICK past, entry : past = versions[n] /\ entry = Versions!Entry(Len(past) + 1)
  OBVIOUS
<1>3. past \in Seq(Versions!Version) /\ Len(past) \in Nat /\ Len(past) < MaxVersions /\ past # <<>>
  BY <1>1, <1>2 DEF Versions!UpdatePolicy
<1>4. entry \in Versions!Version /\ ~entry.deprecated
  BY <1>2, <1>3, EntryIsVersion
<1>5. PICK old : old = Versions!Deprecated(past)
  OBVIOUS
<1>6. /\ old \in Seq(Versions!Version) /\ Len(old) = Len(past)
      /\ \A i \in DOMAIN past : old[i].version = past[i].version
  <2>1. PICK last : last = [past[Len(past)] EXCEPT !.deprecated = TRUE]
    OBVIOUS
  <2>2. past[Len(past)] \in Versions!Version
    BY <1>3
  <2>3. last \in Versions!Version /\ last.version = past[Len(past)].version
    BY <2>1, <2>2 DEF Versions!Version
  <2>4. old = [past EXCEPT ![Len(past)] = last]
    BY <1>5, <2>1 DEF Versions!Deprecated
  <2>5. old \in Seq(Versions!Version) /\ Len(old) = Len(past)
    BY <1>3, <2>3, <2>4
  <2>6. \A i \in DOMAIN past : old[i] = IF i = Len(past) THEN last ELSE past[i]
    BY <2>4
  <2> QED
    BY <2>3, <2>5, <2>6
<1>7. PICK new : new = Append(old, entry)
  OBVIOUS
<1>8. /\ new \in Seq(Versions!Version) /\ Len(new) = Len(past) + 1 /\ new[Len(past) + 1] = entry
      /\ \A i \in DOMAIN past : new[i].version = past[i].version
  <2>1. \A i \in DOMAIN past : i \in DOMAIN old
    BY <1>3, <1>6
  <2> QED
    BY <1>3, <1>4, <1>6, <1>7, <2>1
<1>9. versions' = [versions EXCEPT ![n] = new]
  BY <1>2, <1>5, <1>7 DEF Versions!UpdatePolicy
<1>10. inForce' = [inForce EXCEPT ![n] = Len(versions'[n])]
  BY DEF Versions!UpdatePolicy
<1>11. versions'[n] = new /\ inForce'[n] = Len(new) /\ Len(new) \in Nat
  BY <1>1, <1>8, <1>9, <1>10
<1>12. versions' \in [Policies -> Seq(Versions!Version)] /\ inForce' \in [Policies -> Nat]
  BY <1>1, <1>8, <1>9, <1>10, <1>11
<1>13. \A m \in Policies \ {n} : versions'[m] = versions[m] /\ inForce'[m] = inForce[m]
  BY <1>1, <1>9, <1>10
<1>14. n \in Versions!ToSet(listed)
  BY <1>1, <1>2, <1>3
<1>15. \A m \in Policies : m \in Versions!ToSet(listed') <=> m \in Versions!ToSet(listed) \cup {n}
  BY <1>1, <1>14
<1>16. ASSUME NEW m \in {n}
       PROVE  /\ Len(versions'[m]) = Len(versions[m]) + 1 /\ Len(versions[m]) < MaxVersions
              /\ inForce'[m] = Len(versions'[m])
              /\ ~versions'[m][Len(versions'[m])].deprecated
              /\ \A i \in DOMAIN versions[m] :
                    versions'[m][i].version = versions[m][i].version
  BY <1>2, <1>3, <1>4, <1>8, <1>11
<1>17. /\ listed' \in Seq(Policies)
       /\ \A j \in DOMAIN listed : j \in DOMAIN listed' /\ listed'[j] = listed[j]
  BY <1>1
<1> QED
  BY <1>12, <1>13, <1>15, <1>16, <1>17, VersionsAdded

(* activate_policy_version.                                                  *)
LEMMA ActivateKeeps ==
    ASSUME Ledger, NEW c \in Callers, NEW n \in Policies, Versions!ActivatePolicyVersion(c, n)
    PROVE  Ledger' /\ Grows /\ listed' # <<>>
<1> USE VersionsAssumption
<1>1. /\ versions \in [Policies -> Seq(Versions!Version)] /\ inForce \in [Policies -> 0..MaxVersions]
      /\ \A m \in Policies : Len(versions[m]) <= MaxVersions /\ inForce[m] <= Len(versions[m])
      /\ \A m \in Policies : m \in Versions!ToSet(listed) <=> inForce[m] # 0
      /\ \A m \in Policies : inForce[m] # 0 <=> versions[m] # <<>>
      /\ listed \in Seq(Policies)
  BY DEF Ledger, OneInForce
<1>2. PICK i \in DOMAIN versions[n] : inForce' = [inForce EXCEPT ![n] = i]
  BY DEF Versions!ActivatePolicyVersion
<1>3. UNCHANGED <<versions, listed>>
  BY DEF Versions!ActivatePolicyVersion
<1>4. i \in 1..Len(versions[n]) /\ Len(versions[n]) \in Nat /\ versions[n] # <<>>
  BY <1>1, <1>2
<1>5. i \in 0..MaxVersions /\ i # 0 /\ i <= Len(versions[n])
  BY <1>1, <1>4
<1>6. \A m \in Policies : inForce'[m] = IF m = n THEN i ELSE inForce[m]
  BY <1>1, <1>2
<1>7. inForce' \in [Policies -> 0..MaxVersions]
  BY <1>1, <1>2, <1>5
<1>8. \A m \in Policies : inForce'[m] <= Len(versions[m])
  BY <1>1, <1>5, <1>6
<1>9. \A m \in Policies : inForce'[m] # 0 <=> inForce[m] # 0
  BY <1>1, <1>4, <1>5, <1>6
<1>10. Ledger'
  BY <1>1, <1>3, <1>7, <1>8, <1>9
  DEF Ledger, OneInForce, Versions!LatestIsCurrent
<1>11. Grows
  BY <1>3 DEF Grows
<1>12. n \in Versions!ToSet(listed)
  BY <1>1, <1>4
<1> QED
  BY <1>3, <1>10, <1>11, <1>12 DEF Versions!ToSet

(* The predefined policies that are not listed follow, each once.             *)
LEMMA PredefinedListed ==
    ASSUME Ledger, Versions!ListPredefined
    PROVE  /\ listed' \in Seq(Policies)
           /\ \A j \in DOMAIN listed : j \in DOMAIN listed' /\ listed'[j] = listed[j]
           /\ \A m \in Policies : m \in Versions!ToSet(listed')
                  <=> m \in Versions!ToSet(listed) \cup Versions!ToSet(Predefined)
<1> USE VersionsAssumption
<1>1. PICK n : n = Versions!Cardinality(Versions!Fresh)
  OBVIOUS
<1>2. PICK order \in [1..n -> Versions!Fresh] :
        /\ Versions!ToSet(order) = Versions!Fresh
        /\ listed' = listed \o [i \in DOMAIN order |-> Predefined[order[i]]]
  BY <1>1 DEF Versions!ListPredefined
<1> DEFINE fresh == [i \in 1..n |-> Predefined[order[i]]]
<1>3. listed \in Seq(Policies)
  BY DEF Ledger
<1>4. n \in Nat
  <2>1. IsFiniteSet(1..Len(Predefined))
    BY FS_Interval
  <2>2. IsFiniteSet(Versions!Fresh)
    BY <2>1, FS_Subset DEF Versions!Fresh
  <2>3. Versions!Cardinality(Versions!Fresh) = Cardinality(Versions!Fresh)
    BY VersionsCount
  <2> QED
    BY <1>1, <2>2, <2>3, FS_CardinalityType
<1>5. \A i \in 1..n : order[i] \in DOMAIN Predefined /\ Predefined[order[i]] \in Policies
  BY <1>2 DEF Versions!Fresh
<1>6. fresh \in Seq(Policies) /\ Len(fresh) = n
  BY <1>4, <1>5
<1>7. listed' = listed \o fresh
  BY <1>2
<1> HIDE DEF fresh
<1>8. /\ listed' \in Seq(Policies) /\ Len(listed') = Len(listed) + n
      /\ \A j \in 1..Len(listed') :
            listed'[j] = IF j <= Len(listed) THEN listed[j] ELSE fresh[j - Len(listed)]
  BY <1>3, <1>6, <1>7
<1>9. \A j \in DOMAIN listed : j \in DOMAIN listed' /\ listed'[j] = listed[j]
  BY <1>3, <1>4, <1>8
<1>10. ASSUME NEW j \in DOMAIN listed'
       PROVE  listed'[j] \in Versions!ToSet(listed) \cup Versions!ToSet(Predefined)
  <2>1. CASE j <= Len(listed)
    BY <1>3, <1>8, <2>1 DEF Versions!ToSet
  <2>2. CASE ~(j <= Len(listed))
    <3>1. j - Len(listed) \in 1..n
      BY <1>3, <1>4, <1>8, <2>2
    <3>3. j \in 1..Len(listed')
      BY <1>8
    <3>4. listed'[j] = fresh[j - Len(listed)]
      BY <1>8, <2>2, <3>3
    <3>2. listed'[j] = Predefined[order[j - Len(listed)]]
      BY <3>1, <3>4 DEF fresh
    <3> QED
      BY <1>5, <3>1, <3>2 DEF Versions!ToSet
  <2> QED
    BY <2>1, <2>2
<1>11. ASSUME NEW m \in Versions!ToSet(Predefined), m \notin Versions!ToSet(listed)
       PROVE  m \in Versions!ToSet(listed')
  <2>1. PICK i \in DOMAIN Predefined : Predefined[i] = m
    BY <1>11 DEF Versions!ToSet
  <2>2. i \in Versions!Fresh
    BY <1>11, <2>1 DEF Versions!Fresh
  <2>3. PICK k \in 1..n : order[k] = i
    BY <1>2, <2>2 DEF Versions!ToSet
  <2>4. /\ Len(listed) + k \in 1..Len(listed') /\ ~(Len(listed) + k <= Len(listed))
        /\ (Len(listed) + k) - Len(listed) = k
    BY <1>3, <1>4, <1>8
  <2>5. listed'[Len(listed) + k] = m
    BY <1>8, <2>1, <2>3, <2>4 DEF fresh
  <2>6. Len(listed) + k \in DOMAIN listed'
    BY <1>8, <2>4
  <2> QED
    BY <2>5, <2>6 DEF Versions!ToSet
<1>12. \A m \in Versions!ToSet(listed) : m \in Versions!ToSet(listed')
  BY <1>9 DEF Versions!ToSet
<1>13. \A m \in Versions!ToSet(listed') :
            m \in Versions!ToSet(listed) \cup Versions!ToSet(Predefined)
  BY <1>10 DEF Versions!ToSet
<1> QED
  BY <1>8, <1>9, <1>11, <1>12, <1>13

(* initialize() loads the policies that come with the engine, again too.     *)
LEMMA LoadKeeps ==
    ASSUME Ledger, NEW c \in Callers, Versions!Initialize(c)
    PROVE  Ledger' /\ Grows /\ listed' # <<>>
<1> USE VersionsAssumption
<1>1. /\ versions \in [Policies -> Seq(Versions!Version)] /\ inForce \in [Policies -> 0..MaxVersions]
  BY DEF Ledger
<1>2. PICK S : S = Versions!ToSet(Predefined)
  OBVIOUS
<1>3. S \in SUBSET Policies /\ S # {}
  <2>1. 1 \in DOMAIN Predefined
    OBVIOUS
  <2> QED
    BY <1>2, <2>1 DEF Versions!ToSet
<1>4. /\ versions' = [n \in Policies |->
                        IF n \in S THEN Append(versions[n], Versions!Entry(0)) ELSE versions[n]]
      /\ inForce' = [n \in Policies |-> IF n \in S THEN Len(versions'[n]) ELSE inForce[n]]
      /\ \A n \in S : Len(versions[n]) < MaxVersions
      /\ Versions!ListPredefined
  BY <1>2 DEF Versions!Initialize
<1>5. Versions!Entry(0) \in Versions!Version /\ ~Versions!Entry(0).deprecated
  BY EntryIsVersion
<1>6. ASSUME NEW n \in S
      PROVE  /\ versions'[n] \in Seq(Versions!Version)
             /\ Len(versions'[n]) = Len(versions[n]) + 1 /\ Len(versions[n]) < MaxVersions
             /\ inForce'[n] = Len(versions'[n]) /\ Len(versions'[n]) \in Nat
             /\ ~versions'[n][Len(versions'[n])].deprecated
             /\ \A i \in DOMAIN versions[n] : versions'[n][i].version = versions[n][i].version
  <2>1. PICK past, entry : past = versions[n] /\ entry = Versions!Entry(0)
    OBVIOUS
  <2>2. past \in Seq(Versions!Version) /\ entry \in Versions!Version /\ ~entry.deprecated
    BY <1>1, <1>3, <1>5, <2>1
  <2>3. versions'[n] = Append(past, entry) /\ inForce'[n] = Len(versions'[n])
        /\ Len(past) < MaxVersions
    BY <1>3, <1>4, <2>1
  <2>4. PICK new : new = Append(past, entry)
    OBVIOUS
  <2>5. /\ new \in Seq(Versions!Version) /\ Len(new) = Len(past) + 1 /\ new[Len(new)] = entry
        /\ \A i \in DOMAIN past : new[i] = past[i]
    BY <2>2, <2>4
  <2> QED
    BY <2>1, <2>2, <2>3, <2>4, <2>5
<1>7. \A n \in Policies \ S : versions'[n] = versions[n] /\ inForce'[n] = inForce[n]
  BY <1>4
<1>8. versions' \in [Policies -> Seq(Versions!Version)] /\ inForce' \in [Policies -> Nat]
  <2>1. \A n \in Policies : versions'[n] \in Seq(Versions!Version) /\ inForce'[n] \in Nat
    BY <1>1, <1>6, <1>7
  <2> QED
    BY <1>4, <2>1
<1>9. /\ listed' \in Seq(Policies)
      /\ \A j \in DOMAIN listed : j \in DOMAIN listed' /\ listed'[j] = listed[j]
      /\ \A m \in Policies : m \in Versions!ToSet(listed') <=> m \in Versions!ToSet(listed) \cup S
  BY <1>2, <1>4, PredefinedListed
<1> QED
  BY <1>3, <1>6, <1>7, <1>8, <1>9, VersionsAdded

(* What may happen to the policies beside an upload.                          *)
LEMMA LedgerRests ==
    ASSUME VersionsIInv, UNCHANGED <<versions, inForce, listed>>
    PROVE  Ledger' /\ Grows
<1>1. Ledger
  BY LedgerOf
<1>2. Ledger'
  BY <1>1 DEF Ledger, OneInForce, Versions!LatestIsCurrent
<1> QED
  BY <1>2 DEF Grows

(* A step that leaves the policies alone and moves one caller.                *)
LEMMA MovesKeep ==
    ASSUME VersionsIInv, UNCHANGED <<versions, inForce, listed, uploads, crossed>>,
           initialized' \in BOOLEAN, failed' \in BOOLEAN,
           NEW c \in Callers, NEW new \in Versions!Upload,
           uploading' = [uploading EXCEPT ![c] = new],
           new.pc = "health" => listed # <<>>,
           new.pc \in {"request", "answered"} => new.at \in DOMAIN listed /\ Versions!Uploads(c),
           new.pc = "request" =>
               new.version = Versions!VersionOf(listed[new.at]),
           opa' \in [Policies -> 0..(1 + MaxVersions)], Versions!ServedIsKnown', ServedSoFar'
    PROVE  VersionsIInv'
<1> USE VersionsAssumption
<1>1. Ledger /\ Ledger' /\ Grows
  BY LedgerOf, LedgerRests
<1>2. /\ uploading \in [Callers -> Versions!Upload] /\ uploading'[c] = new
      /\ \A d \in Callers \ {c} : uploading'[d] = uploading[d]
      /\ uploading' \in [Callers -> Versions!Upload]
  BY DEF VersionsIInv, Versions!TypeOK
<1>3. Versions!TypeOK'
  <2>1. uploads' \in 0..MaxUploads
    BY DEF VersionsIInv, Versions!TypeOK
  <2>2. crossed' \in BOOLEAN
    BY DEF VersionsIInv, Versions!TypeOK
  <2> QED
    BY <1>1, <1>2, <2>1, <2>2 DEF Versions!TypeOK, Ledger
<1>4. UploadsAreKnown'
  <2> SUFFICES ASSUME NEW d \in Callers
               PROVE  /\ uploading'[d].pc = "health" => listed' # <<>>
                      /\ uploading'[d].pc \in {"request", "answered"} =>
                            uploading'[d].at \in DOMAIN listed'
                      /\ uploading'[d].pc = "request" =>
                            \E i \in DOMAIN versions'[listed'[uploading'[d].at]] :
                                uploading'[d].version
                                    = 1 + versions'[listed'[uploading'[d].at]][i].version
    BY DEF UploadsAreKnown, Versions!Uploads
  <2>1. CASE d = c
    <3>1. new.at \in DOMAIN listed =>
            /\ inForce[listed[new.at]] \in DOMAIN versions[listed[new.at]]
            /\ Versions!VersionOf(listed[new.at])
                  = 1 + versions[listed[new.at]][inForce[listed[new.at]]].version
      BY <1>1, ListedIsKnown DEF Versions!VersionOf, Versions!VersionAt
    <3> QED
      BY <1>2, <2>1, <3>1
  <2>2. CASE d # c
    BY <1>1, <1>2, <2>2, CarriedStaysKnown
  <2> QED
    BY <2>1, <2>2
<1>5. OneUpload'
  <2>1. \A d \in Callers : uploading'[d].pc \in {"request", "answered"} =>
            uploading[d].pc \in {"request", "answered"}
    BY <1>2 DEF Versions!Uploads
  <2> QED
    BY <2>1 DEF VersionsIInv, OneUpload, Versions!Uploads
<1> QED
  BY <1>1, <1>3, <1>4, <1>5 DEF VersionsIInv, Ledger

(* What a step does to the hypothesis of ServedSoFar.                         *)
LEMMA InitializeStep ==
    ASSUME VersionsIInv, NEW c \in Callers, Versions!Initialize(c)
    PROVE  VersionsIInv'
<1> USE VersionsAssumption
<1>1. Ledger' /\ Grows /\ listed' # <<>>
  BY LedgerOf, LoadKeeps
<1>2. PICK new : new = [Versions!Nothing EXCEPT !.pc = "health"]
  OBVIOUS
<1>3. new \in Versions!Upload /\ new.pc = "health"
  <2>1. Versions!Nothing \in Versions!Upload
    BY DEF Versions!Nothing, Versions!Upload
  <2> QED
    BY <1>2, <2>1 DEF Versions!Upload
<1>4. uploading' = [uploading EXCEPT ![c] = new]
  BY <1>2 DEF Versions!Initialize
<1>5. /\ uploading \in [Callers -> Versions!Upload] /\ uploading'[c] = new
      /\ \A d \in Callers \ {c} : uploading'[d] = uploading[d]
      /\ uploading' \in [Callers -> Versions!Upload]
  BY <1>3, <1>4 DEF VersionsIInv, Versions!TypeOK
<1>6. UNCHANGED <<initialized, opa, uploads, crossed, failed>>
  BY DEF Versions!Initialize
<1>7. Versions!TypeOK'
  <2>1. /\ uploads \in 0..MaxUploads /\ opa \in [Policies -> 0..(1 + MaxVersions)]
        /\ initialized \in BOOLEAN /\ crossed \in BOOLEAN /\ failed \in BOOLEAN
    BY DEF VersionsIInv, Versions!TypeOK
  <2> QED
    BY <1>1, <1>5, <1>6, <2>1 DEF Versions!TypeOK, Ledger
<1>8. UploadsAreKnown'
  <2> SUFFICES ASSUME NEW d \in Callers
               PROVE  /\ uploading'[d].pc = "health" => listed' # <<>>
                      /\ uploading'[d].pc \in {"request", "answered"} =>
                            uploading'[d].at \in DOMAIN listed'
                      /\ uploading'[d].pc = "request" =>
                            \E i \in DOMAIN versions'[listed'[uploading'[d].at]] :
                                uploading'[d].version
                                    = 1 + versions'[listed'[uploading'[d].at]][i].version
    BY DEF UploadsAreKnown, Versions!Uploads
  <2>1. CASE d = c
    BY <1>1, <1>3, <1>5, <2>1
  <2>2. CASE d # c
    BY <1>1, <1>5, <2>2, CarriedStaysKnown
  <2> QED
    BY <2>1, <2>2
<1>9. OneUpload'
  <2>1. \A d \in Callers : uploading'[d].pc \in {"request", "answered"} =>
            uploading[d].pc \in {"request", "answered"}
    BY <1>3, <1>5
  <2> QED
    BY <1>6, <2>1 DEF VersionsIInv, OneUpload, Versions!Uploads
<1>10. ServedSoFar'
  BY <1>3, <1>5 DEF ServedSoFar
<1>11. Versions!ServedIsKnown'
  BY <1>1, <1>6, ServedStaysKnown
<1> QED
  BY <1>1, <1>7, <1>8, <1>9, <1>10, <1>11 DEF VersionsIInv, Ledger

(* A caller that is through with the server, or has lost it.                  *)
LEMMA NothingIsUpload ==
    /\ Versions!Nothing \in Versions!Upload /\ Versions!Nothing.pc = "none"
  BY VersionsAssumption DEF Versions!Nothing, Versions!Upload

(* An upload that fails is over, and is said to have failed.                 *)
LEMMA GivesUp ==
    ASSUME VersionsIInv, NEW c \in Callers,
           UNCHANGED <<versions, inForce, listed, opa, uploads, crossed>>,
           uploading' = [uploading EXCEPT ![c] = Versions!Nothing],
           initialized' \in BOOLEAN, failed' = TRUE
    PROVE  VersionsIInv'
<1>1. ServedSoFar'
  BY DEF ServedSoFar
<1>2. Versions!ServedIsKnown'
  BY LedgerRests, ServedStaysKnown
<1>3. opa' \in [Policies -> 0..(1 + MaxVersions)]
  BY DEF VersionsIInv, Versions!TypeOK
<1>4. failed' \in BOOLEAN
  OBVIOUS
<1> QED
  BY <1>1, <1>2, <1>3, <1>4, NothingIsUpload, MovesKeep

(* The server is up: the upload begins.                                      *)
LEMMA HealthAnswersStep ==
    ASSUME VersionsIInv, NEW c \in Callers, Versions!HealthAnswers(c)
    PROVE  VersionsIInv'
<1>1. UNCHANGED <<versions, inForce, listed, initialized, opa, failed>>
  BY DEF Versions!HealthAnswers
<1>2. Versions!UploadBegins(c, TRUE) /\ TRUE \in BOOLEAN
  BY DEF Versions!HealthAnswers
<1>3. listed # <<>>
  BY DEF Versions!HealthAnswers, VersionsIInv, UploadsAreKnown
<1>4. Ledger' /\ Grows
  BY <1>1, LedgerRests
<1>5. initialized' \in BOOLEAN
  BY <1>1 DEF VersionsIInv, Versions!TypeOK
<1> QED
  BY <1>1, <1>2, <1>3, <1>4, <1>5, BeginsKeeps

(* The server has stored what the request carries.                           *)
LEMMA ServerStoresStep ==
    ASSUME VersionsIInv, NEW c \in Callers, Versions!ServerStores(c)
    PROVE  VersionsIInv'
<1> USE VersionsAssumption
<1>1. PICK new : new = [uploading[c] EXCEPT !.pc = "answered"]
  OBVIOUS
<1>2. uploading \in [Callers -> Versions!Upload] /\ uploading[c].pc = "request"
  BY DEF VersionsIInv, Versions!TypeOK, Versions!ServerStores
<1>3. /\ new \in Versions!Upload /\ new.pc = "answered" /\ new.at = uploading[c].at
      /\ new.size = uploading[c].size
  <2>1. uploading[c] \in Versions!Upload
    BY <1>2
  <2> QED
    BY <1>1, <2>1 DEF Versions!Upload
<1>4. /\ uploading' = [uploading EXCEPT ![c] = new]
      /\ UNCHANGED <<initialized, versions, inForce, listed, uploads, crossed>>
  BY <1>1 DEF Versions!ServerStores
<1>5. Versions!Uploads(c)
  BY <1>2 DEF Versions!Uploads
<1>6. /\ new.at \in DOMAIN listed /\ listed[new.at] \in Policies
      /\ \E i \in DOMAIN versions[listed[new.at]] :
            uploading[c].version = 1 + versions[listed[new.at]][i].version
  <2>1. /\ new.at \in DOMAIN listed
        /\ \E i \in DOMAIN versions[listed[new.at]] :
              uploading[c].version = 1 + versions[listed[new.at]][i].version
    BY <1>2, <1>3, <1>5 DEF VersionsIInv, UploadsAreKnown
  <2>2. listed \in Seq(Policies)
    BY DEF VersionsIInv, Versions!TypeOK
  <2> QED
    BY <2>1, <2>2
<1>7. /\ opa \in [Policies -> 0..(1 + MaxVersions)] /\ uploading[c].version \in 0..(1 + MaxVersions)
      /\ initialized' \in BOOLEAN
  BY <1>2, <1>4 DEF VersionsIInv, Versions!TypeOK, Versions!Upload
<1>8. CASE opa' = [opa EXCEPT ![listed[new.at]] = uploading[c].version] /\ UNCHANGED failed
  <2>1. \A n \in Policies : opa'[n] = IF n = listed[new.at] THEN uploading[c].version ELSE opa[n]
    BY <1>6, <1>7, <1>8
  <2>2. opa' \in [Policies -> 0..(1 + MaxVersions)]
    BY <1>7, <1>8
  <2>3. Versions!ServedIsKnown'
    BY <1>4, <1>6, <2>1 DEF VersionsIInv, Versions!ServedIsKnown
  <2>4. /\ uploading'[c] = new
        /\ \A d \in Callers \ {c} : uploading'[d] = uploading[d]
    BY <1>2, <1>4
  <2>5. ServedSoFar'
    <3> SUFFICES ASSUME ~crossed, ~failed, \A d \in Callers : uploading'[d].pc # "health"
                 PROVE  /\ (\A d \in Callers : ~Versions!Uploads(d)') =>
                              \A j \in DOMAIN listed : ServedAt(j)'
                        /\ \A d \in Callers : Versions!Uploads(d)' =>
                              /\ uploading'[d].size = Len(listed)
                              /\ uploading'[d].pc = "request" =>
                                   uploading'[d].version = Versions!VersionOf(listed[uploading[d].at])'
                              /\ \A j \in DOMAIN listed :
                                    j < uploading'[d].at
                                      \/ (j = uploading'[d].at /\ uploading'[d].pc = "answered")
                                    => ServedAt(j)'
      BY <1>4, <1>8 DEF ServedSoFar
    <3>1. \A d \in Callers : uploading[d].pc # "health"
      BY <1>2, <2>4
    <3>2. /\ uploading[c].size = Len(listed)
          /\ uploading[c].version = Versions!VersionOf(listed[new.at])
          /\ \A j \in DOMAIN listed : j < new.at => ServedAt(j)
      BY <1>2, <1>3, <1>5, <3>1 DEF VersionsIInv, ServedSoFar
    <3>3. ASSUME NEW d \in Callers, Versions!Uploads(d)' PROVE d = c
      <4>1. CASE d # c
        <5>1. Versions!Uploads(d)
          BY <2>4, <3>3, <4>1 DEF Versions!Uploads
        <5> QED
          BY <1>5, <4>1, <5>1 DEF VersionsIInv, OneUpload
      <4> QED
        BY <4>1
    <3>4. Versions!Uploads(c)'
      BY <1>3, <2>4 DEF Versions!Uploads
    <3>5. ASSUME NEW j \in DOMAIN listed, j < new.at \/ j = new.at PROVE ServedAt(j)'
      <4>1. listed[j] \in Policies
        BY DEF VersionsIInv, Versions!TypeOK
      <4>2. opa'[listed[j]] = Versions!VersionOf(listed[j])
        BY <2>1, <3>2, <3>5, <4>1 DEF ServedAt
      <4> QED
        BY <1>4, <4>2 DEF ServedAt, Versions!VersionOf
    <3> QED
      BY <1>3, <2>4, <3>2, <3>3, <3>4, <3>5
  <2>6. failed' \in BOOLEAN
    BY <1>8 DEF VersionsIInv, Versions!TypeOK
  <2> QED
    BY <1>3, <1>4, <1>5, <1>6, <1>7, <2>2, <2>3, <2>5, <2>6, MovesKeep
<1>9. CASE UNCHANGED opa /\ failed' = TRUE
  <2>1. ServedSoFar'
    BY <1>9 DEF ServedSoFar
  <2>2. Versions!ServedIsKnown'
    BY <1>4, <1>9, LedgerRests, ServedStaysKnown
  <2> QED
    BY <1>3, <1>4, <1>5, <1>6, <1>7, <1>9, <2>1, <2>2, MovesKeep
<1> QED
  BY <1>3, <1>8, <1>9 DEF Versions!ServerStores

(* The upload goes on to the next policy of the list.                        *)
LEMMA NextRequestStep ==
    ASSUME VersionsIInv, NEW c \in Callers, Versions!NextRequest(c)
    PROVE  VersionsIInv'
<1> USE VersionsAssumption
<1>1. PICK next : next = uploading[c].at + 1
  OBVIOUS
<1>2. PICK new : new = [uploading[c] EXCEPT !.pc = "request", !.at = next,
                                            !.version = Versions!VersionOf(listed[next])]
  OBVIOUS
<1>3. /\ uploading \in [Callers -> Versions!Upload] /\ uploading[c].pc = "answered"
      /\ uploading[c].at \in Nat /\ uploading[c].at < Len(listed)
      /\ listed \in Seq(Policies)
  BY DEF VersionsIInv, Versions!TypeOK, Versions!NextRequest, Versions!Upload
<1>4. next \in DOMAIN listed /\ next \in Nat
  BY <1>1, <1>3
<1>5. Versions!VersionOf(listed[next]) \in 0..(1 + MaxVersions)
  BY <1>4, LedgerOf, ListedIsKnown
<1>6. /\ new \in Versions!Upload /\ new.pc = "request" /\ new.at = next
      /\ new.version = Versions!VersionOf(listed[next]) /\ new.size = uploading[c].size
  <2>1. uploading[c] \in Versions!Upload
    BY <1>3
  <2> QED
    BY <1>2, <1>4, <1>5, <2>1 DEF Versions!Upload
<1>7. /\ uploading' = [uploading EXCEPT ![c] = new]
      /\ UNCHANGED <<initialized, versions, inForce, listed, opa, uploads, crossed, failed>>
  BY <1>1, <1>2 DEF Versions!NextRequest
<1>8. Versions!Uploads(c)
  BY <1>3 DEF Versions!Uploads
<1>9. /\ uploading'[c] = new
      /\ \A d \in Callers \ {c} : uploading'[d] = uploading[d]
  BY <1>3, <1>7
<1>10. ServedSoFar'
  <2> SUFFICES ASSUME ~crossed, ~failed, \A d \in Callers : uploading'[d].pc # "health"
               PROVE  /\ (\A d \in Callers : ~Versions!Uploads(d)') =>
                            \A j \in DOMAIN listed : ServedAt(j)'
                      /\ \A d \in Callers : Versions!Uploads(d)' =>
                            /\ uploading'[d].size = Len(listed)
                            /\ uploading'[d].pc = "request" =>
                                 uploading'[d].version = Versions!VersionOf(listed[uploading[d].at])'
                            /\ \A j \in DOMAIN listed :
                                  j < uploading'[d].at
                                    \/ (j = uploading'[d].at /\ uploading'[d].pc = "answered")
                                  => ServedAt(j)'
    BY <1>7 DEF ServedSoFar
  <2>1. \A d \in Callers : uploading[d].pc # "health"
    BY <1>3, <1>9
  <2>2. /\ uploading[c].size = Len(listed)
        /\ \A j \in DOMAIN listed : j < uploading[c].at \/ j = uploading[c].at => ServedAt(j)
    BY <1>3, <1>8, <2>1 DEF VersionsIInv, ServedSoFar
  <2>3. ASSUME NEW d \in Callers, Versions!Uploads(d)' PROVE d = c
    <3>1. CASE d # c
      <4>1. Versions!Uploads(d)
        BY <1>9, <2>3, <3>1 DEF Versions!Uploads
      <4> QED
        BY <1>8, <3>1, <4>1 DEF VersionsIInv, OneUpload
    <3> QED
      BY <3>1
  <2>4. Versions!Uploads(c)'
    BY <1>6, <1>9 DEF Versions!Uploads
  <2>5. ASSUME NEW j \in DOMAIN listed, j < next PROVE ServedAt(j)'
    <3>1. j \in Nat
      BY <1>3
    <3>2. ServedAt(j)
      BY <1>1, <1>3, <2>2, <2>5, <3>1
    <3> QED
      BY <1>7, <3>2 DEF ServedAt, Versions!VersionOf
  <2>6. uploading'[c].version = Versions!VersionOf(listed[uploading[c].at])'
    BY <1>6, <1>7, <1>9 DEF Versions!VersionOf
  <2> QED
    BY <1>6, <1>9, <2>2, <2>3, <2>4, <2>5, <2>6
<1>11. Versions!ServedIsKnown'
  BY <1>7, LedgerRests, ServedStaysKnown
<1>12. /\ opa' \in [Policies -> 0..(1 + MaxVersions)]
       /\ initialized' \in BOOLEAN /\ failed' \in BOOLEAN
  BY <1>7 DEF VersionsIInv, Versions!TypeOK
<1> QED
  BY <1>4, <1>6, <1>7, <1>8, <1>10, <1>11, <1>12, MovesKeep

(* The upload is at the end of the list, or the list has grown under it.     *)
LEMMA UploadEndsStep ==
    ASSUME VersionsIInv, NEW c \in Callers, Versions!UploadEnds(c)
    PROVE  VersionsIInv'
<1>1. /\ uploading' = [uploading EXCEPT ![c] = Versions!Nothing]
      /\ UNCHANGED <<versions, inForce, listed, opa, uploads, crossed, failed>>
      /\ uploading[c].pc = "answered"
      /\ uploading[c].size # Len(listed) \/ uploading[c].at = Len(listed)
  BY DEF Versions!UploadEnds, Versions!LoopEnds
<1>2. initialized' \in BOOLEAN
  <2>1. initialized \in BOOLEAN /\ uploading[c].starts \in BOOLEAN
    BY DEF VersionsIInv, Versions!TypeOK, Versions!Upload
  <2>2. initialized' = (initialized \/ uploading[c].starts)
    BY DEF Versions!UploadEnds, Versions!LoopEnds
  <2> QED
    BY <2>1, <2>2
<1>3. /\ uploading \in [Callers -> Versions!Upload] /\ listed \in Seq(Policies)
      /\ uploading'[c] = Versions!Nothing
      /\ \A d \in Callers \ {c} : uploading'[d] = uploading[d]
  BY <1>1 DEF VersionsIInv, Versions!TypeOK
<1>4. Versions!Uploads(c)
  BY <1>1 DEF Versions!Uploads
<1>5. ServedSoFar'
  <2> SUFFICES ASSUME ~crossed, ~failed, \A d \in Callers : uploading'[d].pc # "health"
               PROVE  /\ \A d \in Callers : ~Versions!Uploads(d)'
                      /\ \A j \in DOMAIN listed : ServedAt(j)'
    BY <1>1 DEF ServedSoFar
  <2>1. \A d \in Callers : uploading[d].pc # "health"
    BY <1>1, <1>3
  <2>2. /\ uploading[c].at = Len(listed)
        /\ \A j \in DOMAIN listed : j < uploading[c].at \/ j = uploading[c].at => ServedAt(j)
    BY <1>1, <1>4, <2>1 DEF VersionsIInv, ServedSoFar
  <2>3. \A j \in DOMAIN listed : ServedAt(j)
    BY <1>3, <2>2
  <2>4. \A j \in DOMAIN listed : ServedAt(j)'
    BY <1>1, <2>3 DEF ServedAt, Versions!VersionOf
  <2>5. ASSUME NEW d \in Callers, Versions!Uploads(d)' PROVE FALSE
    <3>1. CASE d = c
      BY <1>3, <2>5, <3>1, NothingIsUpload DEF Versions!Uploads
    <3>2. CASE d # c
      <4>1. Versions!Uploads(d)
        BY <1>3, <2>5, <3>2 DEF Versions!Uploads
      <4> QED
        BY <1>4, <3>2, <4>1 DEF VersionsIInv, OneUpload
    <3> QED
      BY <3>1, <3>2
  <2> QED
    BY <2>4, <2>5
<1>6. Versions!ServedIsKnown'
  BY <1>1, LedgerRests, ServedStaysKnown
<1>7. opa' \in [Policies -> 0..(1 + MaxVersions)] /\ failed' \in BOOLEAN
  BY <1>1 DEF VersionsIInv, Versions!TypeOK
<1> QED
  BY <1>1, <1>2, <1>5, <1>6, <1>7, NothingIsUpload, MovesKeep

(* Every step keeps the invariant.                                           *)
LEMMA VersionsKept ==
    ASSUME VersionsIInv, Versions!Next \/ UNCHANGED versionVars
    PROVE  VersionsIInv'
<1> USE DEF VersionsIInv
<1>1. CASE UNCHANGED versionVars
  BY <1>1 DEF versionVars, Versions!TypeOK, OneInForce, UploadsAreKnown, OneUpload, ServedSoFar,
              ServedAt, Versions!VersionOf, Versions!Uploads, Versions!LatestIsCurrent,
              Versions!ServedIsKnown
<1>2. CASE Versions!GetPolicyVersions
  BY <1>1, <1>2 DEF Versions!GetPolicyVersions, Versions!vars, versionVars
<1> HIDE DEF VersionsIInv
<1>3. ASSUME NEW c \in Callers, NEW n \in Policies,
             \/ Versions!CreatePolicy(c, n)
             \/ Versions!UpdatePolicy(c, n)
             \/ Versions!ActivatePolicyVersion(c, n)
      PROVE  VersionsIInv'
  <2>1. Ledger' /\ Grows /\ listed' # <<>>
    BY <1>3, LedgerOf, CreateKeeps, UpdateKeeps, ActivateKeeps
  <2>2. /\ Versions!UploadBegins(c, FALSE) /\ FALSE \in BOOLEAN
        /\ UNCHANGED <<initialized, opa, failed>>
    BY <1>3 DEF Versions!CreatePolicy, Versions!UpdatePolicy, Versions!ActivatePolicyVersion
  <2>3. initialized' \in BOOLEAN
    BY <2>2 DEF VersionsIInv, Versions!TypeOK
  <2> QED
    BY <2>1, <2>2, <2>3, BeginsKeeps
<1>4. ASSUME NEW c \in Callers, Versions!HealthFails(c) PROVE VersionsIInv'
  <2>1. initialized' \in BOOLEAN
    BY <1>4 DEF VersionsIInv, Versions!TypeOK, Versions!HealthFails
  <2> QED
    BY <1>4, <2>1, GivesUp DEF Versions!HealthFails
<1>5. ASSUME NEW c \in Callers, Versions!RequestRaises(c) PROVE VersionsIInv'
  <2>1. initialized' \in BOOLEAN
    <3>1. initialized \in BOOLEAN /\ uploading[c].starts \in BOOLEAN
      BY DEF VersionsIInv, Versions!TypeOK, Versions!Upload
    <3>2. initialized' = (initialized \/ uploading[c].starts)
      BY <1>5 DEF Versions!RequestRaises, Versions!LoopEnds
    <3> QED
      BY <3>1, <3>2
  <2> QED
    BY <1>5, <2>1, GivesUp DEF Versions!RequestRaises, Versions!LoopEnds
<1> QED
  BY <1>1, <1>2, <1>3, <1>4, <1>5, InitializeStep, HealthAnswersStep, ServerStoresStep,
     NextRequestStep, UploadEndsStep DEF Versions!Next

(* With nothing going on, what is listed is served.                           *)
LEMMA VersionsHold == VersionsIInv => Versions!PoliciesAreSound
<1> SUFFICES ASSUME VersionsIInv, \A c \in Callers : Versions!Idle(c), ~crossed, ~failed,
                    NEW n \in Versions!ToSet(listed)
             PROVE  opa[n] = Versions!VersionOf(n)
  BY DEF VersionsIInv, Versions!PoliciesAreSound, Versions!ServedIsActive, Versions!Quiet
<1>1. \A c \in Callers : ~Versions!Uploads(c) /\ uploading[c].pc # "health"
  BY DEF Versions!Idle, Versions!Uploads
<1>2. \A j \in DOMAIN listed : ServedAt(j)
  BY <1>1 DEF VersionsIInv, ServedSoFar
<1>3. PICK j \in DOMAIN listed : listed[j] = n
  BY DEF Versions!ToSet
<1> QED
  BY <1>2, <1>3 DEF ServedAt
-----------------------------------------------------------------------------
(* The stores of tools, services/tool_service.py and api/tools.py.           *)

(* What the reader of pages lists.                                           *)
ReaderLists == Store!Listed(entries, reader.category)

(* As long as no tool from before has joined, what was seen and is still      *)
(* listed comes before the next page.                                        *)
SeenIsBehind ==
    ~reader.joined => \A i \in reader.seen \cap ReaderLists :
                          Store!Position(i, ReaderLists) < reader.offset

(* Nothing of the first listing has left, and what of it comes before the     *)
(* next page was seen.                                                       *)
BehindIsSeen ==
    \A i \in reader.first : /\ i \in ReaderLists
                            /\ Store!Position(i, ReaderLists) < reader.offset => i \in reader.seen

(* Every entry has its own tool under its own id, and no two have one name.   *)
Own(ts) ==
    /\ \A i, j \in DOMAIN ts : ts[i].name = ts[j].name => i = j
    /\ \A i \in DOMAIN ts : ts[i].id = i /\ ts[i].object = i

(* The inductive invariant of the stores.  Entries are each its own until an   *)
(* update says otherwise; the pages do not depend on it.                      *)
StoreIInv ==
    /\ Store!TypeOK /\ SeenIsBehind /\ BehindIsSeen /\ ~reader.twice
    /\ ~reader.on => reader.seen = {}
    /\ \A i \in DOMAIN entries : entries[i].id \in DOMAIN entries
    /\ clashes = 0 => Own(entries)
    /\ store = "http" => clashes = 0

(* The cardinality of the instance is that of FiniteSets.                    *)
LEMMA StoreCount == \A S : Store!Cardinality(S) = Cardinality(S)
<1>1. ASSUME NEW S PROVE Store!IsFiniteSet(S) = IsFiniteSet(S)
  BY DEF IsFiniteSet, Store!IsFiniteSet
<1> QED
  BY <1>1 DEF Cardinality, Store!Cardinality

(* The place of a tool in a listing, and the places in a longer one.          *)
LEMMA PositionIsPlace ==
    ASSUME NEW n \in Nat, NEW L \in SUBSET (1..n), NEW i \in L
    PROVE  /\ Store!Position(i, L) \in Nat /\ Store!Cardinality(L) \in Nat
           /\ Store!Position(i, L) < Store!Cardinality(L)
<1> DEFINE before == {j \in L : j < i}
<1>1. IsFiniteSet(L)
  <2>1. IsFiniteSet(1..n)
    BY FS_Interval
  <2> QED
    BY <2>1, FS_Subset
<1>2. before \subseteq L /\ before # L
  <2>1. i \in Nat /\ ~(i < i)
    OBVIOUS
  <2> QED
    BY <2>1
<1> HIDE DEF before
<1>3. /\ IsFiniteSet(before) /\ Cardinality(before) <= Cardinality(L)
      /\ Cardinality(before) # Cardinality(L)
  BY <1>1, <1>2, FS_Subset
<1>4. Cardinality(before) \in Nat /\ Cardinality(L) \in Nat
  BY <1>1, <1>3, FS_CardinalityType
<1>5. Store!Position(i, L) = Cardinality(before)
  BY StoreCount DEF Store!Position, before
<1> QED
  BY <1>3, <1>4, <1>5, StoreCount

(* A position does not shrink when what is before it stays.                  *)
LEMMA PositionGrows ==
    ASSUME NEW n \in Nat, NEW L \in SUBSET (1..n), NEW M \in SUBSET (1..n), NEW i \in 1..n,
           \A j \in L : j < i => j \in M
    PROVE  /\ Store!Position(i, L) <= Store!Position(i, M)
           /\ Store!Position(i, L) \in Nat /\ Store!Position(i, M) \in Nat
<1> DEFINE few  == {j \in L : j < i}
           many == {j \in M : j < i}
<1>1. IsFiniteSet(1..n)
  BY FS_Interval
<1>2. few \subseteq many /\ few \subseteq 1..n /\ many \subseteq 1..n
  OBVIOUS
<1> HIDE DEF few, many
<1>3. IsFiniteSet(many) /\ IsFiniteSet(few)
  BY <1>1, <1>2, FS_Subset
<1>4. /\ Cardinality(few) <= Cardinality(many)
      /\ Cardinality(few) \in Nat /\ Cardinality(many) \in Nat
  BY <1>2, <1>3, FS_Subset, FS_CardinalityType
<1>5. Store!Position(i, L) = Cardinality(few) /\ Store!Position(i, M) = Cardinality(many)
  BY StoreCount DEF Store!Position, few, many
<1> QED
  BY <1>4, <1>5

LEMMA ListedIsPart ==
    ASSUME NEW T, NEW ts \in Seq(T), NEW category
    PROVE  Store!Listed(ts, category) \in SUBSET (1..Len(ts))
  BY DEF Store!Listed

(* The invariant holds of an empty store.                                    *)
LEMMA StoreInit == Store!Init => StoreIInv
<1> SUFFICES ASSUME Store!Init PROVE StoreIInv
  OBVIOUS
<1> USE StoreAssumption
<1>1. /\ entries = <<>> /\ DOMAIN entries = {} /\ Len(entries) = 0
      /\ reader = Store!NotReading /\ call = Store!NoCall /\ history = <<>>
      /\ store \in {"service", "http"} /\ clashes = 0
  BY DEF Store!Init
<1>2. Store!NotReading \in Store!Reader /\ Store!NotReading.seen = {}
      /\ Store!NotReading.first = {} /\ ~Store!NotReading.twice /\ ~Store!NotReading.joined
  BY DEF Store!NotReading, Store!Reader
<1>3. Store!NoCall \in Store!Call
  BY DEF Store!NoCall, Store!Call
<1>4. Store!TypeOK
  BY <1>1, <1>2, <1>3 DEF Store!TypeOK, Store!Ids
<1> QED
  BY <1>1, <1>2, <1>4 DEF StoreIInv, SeenIsBehind, BehindIsSeen, Own

(* What a tool that comes or changes does to the reader of a listing.         *)
LEMMA ChangeKeeps ==
    ASSUME StoreIInv, NEW ts \in Seq(Store!Tool), Len(entries) <= Len(ts), Len(ts) <= MaxTools,
           Store!Change(ts), UNCHANGED <<store, call, history>>,
           \A i \in DOMAIN ts : ts[i].id \in DOMAIN ts,
           clashes' \in 0..MaxClashes, clashes' = 0 => Own(ts), store = "http" => clashes' = 0
    PROVE  StoreIInv'
<1> USE StoreAssumption
<1>1. /\ entries \in Seq(Store!Tool) /\ reader \in Store!Reader
      /\ reader.seen \subseteq DOMAIN entries /\ reader.first \subseteq DOMAIN entries
      /\ DOMAIN entries = 1..Len(entries) /\ Len(entries) \in Nat /\ Len(ts) \in Nat
      /\ DOMAIN ts = 1..Len(ts)
  BY DEF StoreIInv, Store!TypeOK, Store!Ids
<1>2. PICK L, M : L = Store!Listed(entries, reader.category) /\ M = Store!Listed(ts, reader.category)
  OBVIOUS
<1>3. L \in SUBSET (1..Len(entries)) /\ M \in SUBSET (1..Len(ts)) /\ L \in SUBSET (1..Len(ts))
  BY <1>1, <1>2, ListedIsPart
<1>4. PICK after, kept :
        /\ after = M \cap DOMAIN entries
        /\ kept = {i \in L \cap after : ts[i].object = entries[i].object}
  OBVIOUS
<1>5. PICK first, joined :
        /\ first = IF L \subseteq kept THEN reader.first ELSE {}
        /\ joined = (reader.joined \/ (reader.on /\ ~(after \subseteq kept)))
  OBVIOUS
<1>6. reader' = [reader EXCEPT !.first = first, !.joined = joined]
  BY <1>2, <1>4, <1>5 DEF Store!Change, Store!Ids
<1>7. entries' = ts
  BY DEF Store!Change
<1>8. joined \in BOOLEAN
  <2>1. reader.joined \in BOOLEAN /\ reader.on \in BOOLEAN
    BY <1>1 DEF Store!Reader
  <2> QED
    BY <1>5, <2>1
<1>9. /\ reader'.category = reader.category /\ reader'.offset = reader.offset
      /\ reader'.seen = reader.seen /\ reader'.twice = reader.twice
      /\ reader'.first = first /\ reader'.joined = joined /\ reader'.on = reader.on
      /\ reader' \in Store!Reader
  <2>1. first \in SUBSET Nat
    BY <1>1, <1>5 DEF Store!Reader
  <2> QED
    BY <1>1, <1>6, <1>8, <2>1 DEF Store!Reader
<1>10. Store!TypeOK'
  <2>1. first \subseteq DOMAIN ts /\ reader.seen \subseteq DOMAIN ts
    BY <1>1, <1>5
  <2> QED
    BY <1>7, <1>9, <2>1 DEF StoreIInv, Store!TypeOK, Store!Ids
<1>11. ReaderLists' = M /\ ReaderLists = L
  BY <1>2, <1>7, <1>9 DEF ReaderLists
<1>12. SeenIsBehind'
  <2> SUFFICES ASSUME ~joined, NEW i \in reader.seen \cap M
               PROVE  Store!Position(i, M) < reader.offset
    BY <1>9, <1>11 DEF SeenIsBehind
  <2>1. CASE ~reader.on
    <3> QED
      BY <2>1 DEF StoreIInv
  <2>2. CASE reader.on
    <3>1. after \subseteq L /\ ~reader.joined
      BY <1>4, <1>5, <2>2
    <3>2. i \in L /\ i \in 1..Len(ts)
      BY <1>1, <1>4, <3>1
    <3>3. Store!Position(i, L) < reader.offset
      BY <1>11, <3>1, <3>2 DEF StoreIInv, SeenIsBehind
    <3>4. \A j \in M : j < i => j \in L
      BY <1>1, <1>3, <1>4, <3>1
    <3>5. Store!Position(i, M) <= Store!Position(i, L)
          /\ Store!Position(i, M) \in Nat /\ Store!Position(i, L) \in Nat
      BY <1>1, <1>3, <3>2, <3>4, PositionGrows
    <3>6. reader.offset \in Nat
      BY <1>1 DEF Store!Reader
    <3> QED
      BY <3>3, <3>5, <3>6
  <2> QED
    BY <2>1, <2>2
<1>13. BehindIsSeen'
  <2> SUFFICES ASSUME NEW i \in first
               PROVE  i \in M /\ (Store!Position(i, M) < reader.offset => i \in reader.seen)
    BY <1>9, <1>11 DEF BehindIsSeen
  <2>1. L \subseteq after /\ i \in reader.first
    BY <1>4, <1>5
  <2>2. i \in L /\ (Store!Position(i, L) < reader.offset => i \in reader.seen)
    BY <1>11, <2>1 DEF StoreIInv, BehindIsSeen
  <2>3. i \in M /\ L \subseteq M
    BY <1>4, <2>1, <2>2
  <2>4. Store!Position(i, L) <= Store!Position(i, M)
        /\ Store!Position(i, M) \in Nat /\ Store!Position(i, L) \in Nat
    BY <1>1, <1>3, <2>3, PositionGrows
  <2>5. reader.offset \in Nat
    BY <1>1 DEF Store!Reader
  <2> QED
    BY <2>2, <2>3, <2>4, <2>5
<1>14. (clashes' = 0 => Own(entries)') /\ (store' = "http" => clashes' = 0)
  BY <1>7 DEF Own
<1>15. (\A i \in DOMAIN entries : entries[i].id \in DOMAIN entries)'
  BY <1>7
<1>16. (~reader.on => reader.seen = {})' /\ ~reader.twice'
  BY <1>9 DEF StoreIInv
<1> QED
  BY <1>10, <1>12, <1>13, <1>14, <1>15, <1>16 DEF StoreIInv

LEMMA LeastEntry ==
    ASSUME NEW S \in SUBSET Nat, S # {}
    PROVE  Store!Min(S) \in S
<1>1. IsWellFoundedOn(OpToRel(<, Nat), Nat)
  BY NatLessThanWellFounded
<1>2. PICK m \in S : \A n \in S : ~ (<<n, m>> \in OpToRel(<, Nat))
  BY <1>1, WFMin
<1>3. ASSUME NEW n \in S PROVE ~(n < m)
  <2>1. <<n, m>> \notin OpToRel(<, Nat)
    BY <1>2
  <2>2. <<n, m>> \in {mn \in Nat \X Nat : mn[1] < mn[2]} <=> n < m
    OBVIOUS
  <2> QED
    BY <2>1, <2>2 DEF OpToRel
<1>4. \A n \in S : m <= n
  BY <1>3
<1> QED
  BY <1>4 DEF Store!Min

(* A name leads to an entry of that name, if there is one.                    *)
LEMMA FoundIsNamed ==
    ASSUME StoreIInv, NEW name
    PROVE  IF Store!GetToolByName(name) = 0
           THEN \A i \in DOMAIN entries : entries[i].name # name
           ELSE /\ Store!GetToolByName(name) \in DOMAIN entries
                /\ entries[Store!GetToolByName(name)].name = name
<1> DEFINE found == {i \in DOMAIN entries : entries[i].name = name}
<1>1. DOMAIN entries = 1..Len(entries) /\ Len(entries) \in Nat
  BY DEF StoreIInv, Store!TypeOK
<1>2. Store!GetToolByName(name) = IF found = {} THEN 0 ELSE Store!Min(found)
  BY DEF Store!GetToolByName, Store!Ids
<1>3. CASE found = {}
  BY <1>2, <1>3
<1>4. CASE found # {}
  <2>1. found \in SUBSET Nat /\ 0 \notin found
    BY <1>1
  <2> HIDE DEF found
  <2>2. Store!Min(found) \in found
    BY <1>4, <2>1, LeastEntry
  <2>3. Store!GetToolByName(name) \in found /\ Store!GetToolByName(name) # 0
    BY <1>2, <1>4, <2>1, <2>2
  <2> QED
    BY <2>3 DEF found
<1> QED
  BY <1>3, <1>4

(* A tool is entered behind all others.                                      *)
LEMMA EnterStep ==
    ASSUME StoreIInv, NEW name \in Names, NEW category \in Categories, Store!Enter(name, category)
    PROVE  StoreIInv'
<1> USE StoreAssumption
<1>1. PICK id, tool :
        /\ id = Len(entries) + 1
        /\ tool = [name |-> name, category |-> category, active |-> TRUE,
                   id |-> id, object |-> id]
  OBVIOUS
<1>2. /\ entries \in Seq(Store!Tool) /\ Len(entries) \in Nat /\ clashes \in 0..MaxClashes
      /\ DOMAIN entries = 1..Len(entries)
  BY DEF StoreIInv, Store!TypeOK
<1>3. PICK ts : ts = Append(entries, tool)
  OBVIOUS
<1>4. Store!Change(ts) /\ UNCHANGED <<store, clashes, call, history>> /\ Len(entries) < MaxTools
  BY <1>1, <1>3 DEF Store!Enter
<1>5. tool \in Store!Tool /\ tool.name = name /\ tool.id = id /\ tool.object = id
  BY <1>1, <1>2, <1>4 DEF Store!Tool
<1>6. /\ ts \in Seq(Store!Tool) /\ Len(ts) = Len(entries) + 1 /\ ts[id] = tool
      /\ \A i \in DOMAIN entries : ts[i] = entries[i]
      /\ DOMAIN ts = DOMAIN entries \cup {id} /\ id \notin DOMAIN entries
  BY <1>1, <1>2, <1>3, <1>5
<1>7. \A i \in DOMAIN entries : entries[i].name # name
  BY FoundIsNamed DEF Store!Enter
<1>8. (clashes = 0 => Own(ts)) /\ \A i \in DOMAIN ts : ts[i].id \in DOMAIN ts
  BY <1>5, <1>6, <1>7 DEF StoreIInv, Own
<1>9. store = "http" => clashes = 0
  BY DEF StoreIInv
<1> QED
  BY <1>2, <1>4, <1>6, <1>8, <1>9, ChangeKeeps

(* A tool is changed in every entry that refers to it and stored under its id; *)
(* as long as it keeps its id and takes no name of another, that is its one    *)
(* entry.                                                                    *)
LEMMA AlterStep ==
    ASSUME StoreIInv, NEW name \in Names, NEW tool \in Store!Tool, Store!Alter(name, tool),
           tool.object = Store!Found(name).object, tool.id <= Len(entries) + 1,
           clashes' \in 0..MaxClashes, store = "http" => clashes' = 0,
           clashes' = 0 =>
               /\ clashes = 0 /\ tool.id = Store!Found(name).id
               /\ tool.name = name \/ Store!GetToolByName(tool.name) = 0
    PROVE  StoreIInv'
<1> USE StoreAssumption
<1>1. PICK k : k = Store!GetToolByName(name)
  OBVIOUS
<1>2. /\ k \in DOMAIN entries /\ entries[k].name = name
      /\ entries \in Seq(Store!Tool) /\ Len(entries) \in Nat /\ Len(entries) <= MaxTools
      /\ DOMAIN entries = 1..Len(entries)
  BY <1>1, FoundIsNamed DEF Store!Alter, StoreIInv, Store!TypeOK
<1>3. tool.object = entries[k].object /\ tool.id \in 1..MaxTools
  BY <1>1 DEF Store!Found, Store!Tool
<1>4. PICK ts : ts = Store!Stored(tool)
  OBVIOUS
<1>5. Store!Change(ts) /\ UNCHANGED <<store, call, history>>
  BY <1>4 DEF Store!Alter
<1>6. PICK n \in Nat : /\ Len(entries) <= n /\ n <= MaxTools
                      /\ DOMAIN entries \cup {tool.id} = 1..n
  <2>1. CASE tool.id <= Len(entries)
    BY <1>2, <1>3, <2>1
  <2>2. CASE tool.id = Len(entries) + 1
    <3>1. DOMAIN entries \cup {tool.id} = 1..(Len(entries) + 1)
      BY <1>2, <2>2
    <3> QED
      BY <1>2, <1>3, <2>2, <3>1
  <2> QED
    BY <1>2, <1>3, <2>1, <2>2
<1>7. ts = [i \in 1..n |-> IF i = tool.id \/ entries[i].object = tool.object
                          THEN tool ELSE entries[i]]
  BY <1>4, <1>6 DEF Store!Stored, Store!Ids
<1>8. \A i \in 1..n : i # tool.id => entries[i] \in Store!Tool
  BY <1>2, <1>6
<1>9. ts \in [1..n -> Store!Tool]
  BY <1>7, <1>8
<1>10. ts \in Seq(Store!Tool) /\ Len(ts) = n /\ DOMAIN ts = 1..n
  BY <1>9
<1>12. \A i \in DOMAIN ts : ts[i].id \in DOMAIN ts
  <2>1. \A i \in DOMAIN entries : entries[i].id \in 1..n
    BY <1>6 DEF StoreIInv
  <2>2. tool.id \in 1..n /\ \A i \in 1..n : i # tool.id => i \in DOMAIN entries
    BY <1>6
  <2> QED
    BY <1>7, <1>10, <2>1, <2>2
<1>11. ASSUME clashes' = 0 PROVE Own(ts)
  <2>1. Own(entries) /\ tool.id = k /\ tool.object = k
    <3>1. Own(entries)
      BY <1>11 DEF StoreIInv
    <3> QED
      BY <1>1, <1>2, <1>3, <1>11, <3>1 DEF Store!Found, Own
  <2>2. 1..n = DOMAIN entries
    BY <1>2, <1>6, <2>1
  <2>3. \A i \in 1..n : ts[i] = IF i = k THEN tool ELSE entries[i]
    BY <1>7, <2>1, <2>2 DEF Own
  <2>4. \A i \in DOMAIN entries : i # k => entries[i].name # tool.name
    BY <1>2, <1>11, <2>1, FoundIsNamed DEF Own
  <2>5. \A i \in 1..n : ts[i].id = i /\ ts[i].object = i
    BY <2>1, <2>2, <2>3 DEF Own
  <2>6. ASSUME NEW i \in 1..n, NEW j \in 1..n, ts[i].name = ts[j].name PROVE i = j
    BY <2>1, <2>2, <2>3, <2>4, <2>6 DEF Own
  <2> QED
    BY <1>10, <2>5, <2>6 DEF Own
<1> QED
  BY <1>5, <1>6, <1>10, <1>11, <1>12, ChangeKeeps

(* Calls of tools leave the listing alone.                                    *)
LEMMA CallStep ==
    ASSUME StoreIInv, UNCHANGED <<store, entries, reader, clashes>>, call' \in Store!Call,
           history' \in Seq({"answered", "mock"}), Len(history') <= MaxHistory
    PROVE  StoreIInv'
  BY DEF StoreIInv, Store!TypeOK, Store!Ids, Own, SeenIsBehind, BehindIsSeen, ReaderLists

(* A page that is read, and one that begins or ends a listing.                *)
LEMMA ListToolsStep ==
    ASSUME StoreIInv, Store!ListTools
    PROVE  StoreIInv'
<1> USE StoreAssumption
<1>1. /\ entries \in Seq(Store!Tool) /\ reader \in Store!Reader
      /\ reader.seen \subseteq DOMAIN entries /\ reader.first \subseteq DOMAIN entries
      /\ DOMAIN entries = 1..Len(entries) /\ Len(entries) \in Nat
      /\ ~reader.twice
  BY DEF StoreIInv, Store!TypeOK, Store!Ids
<1>2. PICK L : L = ReaderLists
  OBVIOUS
<1>3. L \in SUBSET (1..Len(entries))
  BY <1>1, <1>2, ListedIsPart DEF ReaderLists
<1>4. PICK page : page = Store!Page(L, reader.offset)
  OBVIOUS
<1>5. \A i \in L : Store!Position(i, L) \in Nat
  BY <1>1, <1>3, PositionIsPlace
<1>6. reader.offset \in Nat /\ reader.joined \in BOOLEAN /\ reader.twice \in BOOLEAN
  BY <1>1 DEF Store!Reader
<1>7. /\ page \subseteq L
      /\ \A i \in L : i \in page <=>
            reader.offset <= Store!Position(i, L) /\ Store!Position(i, L) < reader.offset + Limit
  BY <1>4 DEF Store!Page
<1>8. ~reader.joined => page \cap reader.seen = {}
  <2> SUFFICES ASSUME ~reader.joined, NEW i \in page \cap reader.seen PROVE FALSE
    OBVIOUS
  <2>1. Store!Position(i, L) < reader.offset
    BY <1>2, <1>7 DEF StoreIInv, SeenIsBehind
  <2> QED
    BY <1>5, <1>6, <1>7, <2>1
<1>9. PICK twice : twice = (reader.twice \/ (~reader.joined /\ page \cap reader.seen # {}))
  OBVIOUS
<1>10. twice = FALSE
  BY <1>1, <1>8, <1>9
<1>11. reader' = [reader EXCEPT !.offset = reader.offset + Limit, !.seen = reader.seen \cup page,
                                !.twice = twice]
  BY <1>2, <1>4, <1>9 DEF Store!ListTools, ReaderLists
<1>12. UNCHANGED <<store, entries, clashes, call, history>>
  BY DEF Store!ListTools
<1>13. /\ reader'.category = reader.category /\ reader'.offset = reader.offset + Limit
       /\ reader'.seen = reader.seen \cup page /\ reader'.twice = FALSE
       /\ reader'.first = reader.first /\ reader'.joined = reader.joined /\ reader'.on = reader.on
       /\ reader' \in Store!Reader
  <2>1. reader.seen \cup page \in SUBSET Nat /\ reader.offset + Limit \in Nat
    <3>1. reader.seen \in SUBSET Nat
      BY <1>1 DEF Store!Reader
    <3>2. page \in SUBSET Nat
      BY <1>3, <1>7
    <3>3. reader.seen \cup page \in SUBSET Nat
      BY <3>1, <3>2
    <3>4. reader.offset + Limit \in Nat
      BY <1>6
    <3> QED
      BY <3>3, <3>4
  <2> QED
    BY <1>1, <1>10, <1>11, <2>1 DEF Store!Reader
<1>14. ReaderLists' = L
  BY <1>2, <1>12, <1>13 DEF ReaderLists
<1>15. Store!TypeOK'
  <2>1. reader'.seen \subseteq DOMAIN entries
    BY <1>1, <1>3, <1>7, <1>13
  <2> QED
    BY <1>1, <1>12, <1>13, <2>1 DEF StoreIInv, Store!TypeOK, Store!Ids
<1>16. SeenIsBehind'
  <2> SUFFICES ASSUME ~reader.joined, NEW i \in (reader.seen \cup page) \cap L
               PROVE  Store!Position(i, L) < reader.offset + Limit
    BY <1>13, <1>14 DEF SeenIsBehind
  <2>1. i \in reader.seen => Store!Position(i, L) < reader.offset
    BY <1>2 DEF StoreIInv, SeenIsBehind
  <2> QED
    BY <1>5, <1>6, <1>7, <2>1
<1>17. BehindIsSeen'
  <2> SUFFICES ASSUME NEW i \in reader.first
               PROVE  /\ i \in L
                      /\ Store!Position(i, L) < reader.offset + Limit => i \in reader.seen \cup page
    BY <1>13, <1>14 DEF BehindIsSeen
  <2>1. i \in L /\ (Store!Position(i, L) < reader.offset => i \in reader.seen)
    BY <1>2 DEF StoreIInv, BehindIsSeen
  <2> QED
    BY <1>5, <1>6, <1>7, <2>1
<1>18. reader.on
  BY DEF Store!ListTools
<1> QED
  BY <1>12, <1>13, <1>15, <1>16, <1>17, <1>18 DEF StoreIInv, Own

(* A reader starts anew, or stops.                                           *)
LEMMA ReadingStep ==
    ASSUME StoreIInv,
           (\E c \in Categories \cup {Store!All} : Store!StartReading(c)) \/ Store!StopReading
    PROVE  StoreIInv'
<1> USE StoreAssumption
<1>1. UNCHANGED <<store, entries, clashes, call, history>>
  BY DEF Store!StartReading, Store!StopReading
<1>2. entries \in Seq(Store!Tool) /\ DOMAIN entries = 1..Len(entries) /\ Len(entries) \in Nat
  BY DEF StoreIInv, Store!TypeOK
<1>3. /\ reader'.seen = {} /\ ~reader'.twice /\ reader'.offset = 0 /\ reader' \in Store!Reader
      /\ reader'.first \subseteq Store!Listed(entries, reader'.category)
  <2>1. Store!NotReading \in Store!Reader
    BY DEF Store!NotReading, Store!Reader
  <2>2. /\ Store!NotReading.seen = {} /\ Store!NotReading.first = {} /\ ~Store!NotReading.twice
        /\ Store!NotReading.offset = 0
    BY DEF Store!NotReading
  <2>3. CASE Store!StopReading
    BY <2>1, <2>2, <2>3 DEF Store!StopReading
  <2>4. ASSUME NEW c \in Categories \cup {Store!All}, Store!StartReading(c)
        PROVE  /\ reader'.seen = {} /\ ~reader'.twice /\ reader'.offset = 0
               /\ reader' \in Store!Reader
               /\ reader'.first \subseteq Store!Listed(entries, reader'.category)
    <3>1. PICK first : first = Store!Listed(entries, c)
      OBVIOUS
    <3>2. first \in SUBSET Nat
      BY <1>2, <3>1, ListedIsPart
    <3>3. reader' = [Store!NotReading EXCEPT !.on = TRUE, !.category = c, !.first = first]
      BY <2>4, <3>1 DEF Store!StartReading
    <3>4. /\ reader' \in Store!Reader /\ reader'.first = first /\ reader'.category = c
          /\ reader'.seen = Store!NotReading.seen /\ reader'.twice = Store!NotReading.twice
          /\ reader'.offset = Store!NotReading.offset
      BY <2>1, <3>2, <3>3 DEF Store!Reader
    <3> QED
      BY <2>2, <3>1, <3>4
  <2> QED
    BY <2>3, <2>4
<1>4. reader'.first \subseteq DOMAIN entries
  BY <1>2, <1>3, ListedIsPart
<1>5. Store!TypeOK'
  BY <1>1, <1>3, <1>4 DEF StoreIInv, Store!TypeOK, Store!Ids
<1>6. SeenIsBehind'
  BY <1>3 DEF SeenIsBehind
<1>7. BehindIsSeen'
  <2> SUFFICES ASSUME NEW i \in reader'.first
               PROVE  /\ i \in ReaderLists'
                      /\ Store!Position(i, ReaderLists') < reader'.offset => i \in reader'.seen
    BY DEF BehindIsSeen
  <2>1. PICK L : L = Store!Listed(entries, reader'.category)
    OBVIOUS
  <2>2. ReaderLists' = L
    BY <1>1, <2>1 DEF ReaderLists
  <2>3. i \in L /\ L \in SUBSET (1..Len(entries))
    BY <1>2, <1>3, <2>1, ListedIsPart
  <2>4. Store!Position(i, L) \in Nat
    BY <1>2, <2>3, PositionIsPlace
  <2> QED
    BY <1>3, <2>2, <2>3, <2>4
<1> QED
  BY <1>1, <1>3, <1>5, <1>6, <1>7 DEF StoreIInv, Own

(* Every step keeps the invariant.                                           *)
LEMMA StoreKept ==
    ASSUME StoreIInv, Store!Next \/ UNCHANGED storeVars
    PROVE  StoreIInv'
<1> USE StoreAssumption
<1>1. call \in Store!Call /\ history \in Seq({"answered", "mock"}) /\ Len(history) <= MaxHistory
  BY DEF StoreIInv, Store!TypeOK
<1>2. CASE UNCHANGED storeVars
  BY <1>1, <1>2, CallStep DEF storeVars
<1>3. ASSUME NEW n, Store!GetToolByName(n) # 0
      PROVE  Store!Found(n) \in Store!Tool /\ Store!Found(n).name = n
             /\ Store!Found(n).id <= Len(entries) + 1
  <2>1. /\ Store!GetToolByName(n) \in DOMAIN entries /\ entries \in Seq(Store!Tool)
        /\ Store!Found(n).name = n
    BY <1>3, FoundIsNamed DEF StoreIInv, Store!TypeOK, Store!Found
  <2>2. Store!Found(n).id <= Len(entries) + 1
    <3>1. Store!Found(n).id \in 1..Len(entries) /\ Len(entries) \in Nat
      BY <2>1 DEF StoreIInv, Store!Found
    <3> QED
      BY <3>1
  <2> QED
    BY <2>1, <2>2 DEF Store!Found
<1>4. ASSUME NEW n \in Names, NEW c \in Categories,
             Store!ServiceRegisterTool(n, c) \/ Store!RegisterTool(n, c)
      PROVE  StoreIInv'
  BY <1>4, EnterStep DEF Store!ServiceRegisterTool, Store!RegisterTool
<1>5. ASSUME NEW n \in Names, Store!ServiceUpdateTool(n) PROVE StoreIInv'
  <2>1. PICK tool \in Store!Tool :
          /\ tool.object = Store!Found(n).object /\ tool.id <= Len(entries) + 1
          /\ Store!Alter(n, tool)
          /\ Store!Clash(n, tool) => clashes < MaxClashes
          /\ clashes' = IF Store!Clash(n, tool) THEN clashes + 1 ELSE clashes
    BY <1>5 DEF Store!ServiceUpdateTool
  <2>2. clashes \in 0..MaxClashes /\ store # "http"
    BY <1>5 DEF StoreIInv, Store!TypeOK, Store!ServiceUpdateTool
  <2>3. clashes' \in 0..MaxClashes /\ (clashes' = 0 => clashes = 0 /\ ~Store!Clash(n, tool))
    BY <2>1, <2>2
  <2>4. ~Store!Clash(n, tool) => /\ tool.id = Store!Found(n).id
                                 /\ tool.name = n \/ Store!GetToolByName(tool.name) = 0
    BY DEF Store!Clash
  <2> QED
    BY <2>1, <2>2, <2>3, <2>4, AlterStep
<1>6. ASSUME NEW n \in Names, NEW tool \in Store!Tool, Store!Alter(n, tool),
             \/ \E c \in Categories : tool = [Store!Found(n) EXCEPT !.category = c]
             \/ tool = [Store!Found(n) EXCEPT !.active = FALSE],
             UNCHANGED clashes
      PROVE  StoreIInv'
  <2>1. Store!GetToolByName(n) # 0
    BY <1>6 DEF Store!Alter
  <2>2. /\ tool.object = Store!Found(n).object /\ tool.id = Store!Found(n).id
        /\ tool.name = Store!Found(n).name
    BY <1>3, <1>6, <2>1 DEF Store!Tool
  <2>3. clashes' \in 0..MaxClashes /\ (store = "http" => clashes' = 0)
    BY <1>6 DEF StoreIInv, Store!TypeOK
  <2> QED
    BY <1>3, <1>6, <2>1, <2>2, <2>3, AlterStep
<1>7. ASSUME NEW n \in Names, NEW c \in Categories, Store!UpdateTool(n, c)
      PROVE  StoreIInv'
  <2>1. PICK tool : tool = [Store!Found(n) EXCEPT !.category = c]
    OBVIOUS
  <2>2. Store!GetToolByName(n) # 0 /\ Store!Alter(n, tool) /\ UNCHANGED clashes
    BY <1>7, <2>1 DEF Store!UpdateTool
  <2>3. tool \in Store!Tool
    BY <1>3, <2>1, <2>2 DEF Store!Tool
  <2> QED
    BY <1>6, <2>1, <2>2, <2>3
<1>12. ASSUME NEW n \in Names, Store!ServiceDeleteTool(n) \/ Store!DeleteTool(n)
      PROVE  StoreIInv'
  <2>1. PICK tool : tool = [Store!Found(n) EXCEPT !.active = FALSE]
    OBVIOUS
  <2>2. Store!GetToolByName(n) # 0 /\ Store!Alter(n, tool) /\ UNCHANGED clashes
    BY <1>12, <2>1 DEF Store!ServiceDeleteTool, Store!DeleteTool
  <2>3. tool \in Store!Tool
    BY <1>3, <2>1, <2>2 DEF Store!Tool
  <2> QED
    BY <1>6, <2>1, <2>2, <2>3
<1>8. Store!NoCall \in Store!Call
  BY DEF Store!NoCall, Store!Call
<1>9. ASSUME NEW n \in Names, Store!ExecuteTool(n) PROVE StoreIInv'
  <2>1. call' \in Store!Call
    BY <1>8, <1>9 DEF Store!ExecuteTool, Store!Call
  <2> QED
    BY <1>1, <1>9, <2>1, CallStep DEF Store!ExecuteTool
<1>10. CASE Store!Post
  <2>1. PICK ok \in BOOLEAN : call' = [call EXCEPT !.tried = @ + 1, !.answered = ok]
    BY <1>10 DEF Store!Post
  <2>2. call.tried \in 0..Endpoints /\ call.tried < Endpoints
    BY <1>1, <1>10 DEF Store!Post, Store!Call
  <2>3. call.tried + 1 \in 0..Endpoints
    BY <2>2
  <2>4. call' \in Store!Call
    BY <1>1, <2>1, <2>3 DEF Store!Call
  <2> QED
    BY <1>1, <1>10, <2>4, CallStep DEF Store!Post
<1>11. CASE Store!ExecutionEnds
  <2>1. PICK how \in {"answered", "mock"} :
            history' = IF Len(history) = MaxHistory THEN history ELSE Append(history, how)
    BY <1>11 DEF Store!ExecutionEnds
  <2>2. history' \in Seq({"answered", "mock"}) /\ Len(history') <= MaxHistory
    <3>1. /\ Append(history, how) \in Seq({"answered", "mock"})
          /\ Len(Append(history, how)) = Len(history) + 1 /\ Len(history) \in Nat
      BY <1>1
    <3> QED
      BY <1>1, <2>1, <3>1
  <2> QED
    BY <1>8, <1>11, <2>2, CallStep DEF Store!ExecutionEnds
<1> QED
  BY <1>2, <1>4, <1>5, <1>7, <1>9, <1>10, <1>11, <1>12, ListToolsStep, ReadingStep DEF Store!Next

(* At the end of a listing everything comes before the next page.             *)
LEMMA StoreHolds == StoreIInv => Store!NamesAreUnique /\ Store!PagesAreSound
<1> SUFFICES ASSUME StoreIInv, Store!AllRead, NEW i \in reader.first PROVE i \in reader.seen
  BY DEF StoreIInv, Own, Store!NamesAreUnique, Store!Ids, Store!PagesAreSound
<1>1. entries \in Seq(Store!Tool) /\ Len(entries) \in Nat /\ reader.offset \in Nat
  BY DEF StoreIInv, Store!TypeOK, Store!Reader
<1>2. ReaderLists \in SUBSET (1..Len(entries))
  BY <1>1, ListedIsPart DEF ReaderLists
<1>3. i \in ReaderLists /\ (Store!Position(i, ReaderLists) < reader.offset => i \in reader.seen)
  BY DEF StoreIInv, BehindIsSeen
<1>4. /\ Store!Position(i, ReaderLists) < Store!Cardinality(ReaderLists)
      /\ Store!Position(i, ReaderLists) \in Nat /\ Store!Cardinality(ReaderLists) \in Nat
  BY <1>1, <1>2, <1>3, PositionIsPlace
<1>5. Store!Cardinality(ReaderLists) <= reader.offset
  BY <1>1, <1>4 DEF Store!AllRead, ReaderLists
<1> QED
  BY <1>1, <1>3, <1>4, <1>5
-----------------------------------------------------------------------------
(* The search, services/search_service.py.                                   *)

(* The cardinality of the instance is that of FiniteSets.                    *)
LEMMA SearchCount == \A S : Search!Cardinality(S) = Cardinality(S)
<1>1. ASSUME NEW S PROVE Search!IsFiniteSet(S) = IsFiniteSet(S)
  BY DEF IsFiniteSet, Search!IsFiniteSet
<1> QED
  BY <1>1 DEF Cardinality, Search!Cardinality

(* Quotients of natural numbers.                                             *)
LEMMA Quotient ==
    ASSUME NEW x \in Nat, NEW b \in Nat \ {0}
    PROVE  x \div b \in Nat /\ b * (x \div b) <= x /\ x < b * (x \div b + 1)
<1>1. x \div b \in Nat
  OBVIOUS
<1>2. x = b * (x \div b) + (x % b)
  OBVIOUS
<1>3. x % b \in 0..(b - 1)
  OBVIOUS
<1> PICK q, r : q = x \div b /\ r = x % b
  OBVIOUS
<1>4. q \in Nat /\ r \in 0..(b-1) /\ x = b * q + r
  BY <1>1, <1>2, <1>3
<1>5. b * q \in Nat /\ b * (q + 1) = b * q + b
  BY <1>4
<1> QED
  BY <1>4, <1>5

(* A larger part of a smaller whole is no smaller a quotient.                *)
LEMMA QuotientsGrow ==
    ASSUME NEW u \in Nat, NEW a \in Nat, NEW b \in Nat \ {0}, NEW h \in Nat, NEW n \in Nat \ {0},
           a <= h, n <= b
    PROVE  (u * a) \div b <= (u * h) \div n
<1>1. PICK x \in Nat, y \in Nat : x = u * a /\ y = u * h
  OBVIOUS
<1>2. x <= y
  BY <1>1
<1>3. PICK p \in Nat, q \in Nat : p = x \div b /\ q = y \div n
  BY Quotient
<1>4. b * p <= x /\ y < n * (q + 1)
  BY <1>3, Quotient
<1>5. b * p \in Nat /\ n * p \in Nat /\ n * p <= b * p
  OBVIOUS
<1>6. n * (q + 1) \in Nat
  OBVIOUS
<1>7. n * p < n * (q + 1)
  BY <1>2, <1>4, <1>5, <1>6
<1>8. p < q + 1
  <2>1. SUFFICES ASSUME q + 1 <= p PROVE n * (q + 1) <= n * p
    BY <1>5, <1>6, <1>7
  <2> QED
    BY <2>1
<1> QED
  BY <1>1, <1>3, <1>8

(* A part is between nothing and the whole.                                  *)
LEMMA QuotientsFit ==
    ASSUME NEW u \in Nat, NEW a \in Nat, NEW b \in Nat \ {0}, a <= b
    PROVE  (u * a) \div b \in 0..u
<1>1. (u * a) \div b <= (u * b) \div b
  BY QuotientsGrow
<1>2. PICK x \in Nat, y \in Nat : x = u * a /\ y = u * b
  OBVIOUS
<1>3. PICK p \in Nat, q \in Nat : p = x \div b /\ q = y \div b
  BY Quotient
<1>4. b * q <= b * u
  BY <1>2, <1>3, Quotient
<1>5. q <= u
  <2>1. SUFFICES ASSUME u + 1 <= q PROVE b * u < b * q
    BY <1>4
  <2>2. b * (u + 1) <= b * q
    BY <2>1
  <2> QED
    BY <2>2
<1> QED
  BY <1>1, <1>2, <1>3, <1>5

(* Finitely many hits of tools, each in a place of its own.                   *)
Ranking(S) ==
    /\ IsFiniteSet(S)
    /\ \A r \in S : r.id \in Search!Offered /\ r.score \in Nat /\ r.place \in Nat
    /\ \A r, s \in S : r.id = s.id \/ r.place = s.place => r = s

(* sort() orders the hits of a ranking strictly, and all of them.            *)
LEMMA HitsOrdered ==
    ASSUME NEW S, Ranking(S)
    PROVE  /\ \A r \in S : ~Search!Before(r, r)
           /\ \A r, s \in S : r = s \/ Search!Before(r, s) \/ Search!Before(s, r)
           /\ \A q, r, s \in S : Search!Before(q, r) /\ Search!Before(r, s) => Search!Before(q, s)
  BY DEF Ranking, Search!Before

(* Ranks count from zero, go with the order, and are all different.          *)
LEMMA HitsRanked ==
    ASSUME NEW S, Ranking(S)
    PROVE  /\ Cardinality(S) \in Nat
           /\ \A r \in S : Search!Rank(r, S) \in Nat /\ Search!Rank(r, S) < Cardinality(S)
           /\ \A r, s \in S : Search!Before(r, s) => Search!Rank(r, S) < Search!Rank(s, S)
           /\ \A r, s \in S : Search!Rank(r, S) = Search!Rank(s, S) => r = s
<1> DEFINE Ahead(r) == {q \in S : Search!Before(q, r)}
<1>1. Cardinality(S) \in Nat
  BY FS_CardinalityType DEF Ranking
<1>2. ASSUME NEW r \in S
      PROVE  /\ Search!Rank(r, S) = Cardinality(Ahead(r)) /\ IsFiniteSet(Ahead(r))
             /\ Search!Rank(r, S) \in Nat /\ Search!Rank(r, S) < Cardinality(S)
  <2>1. Search!Rank(r, S) = Cardinality(Ahead(r))
    BY SearchCount DEF Search!Rank
  <2>2. Ahead(r) \in SUBSET S /\ Ahead(r) # S
    BY HitsOrdered
  <2>3. IsFiniteSet(S)
    BY DEF Ranking
  <2> HIDE DEF Ahead
  <2>4. IsFiniteSet(Ahead(r)) /\ Cardinality(Ahead(r)) <= Cardinality(S)
        /\ Cardinality(Ahead(r)) # Cardinality(S)
    BY <2>2, <2>3, FS_Subset
  <2>5. Cardinality(Ahead(r)) \in Nat
    BY <2>4, FS_CardinalityType
  <2> QED
    BY <1>1, <2>1, <2>4, <2>5
<1>3. ASSUME NEW r \in S, NEW s \in S, Search!Before(r, s)
      PROVE  Search!Rank(r, S) < Search!Rank(s, S)
  <2>1. Ahead(r) \in SUBSET Ahead(s) /\ r \in Ahead(s) /\ r \notin Ahead(r)
    BY <1>3, HitsOrdered
  <2>2. IsFiniteSet(Ahead(s)) /\ IsFiniteSet(Ahead(r))
    BY <1>2
  <2> HIDE DEF Ahead
  <2>3. /\ Cardinality(Ahead(r)) <= Cardinality(Ahead(s))
        /\ Cardinality(Ahead(r)) # Cardinality(Ahead(s))
    BY <2>1, <2>2, FS_Subset
  <2> QED
    BY <1>2, <2>3
<1>4. ASSUME NEW r \in S, NEW s \in S, Search!Rank(r, S) = Search!Rank(s, S) PROVE r = s
  <2>1. r = s \/ Search!Before(r, s) \/ Search!Before(s, r)
    BY HitsOrdered
  <2>4. Search!Rank(r, S) \in Nat /\ Search!Rank(s, S) \in Nat
    BY <1>2
  <2>5. /\ Search!Before(r, s) => Search!Rank(r, S) < Search!Rank(s, S)
        /\ Search!Before(s, r) => Search!Rank(s, S) < Search!Rank(r, S)
    BY <1>3
  <2>2. ~Search!Before(r, s)
    BY <1>4, <2>4, <2>5
  <2>3. ~Search!Before(s, r)
    BY <1>4, <2>4, <2>5
  <2> QED
    BY <2>1, <2>2, <2>3
<1> QED
  BY <1>1, <1>2, <1>3, <1>4

(* The top of a ranking: as many as there is room for, and what is left out   *)
(* comes after all of them.                                                  *)
LEMMA TopRanked ==
    ASSUME NEW S, Ranking(S), NEW max \in Nat
    PROVE  /\ Search!Top(S, max) \in SUBSET S /\ Ranking(Search!Top(S, max))
           /\ Cardinality(Search!Top(S, max)) <= max
           /\ \A u \in S \ Search!Top(S, max), r \in Search!Top(S, max) : Search!Before(r, u)
           /\ S # Search!Top(S, max) => Cardinality(Search!Top(S, max)) = max
           /\ Cardinality(S) <= max => Search!Top(S, max) = S
<1> PICK top : top = Search!Top(S, max)
  OBVIOUS
<1>1. /\ top \in SUBSET S
      /\ \A r \in S : r \in top <=> Search!Rank(r, S) < max
  BY DEF Search!Top
<1>2. IsFiniteSet(S)
  BY DEF Ranking
<1>3. IsFiniteSet(top) /\ Cardinality(top) \in Nat
  BY <1>1, <1>2, FS_Subset, FS_CardinalityType
<1>4. Ranking(top)
  BY <1>1, <1>3 DEF Ranking
<1>5. Cardinality(top) <= max
  <2> DEFINE f == [r \in top |-> Search!Rank(r, S) + 1]
  <2>1. \A r \in top : Search!Rank(r, S) \in Nat /\ Search!Rank(r, S) + 1 \in 1..max
    BY <1>1, HitsRanked
  <2>2. f \in [top -> 1..max] /\ \A r, s \in top : f[r] = f[s] => r = s
    BY <1>1, <2>1, HitsRanked
  <2>3. f \in Injection(top, 1..max)
    BY <2>2 DEF Injection, IsInjective
  <2>4. IsFiniteSet(1..max) /\ Cardinality(1..max) = max
    BY FS_Interval
  <2> HIDE DEF f
  <2> QED
    BY <2>3, <2>4, FS_Injection
<1>6. ASSUME NEW u \in S \ top, NEW r \in top PROVE Search!Before(r, u)
  <2>1. Search!Rank(r, S) < max /\ ~(Search!Rank(u, S) < max)
    BY <1>1
  <2>2. Search!Rank(r, S) \in Nat /\ Search!Rank(u, S) \in Nat
    BY <1>1, HitsRanked
  <2>3. ~Search!Before(u, r) /\ u # r
    BY <1>1, <2>1, <2>2, HitsRanked
  <2> QED
    BY <1>1, <2>3, HitsOrdered
<1>7. ASSUME S # top PROVE Cardinality(top) = max
  <2> DEFINE left == {Search!Rank(u, S) : u \in S \ top}
  <2>1. left \in SUBSET Nat /\ left # {}
    BY <1>1, <1>7, HitsRanked
  <2> HIDE DEF left
  <2>2. IsWellFoundedOn(OpToRel(<, Nat), Nat)
    BY NatLessThanWellFounded
  <2>3. PICK m \in left : \A n \in left : ~(<<n, m>> \in OpToRel(<, Nat))
    BY <2>1, <2>2, WFMin
  <2>4. ASSUME NEW n \in left PROVE ~(n < m)
    <3>1. <<n, m>> \notin OpToRel(<, Nat)
      BY <2>3
    <3>2. <<n, m>> \in {nm \in Nat \X Nat : nm[1] < nm[2]} <=> n < m
      BY <2>1
    <3> QED
      BY <3>1, <3>2 DEF OpToRel
  <2>5. PICK u \in S \ top : Search!Rank(u, S) = m
    BY <2>3 DEF left
  <2> DEFINE ahead == {q \in S : Search!Before(q, u)}
  <2>6. ASSUME NEW q \in ahead PROVE q \in top
    <3>1. Search!Rank(q, S) < m
      BY <2>5, <2>6, HitsRanked
    <3>2. Search!Rank(q, S) \notin left
      BY <2>4, <3>1
    <3> QED
      BY <3>2 DEF left
  <2>7. ahead \in SUBSET top
    BY <2>6
  <2>8. Search!Rank(u, S) = Cardinality(ahead)
    BY SearchCount DEF Search!Rank
  <2> HIDE DEF ahead
  <2>9. Cardinality(ahead) <= Cardinality(top)
    BY <1>3, <2>7, FS_Subset
  <2>10. ~(Search!Rank(u, S) < max) /\ Search!Rank(u, S) \in Nat
    BY <1>1, <2>5, HitsRanked
  <2> QED
    BY <1>3, <1>5, <2>8, <2>9, <2>10
<1>8. ASSUME Cardinality(S) <= max PROVE top = S
  <2>1. \A r \in S : Search!Rank(r, S) < max
    BY <1>8, HitsRanked
  <2> QED
    BY <1>1, <2>1
<1> QED
  BY <1>1, <1>4, <1>5, <1>6, <1>7, <1>8

(* The terms of a query, and how many of them a text has.                     *)
LEMMA QueryShape ==
    ASSUME NEW query \in Search!Queries
    PROVE  /\ query \in Seq(Words) /\ Len(query) \in 0..MaxTerms
           /\ DOMAIN query = 1..Len(query) /\ (query = <<>> <=> Len(query) = 0)
<1>1. PICK n \in 0..MaxTerms : query \in [1..n -> Words]
  BY DEF Search!Queries
<1>2. n \in Nat
  BY <1>1, SearchAssumption
<1>3. query \in Seq(Words) /\ Len(query) = n
  BY <1>1, <1>2
<1> QED
  BY <1>1, <1>3

(* The words of a query: as many as its terms when none is there twice.       *)
LEMMA TermsCounted ==
    ASSUME NEW query \in Search!Queries
    PROVE  /\ IsFiniteSet(Search!ToSet(query)) /\ Search!ToSet(query) \subseteq Words
           /\ Search!ToSet(query) = {} <=> query = <<>>
           /\ Search!IsInjective(query) => Cardinality(Search!ToSet(query)) = Len(query)
<1>1. /\ query \in Seq(Words) /\ Len(query) \in Nat
      /\ DOMAIN query = 1..Len(query) /\ (query = <<>> <=> Len(query) = 0)
  BY QueryShape
<1>2. PICK terms : terms = {query[i] : i \in 1..Len(query)}
  OBVIOUS
<1>3. terms = Search!ToSet(query)
  BY <1>1, <1>2 DEF Search!ToSet
<1>4. IsFiniteSet(1..Len(query)) /\ Cardinality(1..Len(query)) = Len(query)
  <2>1. 1 \in Int /\ Len(query) \in Int
    BY <1>1
  <2>2. IsFiniteSet(1..Len(query))
    BY <2>1, FS_Interval
  <2> QED
    BY <1>1, <2>1, <2>2, FS_Interval
<1> DEFINE f == [i \in 1..Len(query) |-> query[i]]
<1>5. f \in Surjection(1..Len(query), terms)
  BY <1>2 DEF Surjection
<1>6. IsFiniteSet(terms)
  BY <1>4, <1>5, FS_Surjection
<1>7. ASSUME Search!IsInjective(query) PROVE Cardinality(terms) = Len(query)
  <2>1. f \in Injection(1..Len(query), terms)
    BY <1>1, <1>2, <1>7 DEF Search!IsInjective, Injection, IsInjective
  <2> HIDE DEF f
  <2> QED
    BY <1>4, <1>5, <2>1, FS_Surjection
<1>8. terms \subseteq Words
  BY <1>1, <1>2
<1>9. terms = {} <=> query = <<>>
  BY <1>1, <1>2
<1> QED
  BY <1>3, <1>6, <1>7, <1>8, <1>9

(* Of the terms no fewer are in a text than words are shared with it.        *)
LEMMA HitsCounted ==
    ASSUME Search!TypeOK, NEW query \in Search!Queries, NEW t \in Search!Offered
    PROVE  /\ Search!Hits(query, t) \in Nat /\ Search!Hits(query, t) <= Len(query)
           /\ Cardinality(Search!ToSet(query) \cap text[t]) <= Search!Hits(query, t)
<1>1. /\ query \in Seq(Words) /\ Len(query) \in Nat
      /\ DOMAIN query = 1..Len(query)
  BY QueryShape
<1>10. 1 \in Int /\ Len(query) \in Int
  BY <1>1
<1>11. IsFiniteSet(1..Len(query))
  BY <1>10, FS_Interval
<1>2. IsFiniteSet(1..Len(query)) /\ Cardinality(1..Len(query)) = Len(query)
  BY <1>1, <1>10, <1>11, FS_Interval
<1> DEFINE hits == {i \in 1..Len(query) : Search!Occurs(query[i], t)}
           same == {i \in 1..Len(query) : query[i] \in text[t]}
           both == Search!ToSet(query) \cap text[t]
           f == [i \in same |-> query[i]]
<1>3. Search!Hits(query, t) = Cardinality(hits)
  BY <1>1, SearchCount DEF Search!Hits
<1>4. hits \in SUBSET (1..Len(query)) /\ same \in SUBSET hits
  BY DEF Search!Occurs
<1>5. f \in Surjection(same, both)
  BY <1>1 DEF Surjection, Search!ToSet
<1> HIDE DEF hits, same, both, f
<1>6. /\ IsFiniteSet(hits) /\ Cardinality(hits) <= Len(query)
  BY <1>2, <1>4, FS_Subset
<1>7. IsFiniteSet(same) /\ Cardinality(same) <= Cardinality(hits)
  BY <1>4, <1>6, FS_Subset
<1>8. IsFiniteSet(both) /\ Cardinality(both) <= Cardinality(same)
  BY <1>5, <1>7, FS_Surjection
<1>9. Cardinality(hits) \in Nat /\ Cardinality(same) \in Nat /\ Cardinality(both) \in Nat
  BY <1>6, <1>7, <1>8, FS_CardinalityType
<1> QED
  BY <1>3, <1>6, <1>7, <1>8, <1>9 DEF both

(* Scores are parts of Unit, and the terms of a query with no term twice are  *)
(* worth no less than its words.                                             *)
LEMMA ScoresBounded ==
    ASSUME Search!TypeOK, NEW query \in Search!Queries, NEW t \in Search!Offered
    PROVE  /\ Search!Similarity(query, t) \in 0..Unit /\ Search!KeywordScore(query, t) \in 0..Unit
           /\ Search!IsInjective(query) =>
                Search!Similarity(query, t) <= Search!KeywordScore(query, t)
<1> USE SearchAssumption
<1>1. PICK terms, words : terms = Search!ToSet(query) /\ words = text[t]
  OBVIOUS
<1>2. /\ query \in Seq(Words) /\ Len(query) \in Nat /\ (query = <<>> <=> Len(query) = 0)
  BY QueryShape
<1>3. /\ IsFiniteSet(terms) /\ terms \subseteq Words /\ (terms = {} <=> query = <<>>)
      /\ Search!IsInjective(query) => Cardinality(terms) = Len(query)
  BY <1>1, TermsCounted
<1>4. words \subseteq Words
  BY <1>1 DEF Search!TypeOK
<1>5. IsFiniteSet(terms \cup words)
  <2>1. IsFiniteSet(words)
    BY <1>4, FS_Subset
  <2> QED
    BY <1>3, <2>1, FS_Union
<1>6. PICK a, b, h, n : /\ a = Cardinality(terms \cap words) /\ b = Cardinality(terms \cup words)
                        /\ h = Search!Hits(query, t) /\ n = Len(query)
  OBVIOUS
<1>7. /\ a \in Nat /\ b \in Nat /\ a <= b /\ (terms # {} => b # 0) /\ Cardinality(terms) <= b
  <2>1. /\ IsFiniteSet(terms \cap words) /\ Cardinality(terms \cap words) <= Cardinality(terms \cup words)
    BY <1>5, FS_Subset, terms \cap words \in SUBSET (terms \cup words)
  <2>2. /\ Cardinality(terms) <= Cardinality(terms \cup words)
    BY <1>5, FS_Subset, terms \in SUBSET (terms \cup words)
  <2>3. terms # {} => Cardinality(terms \cup words) # 0
    BY <1>5, FS_EmptySet
  <2> QED
    BY <1>5, <1>6, <2>1, <2>2, <2>3, FS_CardinalityType
<1>8. h \in Nat /\ h <= n /\ a <= h /\ n \in Nat
  BY <1>1, <1>2, <1>6, HitsCounted
<1>9. Search!Similarity(query, t) = IF terms = {} \/ words = {} THEN 0 ELSE (Unit * a) \div b
  BY <1>1, <1>6, SearchCount DEF Search!Similarity
<1>10. Search!KeywordScore(query, t) = IF query = <<>> THEN 0 ELSE (Unit * h) \div n
  BY <1>6 DEF Search!KeywordScore
<1>11. Search!Similarity(query, t) \in 0..Unit
  <2>1. CASE terms = {} \/ words = {}
    BY <1>9, <2>1
  <2>2. CASE ~(terms = {} \/ words = {})
    BY <1>7, <1>9, <2>2, QuotientsFit
  <2> QED
    BY <2>1, <2>2
<1>12. Search!KeywordScore(query, t) \in 0..Unit
  <2>1. CASE query = <<>>
    BY <1>10, <2>1
  <2>2. CASE query # <<>>
    BY <1>2, <1>6, <1>8, <1>10, <2>2, QuotientsFit
  <2> QED
    BY <2>1, <2>2
<1>13. ASSUME Search!IsInjective(query)
       PROVE  Search!Similarity(query, t) <= Search!KeywordScore(query, t)
  <2>1. CASE terms = {} \/ words = {}
    BY <1>9, <1>12, <2>1
  <2>2. CASE ~(terms = {} \/ words = {})
    <3>1. n # 0 /\ b # 0 /\ n <= b
      BY <1>2, <1>3, <1>6, <1>7, <1>13, <2>2
    <3>2. (Unit * a) \div b <= (Unit * h) \div n
      BY <1>7, <1>8, <3>1, QuotientsGrow
    <3> QED
      BY <1>2, <1>6, <1>9, <1>10, <2>2, <3>1, <3>2
  <2> QED
    BY <2>1, <2>2
<1> QED
  BY <1>11, <1>12, <1>13

(* There are no more hits than tools.                                         *)
LEMMA RankingOf ==
    ASSUME NEW S,
           \A r \in S : r.id \in Search!Offered /\ r.score \in Nat /\ r.place \in Nat,
           \A r, s \in S : r.id = s.id \/ r.place = s.place => r = s
    PROVE  Ranking(S) /\ Cardinality(S) <= NumTools
<1> DEFINE f == [r \in S |-> r.id]
<1>1. f \in Injection(S, 1..NumTools)
  BY DEF Injection, IsInjective, Search!Offered
<1>2. 1 \in Int /\ NumTools \in Int /\ NumTools \in Nat
  BY SearchAssumption
<1>3. IsFiniteSet(1..NumTools)
  BY <1>2, FS_Interval
<1>4. Cardinality(1..NumTools) = NumTools
  BY <1>2, FS_Interval
<1> HIDE DEF f
<1>5. IsFiniteSet(S) /\ Cardinality(S) <= NumTools
  BY <1>1, <1>3, <1>4, FS_Injection
<1> QED
  BY <1>5 DEF Ranking

(* What the words find, before it is cut, is a ranking by their score.       *)
LEMMA SimilarRanked ==
    ASSUME Search!TypeOK, NEW query \in Search!Queries
    PROVE  /\ Ranking(Search!Similar(query)) /\ Cardinality(Search!Similar(query)) <= NumTools
           /\ Search!Similar(query) \subseteq Search!Hit
           /\ \A r \in Search!Similar(query) :
                  r.score = Search!Similarity(query, r.id) /\ r.score >= Threshold
           /\ \A t \in Search!Offered : Search!Similarity(query, t) >= Threshold =>
                  \E r \in Search!Similar(query) : r.id = t
<1> USE SearchAssumption
<1>1. PICK S : S = Search!Similar(query)
  OBVIOUS
<1>2. ASSUME NEW r \in S
      PROVE  /\ r.id \in Search!Offered /\ r.place = r.id
             /\ r.score = Search!Similarity(query, r.id) /\ r.score >= Threshold
             /\ r = [id |-> r.id, score |-> Search!Similarity(query, r.id), place |-> r.id]
  BY <1>1 DEF Search!Similar
<1>3. ASSUME NEW t \in Search!Offered, Search!Similarity(query, t) >= Threshold
      PROVE  \E r \in S : r.id = t
  <2>1. [id |-> t, score |-> Search!Similarity(query, t), place |-> t] \in S
    BY <1>1, <1>3 DEF Search!Similar
  <2> QED
    BY <2>1
<1>4. \A r \in S : r.id \in Nat /\ r.place \in Nat /\ r.score \in 0..Unit
  BY <1>2, ScoresBounded DEF Search!Offered
<1>5. \A r \in S : r.score \in Nat /\ r.score \in 0..(10 * Unit)
  BY <1>4
<1>6. \A r, s \in S : r.id = s.id \/ r.place = s.place => r = s
  BY <1>2
<1>7. Ranking(S) /\ Cardinality(S) <= NumTools
  BY <1>2, <1>4, <1>5, <1>6, RankingOf
<1>8. S \subseteq Search!Hit
  BY <1>2, <1>4, <1>5 DEF Search!Hit
<1> QED
  BY <1>1, <1>2, <1>3, <1>7, <1>8

(* So is what the terms find.                                                *)
LEMMA MatchingRanked ==
    ASSUME Search!TypeOK, NEW query \in Search!Queries
    PROVE  /\ Ranking(Search!Matching(query)) /\ Cardinality(Search!Matching(query)) <= NumTools
           /\ Search!Matching(query) \subseteq Search!Hit
           /\ \A r \in Search!Matching(query) :
                  r.score = Search!KeywordScore(query, r.id) /\ r.score > 0
           /\ \A t \in Search!Offered : Search!KeywordScore(query, t) > 0 =>
                  \E r \in Search!Matching(query) : r.id = t
<1> USE SearchAssumption
<1>1. PICK S : S = Search!Matching(query)
  OBVIOUS
<1>2. ASSUME NEW r \in S
      PROVE  /\ r.id \in Search!Offered /\ r.place = r.id
             /\ r.score = Search!KeywordScore(query, r.id) /\ r.score > 0
             /\ r = [id |-> r.id, score |-> Search!KeywordScore(query, r.id), place |-> r.id]
  BY <1>1 DEF Search!Matching
<1>3. ASSUME NEW t \in Search!Offered, Search!KeywordScore(query, t) > 0
      PROVE  \E r \in S : r.id = t
  <2>1. [id |-> t, score |-> Search!KeywordScore(query, t), place |-> t] \in S
    BY <1>1, <1>3 DEF Search!Matching
  <2> QED
    BY <2>1
<1>4. \A r \in S : r.id \in Nat /\ r.place \in Nat /\ r.score \in 0..Unit
  BY <1>2, ScoresBounded DEF Search!Offered
<1>5. \A r \in S : r.score \in Nat /\ r.score \in 0..(10 * Unit)
  BY <1>4
<1>6. \A r, s \in S : r.id = s.id \/ r.place = s.place => r = s
  BY <1>2
<1>7. Ranking(S) /\ Cardinality(S) <= NumTools
  BY <1>2, <1>4, <1>5, <1>6, RankingOf
<1>8. S \subseteq Search!Hit
  BY <1>2, <1>4, <1>5 DEF Search!Hit
<1> QED
  BY <1>1, <1>2, <1>3, <1>7, <1>8

(* A place of its own for each tool of a ranking.                             *)
LEMMA PlacesOf ==
    ASSUME NEW S, Ranking(S)
    PROVE  /\ \A t \in Search!Ids(S) :
                  Search!RankOf(t, S) \in Nat /\ Search!RankOf(t, S) < Cardinality(S)
           /\ \A t, u \in Search!Ids(S) : Search!RankOf(t, S) = Search!RankOf(u, S) => t = u
           /\ \A r \in S : Search!RankOf(r.id, S) = Search!Rank(r, S)
<1>1. ASSUME NEW r \in S PROVE Search!RankOf(r.id, S) = Search!Rank(r, S)
  <2>1. (CHOOSE s \in S : s.id = r.id) = r
    BY DEF Ranking
  <2> QED
    BY <2>1 DEF Search!RankOf
<1>2. \A t \in Search!Ids(S) : \E r \in S : r.id = t
  BY DEF Search!Ids
<1> QED
  BY <1>1, <1>2, HitsRanked

(* What a hybrid search joins: the hits of the words first.                   *)
LEMMA JoinedRanked ==
    ASSUME Search!TypeOK, NEW query \in Search!Queries, NEW semantic, NEW keyword,
           Ranking(semantic), Ranking(keyword)
    PROVE  /\ Ranking(Search!Joined(query, semantic, keyword))
           /\ Cardinality(Search!Joined(query, semantic, keyword)) <= NumTools
           /\ Search!Joined(query, semantic, keyword) \subseteq Search!Hit
           /\ \A r \in Search!Joined(query, semantic, keyword) :
                  /\ r.score = Search!Combined(query, semantic, keyword, r.id)
                  /\ r.id \in Search!Ids(semantic) \cup Search!Ids(keyword)
                  /\ r.id \in Search!Ids(semantic) <=> r.place < Cardinality(semantic)
           /\ \A t \in Search!Ids(semantic) \cup Search!Ids(keyword) :
                  \E r \in Search!Joined(query, semantic, keyword) : r.id = t
<1> USE SearchAssumption
<1>1. PICK S, all : /\ S = Search!Joined(query, semantic, keyword)
                    /\ all = Search!Ids(semantic) \cup Search!Ids(keyword)
  OBVIOUS
<1>2. all \subseteq Search!Offered
  BY <1>1 DEF Ranking, Search!Ids
<1>3. ASSUME NEW r \in S
      PROVE  /\ r.id \in all
             /\ r.place = Search!PlaceOf(semantic, keyword, r.id)
             /\ r.score = Search!Combined(query, semantic, keyword, r.id)
             /\ r = [id |-> r.id, score |-> Search!Combined(query, semantic, keyword, r.id),
                     place |-> Search!PlaceOf(semantic, keyword, r.id)]
  BY <1>1 DEF Search!Joined
<1>4. ASSUME NEW t \in all PROVE \E r \in S : r.id = t
  <2>1. [id |-> t, score |-> Search!Combined(query, semantic, keyword, t),
         place |-> Search!PlaceOf(semantic, keyword, t)] \in S
    BY <1>1 DEF Search!Joined
  <2> QED
    BY <2>1
<1>5. Cardinality(semantic) \in Nat /\ Search!Cardinality(semantic) = Cardinality(semantic)
  BY HitsRanked, SearchCount
<1>6. ASSUME NEW t \in all
      PROVE  /\ Search!PlaceOf(semantic, keyword, t) \in Nat
             /\ t \in Search!Ids(semantic) =>
                  /\ Search!PlaceOf(semantic, keyword, t) = Search!RankOf(t, semantic)
                  /\ Search!PlaceOf(semantic, keyword, t) < Cardinality(semantic)
             /\ t \notin Search!Ids(semantic) =>
                  /\ t \in Search!Ids(keyword) /\ Search!RankOf(t, keyword) \in Nat
                  /\ Search!PlaceOf(semantic, keyword, t)
                        = Cardinality(semantic) + Search!RankOf(t, keyword)
                  /\ ~(Search!PlaceOf(semantic, keyword, t) < Cardinality(semantic))
  <2>1. CASE t \in Search!Ids(semantic)
    BY <2>1, PlacesOf DEF Search!PlaceOf
  <2>2. CASE t \notin Search!Ids(semantic)
    <3>1. t \in Search!Ids(keyword)
      BY <1>1, <2>2
    <3>2. Search!RankOf(t, keyword) \in Nat
      BY <3>1, PlacesOf
    <3> QED
      BY <1>5, <2>2, <3>1, <3>2 DEF Search!PlaceOf
  <2> QED
    BY <2>1, <2>2
<1>7. ASSUME NEW t \in all, NEW u \in all,
             Search!PlaceOf(semantic, keyword, t) = Search!PlaceOf(semantic, keyword, u)
      PROVE  t = u
  <2>1. CASE t \in Search!Ids(semantic)
    <3>1. u \in Search!Ids(semantic)
      BY <1>6, <1>7, <2>1
    <3> QED
      BY <1>6, <1>7, <2>1, <3>1, PlacesOf
  <2>2. CASE t \notin Search!Ids(semantic)
    <3>1. u \notin Search!Ids(semantic)
      BY <1>6, <1>7, <2>2
    <3>2. Search!RankOf(t, keyword) = Search!RankOf(u, keyword)
      BY <1>5, <1>6, <1>7, <2>2, <3>1
    <3> QED
      BY <1>6, <2>2, <3>1, <3>2, PlacesOf
  <2> QED
    BY <2>1, <2>2
<1>8. ASSUME NEW t \in all
      PROVE  /\ Search!Combined(query, semantic, keyword, t) \in Nat
             /\ Search!Combined(query, semantic, keyword, t) \in 0..(10 * Unit)
  <2>1. /\ Search!Similarity(query, t) \in 0..Unit /\ Search!KeywordScore(query, t) \in 0..Unit
    BY <1>2, ScoresBounded
  <2> QED
    BY <2>1 DEF Search!Combined
<1>9. \A r \in S : r.id \in Search!Offered /\ r.score \in Nat /\ r.place \in Nat
  BY <1>2, <1>3, <1>6, <1>8
<1>10. \A r, s \in S : r.id = s.id \/ r.place = s.place => r = s
  BY <1>3, <1>7
<1>11. Ranking(S) /\ Cardinality(S) <= NumTools
  BY <1>9, <1>10, RankingOf
<1>12. S \subseteq Search!Hit
  BY <1>3, <1>8, <1>9 DEF Search!Hit
<1>13. \A r \in S : r.id \in Search!Ids(semantic) <=> r.place < Cardinality(semantic)
  BY <1>3, <1>6
<1> QED
  BY <1>1, <1>3, <1>4, <1>11, <1>12, <1>13
-----------------------------------------------------------------------------
(* Both searches keep a ranking of what they have found, and the hybrid one   *)
(* of what it joins.                                                         *)
LEMMA AnswerRanked ==
    ASSUME Search!TypeOK, NEW query \in Search!Queries, NEW type \in Search!Types, NEW max \in Nat
    PROVE  /\ Ranking(Search!Answer(query, type, max))
           /\ Cardinality(Search!Answer(query, type, max)) <= max
           /\ Search!Answer(query, type, max) \subseteq Search!Hit
<1>1. /\ Ranking(Search!SemanticSearch(query, max))
      /\ Cardinality(Search!SemanticSearch(query, max)) <= max
      /\ Search!SemanticSearch(query, max) \subseteq Search!Hit
  BY SimilarRanked, TopRanked DEF Search!SemanticSearch
<1>2. /\ Ranking(Search!KeywordSearch(query, max))
      /\ Cardinality(Search!KeywordSearch(query, max)) <= max
      /\ Search!KeywordSearch(query, max) \subseteq Search!Hit
  BY MatchingRanked, TopRanked DEF Search!KeywordSearch
<1>3. /\ Ranking(Search!HybridSearch(query, max))
      /\ Cardinality(Search!HybridSearch(query, max)) <= max
      /\ Search!HybridSearch(query, max) \subseteq Search!Hit
  <2>1. PICK S : S = Search!Joined(query, Search!SemanticSearch(query, max), Search!KeywordSearch(query, max))
    OBVIOUS
  <2>2. Ranking(S) /\ S \subseteq Search!Hit
    BY <1>1, <1>2, <2>1, JoinedRanked
  <2>3. Search!HybridSearch(query, max) = Search!Top(S, max)
    BY <2>1 DEF Search!HybridSearch
  <2> QED
    BY <2>2, <2>3, TopRanked
<1>4. type = "semantic" \/ type = "keyword" \/ type = "hybrid"
  BY DEF Search!Types
<1>5. /\ type = "semantic" => Search!Answer(query, type, max) = Search!SemanticSearch(query, max)
      /\ type = "keyword" => Search!Answer(query, type, max) = Search!KeywordSearch(query, max)
      /\ type = "hybrid" => Search!Answer(query, type, max) = Search!HybridSearch(query, max)
  BY DEF Search!Answer
<1> QED
  BY <1>1, <1>2, <1>3, <1>4, <1>5

(* What a search by words leaves out is no better than what it gives.         *)
LEMMA WordsGiveTheBest ==
    ASSUME Search!TypeOK, NEW query \in Search!Queries, NEW max \in Nat,
           NEW t \in Search!Offered \ Search!Ids(Search!SemanticSearch(query, max)),
           NEW r \in Search!SemanticSearch(query, max)
    PROVE  Search!Similarity(query, t) <= r.score
<1>1. PICK S : S = Search!Similar(query)
  OBVIOUS
<1>2. Ranking(S) /\ Search!SemanticSearch(query, max) = Search!Top(S, max)
  BY <1>1, SimilarRanked DEF Search!SemanticSearch
<1>3. r \in S
  BY <1>2, TopRanked
<1>4. r.score \in Nat /\ r.score >= Threshold /\ Threshold \in Nat
  BY <1>1, <1>2, <1>3, SimilarRanked, SearchAssumption DEF Ranking
<1>5. Search!Similarity(query, t) \in Nat
  BY ScoresBounded, SearchAssumption
<1>6. CASE ~(Search!Similarity(query, t) >= Threshold)
  BY <1>4, <1>5, <1>6
<1>7. CASE Search!Similarity(query, t) >= Threshold
  <2>1. PICK u \in S : u.id = t
    BY <1>1, <1>7, SimilarRanked
  <2>2. u \notin Search!Top(S, max)
    BY <1>2, <2>1 DEF Search!Ids
  <2>3. Search!Before(r, u)
    BY <1>2, <2>1, <2>2, TopRanked
  <2>4. u.score = Search!Similarity(query, t)
    BY <1>1, <2>1, SimilarRanked
  <2> QED
    BY <1>4, <1>5, <2>3, <2>4 DEF Search!Before
<1> QED
  BY <1>6, <1>7

(* So it is with a search by terms.                                           *)
LEMMA TermsGiveTheBest ==
    ASSUME Search!TypeOK, NEW query \in Search!Queries, NEW max \in Nat,
           NEW t \in Search!Offered \ Search!Ids(Search!KeywordSearch(query, max)),
           NEW r \in Search!KeywordSearch(query, max)
    PROVE  Search!KeywordScore(query, t) <= r.score
<1>1. PICK S : S = Search!Matching(query)
  OBVIOUS
<1>2. Ranking(S) /\ Search!KeywordSearch(query, max) = Search!Top(S, max)
  BY <1>1, MatchingRanked DEF Search!KeywordSearch
<1>3. r \in S
  BY <1>2, TopRanked
<1>4. r.score \in Nat
  BY <1>2, <1>3 DEF Ranking
<1>5. Search!KeywordScore(query, t) \in Nat
  BY ScoresBounded, SearchAssumption
<1>6. CASE ~(Search!KeywordScore(query, t) > 0)
  BY <1>4, <1>5, <1>6
<1>7. CASE Search!KeywordScore(query, t) > 0
  <2>1. PICK u \in S : u.id = t
    BY <1>1, <1>7, MatchingRanked
  <2>2. u \notin Search!Top(S, max)
    BY <1>2, <2>1 DEF Search!Ids
  <2>3. Search!Before(r, u)
    BY <1>2, <2>1, <2>2, TopRanked
  <2>4. u.score = Search!KeywordScore(query, t)
    BY <1>1, <2>1, MatchingRanked
  <2> QED
    BY <1>4, <1>5, <2>3, <2>4 DEF Search!Before
<1> QED
  BY <1>6, <1>7

(* With room for all tools a hybrid search leaves out none that its words     *)
(* find.                                                                     *)
LEMMA RoomForAll ==
    ASSUME Search!TypeOK, NEW query \in Search!Queries,
           NEW t \in Search!Offered, Search!Similarity(query, t) >= Threshold
    PROVE  t \in Search!Ids(Search!HybridSearch(query, NumTools))
<1>1. PICK semantic, keyword, S :
        /\ semantic = Search!SemanticSearch(query, NumTools)
        /\ keyword = Search!KeywordSearch(query, NumTools)
        /\ S = Search!Joined(query, semantic, keyword)
  OBVIOUS
<1>2. NumTools \in Nat
  BY SearchAssumption
<1>3. semantic = Search!Similar(query)
  BY <1>1, <1>2, SimilarRanked, TopRanked DEF Search!SemanticSearch
<1>4. Ranking(semantic) /\ Ranking(keyword)
  BY <1>1, <1>2, SimilarRanked, MatchingRanked, TopRanked
  DEF Search!SemanticSearch, Search!KeywordSearch
<1>5. Search!HybridSearch(query, NumTools) = S
  <2>1. Ranking(S) /\ Cardinality(S) <= NumTools
    BY <1>1, <1>4, JoinedRanked
  <2> QED
    BY <1>1, <1>2, <2>1, TopRanked DEF Search!HybridSearch
<1>6. t \in Search!Ids(semantic)
  BY <1>3, SimilarRanked DEF Search!Ids
<1>7. \E r \in S : r.id = t
  BY <1>1, <1>4, <1>6, JoinedRanked
<1> QED
  BY <1>5, <1>7 DEF Search!Ids

(* A tool that the words find keeps its score in a hybrid search.  The only   *)
(* way to lose it is to be left out of the words' hits for want of room and   *)
(* to come in by the terms alone; but then the hits of the words, which fill  *)
(* the room, all come before it.                                             *)
LEMMA HybridKeepsScores ==
    ASSUME Search!TypeOK, NEW query \in Search!Queries, NEW max \in Nat,
           Search!IsInjective(query), 3 * Unit <= 10 * Threshold,
           NEW r \in Search!HybridSearch(query, max), Search!Similarity(query, r.id) >= Threshold
    PROVE  r.score >= 10 * Search!Similarity(query, r.id)
<1>1. PICK semantic, keyword, S :
        /\ semantic = Search!SemanticSearch(query, max)
        /\ keyword = Search!KeywordSearch(query, max)
        /\ S = Search!Joined(query, semantic, keyword)
  OBVIOUS
<1>2. Ranking(semantic) /\ Ranking(keyword)
  BY <1>1, SimilarRanked, MatchingRanked, TopRanked
  DEF Search!SemanticSearch, Search!KeywordSearch
<1>3. Ranking(S) /\ Search!HybridSearch(query, max) = Search!Top(S, max)
  BY <1>1, <1>2, JoinedRanked DEF Search!HybridSearch
<1>4. r \in S /\ Search!Rank(r, S) < max
  BY <1>3 DEF Search!Top
<1>5. ASSUME NEW s \in S
      PROVE  /\ s.score = Search!Combined(query, semantic, keyword, s.id)
             /\ s.id \in Search!Offered /\ s.place \in Nat /\ s.score \in Nat
             /\ s.id \in Search!Ids(semantic) <=> s.place < Cardinality(semantic)
             /\ Search!Similarity(query, s.id) \in Nat /\ Search!KeywordScore(query, s.id) \in 0..Unit
             /\ Search!Similarity(query, s.id) <= Search!KeywordScore(query, s.id)
  <2>1. s.id \in Search!Offered /\ s.place \in Nat /\ s.score \in Nat
    BY <1>3 DEF Ranking
  <2> QED
    BY <1>1, <1>2, <2>1, JoinedRanked, ScoresBounded, SearchAssumption
<1> USE SearchAssumption
<1>6. CASE r.id \notin Search!Ids(keyword)
  BY <1>4, <1>5, <1>6 DEF Search!Combined
<1>7. CASE r.id \in Search!Ids(keyword) /\ r.id \in Search!Ids(semantic)
  <2>1. PICK a, b : a = Search!Similarity(query, r.id) /\ b = Search!KeywordScore(query, r.id)
    OBVIOUS
  <2>2. r.score = 7 * a + 3 * b
    BY <1>4, <1>5, <1>7, <2>1 DEF Search!Combined
  <2> QED
    BY <1>4, <1>5, <2>1, <2>2
<1>8. CASE r.id \in Search!Ids(keyword) /\ r.id \notin Search!Ids(semantic)
  <2>1. PICK found \in Search!Similar(query) : found.id = r.id
    BY <1>4, <1>5, SimilarRanked
  <2>2. found \notin semantic
    BY <1>8, <2>1 DEF Search!Ids
  <2>3. Cardinality(semantic) = max
    BY <1>1, <2>1, <2>2, SimilarRanked, TopRanked DEF Search!SemanticSearch
  <2>4. r.score <= 10 * Threshold /\ ~(r.place < Cardinality(semantic))
    <3>1. r.score = 3 * Search!KeywordScore(query, r.id)
      BY <1>4, <1>5, <1>8 DEF Search!Combined
    <3> QED
      BY <1>4, <1>5, <1>8, <3>1
  <2>5. ASSUME NEW s \in S, s.id \in Search!Ids(semantic) PROVE Search!Before(s, r)
    <3>1. PICK hit \in semantic : hit.id = s.id
      BY <2>5 DEF Search!Ids
    <3>2. hit \in Search!Similar(query)
      BY <1>1, <3>1, SimilarRanked, TopRanked DEF Search!SemanticSearch
    <3>3. Search!Similarity(query, s.id) >= Threshold
      BY <3>1, <3>2, SimilarRanked
    <3>4. PICK a, b : a = Search!Similarity(query, s.id) /\ b = Search!KeywordScore(query, s.id)
      OBVIOUS
    <3>5. a \in Nat /\ b \in Nat /\ a >= Threshold /\ b >= a
      BY <1>5, <3>3, <3>4
    <3>6. s.score = 10 * a \/ s.score = 7 * a + 3 * b
      BY <1>5, <2>5, <3>4 DEF Search!Combined
    <3>7. s.score >= 10 * Threshold
      BY <3>5, <3>6
    <3>8. s.place < Cardinality(semantic) /\ Cardinality(semantic) \in Nat
      BY <1>2, <1>5, <2>5, HitsRanked
    <3>9. s.place < r.place
      BY <1>4, <1>5, <2>4, <3>8
    <3> QED
      BY <1>4, <1>5, <2>4, <3>7, <3>9 DEF Search!Before
  <2> DEFINE ahead == {s \in S : Search!Before(s, r)}
             f == [s \in semantic |-> CHOOSE q \in S : q.id = s.id]
  <2>6. ASSUME NEW s \in semantic PROVE f[s] \in ahead /\ f[s].id = s.id
    <3>1. s.id \in Search!Ids(semantic)
      BY DEF Search!Ids
    <3>2. \E q \in S : q.id = s.id
      BY <1>1, <1>2, <3>1, JoinedRanked
    <3> QED
      BY <2>5, <3>1, <3>2
  <2>7. f \in Injection(semantic, ahead)
    <3>1. \A s, q \in semantic : f[s] = f[q] => s = q
      BY <1>2, <2>6 DEF Ranking
    <3>2. f \in [semantic -> ahead]
      BY <2>6
    <3> HIDE DEF f
    <3> QED
      BY <3>1, <3>2 DEF Injection, IsInjective
  <2>8. IsFiniteSet(ahead)
    BY <1>3, FS_Subset DEF Ranking
  <2>9. Search!Rank(r, S) = Cardinality(ahead)
    BY SearchCount DEF Search!Rank
  <2> HIDE DEF f, ahead
  <2>10. Cardinality(semantic) <= Cardinality(ahead)
    BY <2>7, <2>8, FS_Injection
  <2>11. Cardinality(ahead) \in Nat
    BY <2>8, FS_CardinalityType
  <2> QED
    BY <1>4, <2>3, <2>9, <2>10, <2>11
<1> QED
  BY <1>6, <1>7, <1>8
-----------------------------------------------------------------------------
(* What the search promises is inductive: an answer is made in one step.      *)
SearchIInv == Search!TypeOK /\ Search!SearchIsSound

(* A record without entries has none that failed, and one more entry counts   *)
(* where it belongs.                                                         *)
LEMMA SearchFailures ==
    ASSUME NEW h \in Seq({"completed", "failed"}), NEW e \in {"completed", "failed"}
    PROVE  /\ Append(h, e) \in Seq({"completed", "failed"}) /\ Len(Append(h, e)) = Len(h) + 1
           /\ Search!Cardinality({i \in DOMAIN h : h[i] = "failed"}) \in Nat
           /\ Search!Cardinality({i \in DOMAIN Append(h, e) : Append(h, e)[i] = "failed"})
                = Search!Cardinality({i \in DOMAIN h : h[i] = "failed"})
                    + (IF e = "failed" THEN 1 ELSE 0)
<1> DEFINE D == {i \in DOMAIN h : h[i] = "failed"}
           E == {i \in DOMAIN Append(h, e) : Append(h, e)[i] = "failed"}
           k == Len(h) + 1
<1>1. Len(h) \in Nat /\ DOMAIN h = 1..Len(h) /\ Append(h, e) \in Seq({"completed", "failed"})
      /\ Len(Append(h, e)) = k /\ DOMAIN Append(h, e) = 1..k
  OBVIOUS
<1>2. 1 \in Int /\ Len(h) \in Int
  BY <1>1
<1>3. IsFiniteSet(1..Len(h))
  BY <1>2, FS_Interval
<1>4. D \in SUBSET (1..Len(h)) /\ k \notin D
  BY <1>1
<1>5. /\ e = "failed" => E = D \cup {k}
      /\ e # "failed" => E = D
  <2>1. Append(h, e)[k] = e /\ \A i \in 1..Len(h) : Append(h, e)[i] = h[i]
    OBVIOUS
  <2>2. \A i : i \in 1..k <=> i \in 1..Len(h) \/ i = k
    BY <1>1
  <2>3. k \in 1..k
    BY <1>1
  <2> QED
    BY <1>1, <2>1, <2>2, <2>3
<1>6. Search!Cardinality(D) = Cardinality(D) /\ Search!Cardinality(E) = Cardinality(E)
  BY SearchCount
<1> HIDE DEF D, E, k
<1>7. IsFiniteSet(D) /\ Cardinality(D) \in Nat
  BY <1>3, <1>4, FS_Subset, FS_CardinalityType
<1>8. Cardinality(D \cup {k}) = Cardinality(D) + 1
  BY <1>4, <1>7, FS_AddElement
<1>9. Cardinality(E) = Cardinality(D) + (IF e = "failed" THEN 1 ELSE 0)
  <2>1. CASE e = "failed"
    BY <1>5, <1>8, <2>1
  <2>2. CASE e # "failed"
    BY <1>5, <1>7, <2>2
  <2> QED
    BY <2>1, <2>2
<1> QED
  BY <1>1, <1>6, <1>7, <1>9 DEF D, E, k

(* Nothing is asked: the answer is empty.                                     *)
LEMMA NothingAsked ==
    ASSUME SearchAssumption
    PROVE  <<>> \in Search!Queries /\ Search!Cardinality({}) = 0
<1>1. <<>> \in [1..0 -> Words]
  OBVIOUS
<1>2. 0 \in 0..MaxTerms
  BY SearchAssumption
<1> QED
  BY <1>1, <1>2, SearchCount, FS_EmptySet DEF Search!Queries

(* It holds before the first search.                                         *)
LEMMA SearchInit == Search!Init => SearchIInv
<1> SUFFICES ASSUME Search!Init PROVE SearchIInv
  OBVIOUS
<1> USE SearchAssumption DEF Search!Init
<1>1. <<>> \in Search!Queries /\ Search!Cardinality({}) = 0
  BY NothingAsked
<1>2. Search!TypeOK
  BY <1>1 DEF Search!TypeOK
<1>3. Search!ResultsAreBest
  BY <1>1 DEF Search!ResultsAreBest
<1>4. Search!TermsDoNotHurt
  BY DEF Search!TermsDoNotHurt
<1>5. Search!CountsMatchRecord
  <2>1. {i \in DOMAIN searches : searches[i] = "failed"} = {}
    OBVIOUS
  <2> QED
    BY <1>1, <2>1 DEF Search!CountsMatchRecord
<1> QED
  BY <1>2, <1>3, <1>4, <1>5 DEF SearchIInv, Search!SearchIsSound

(* Every search keeps it, one that fails too.                                *)
LEMMA SearchKept == SearchIInv /\ [Search!Next]_searchVars => SearchIInv'
<1> SUFFICES ASSUME SearchIInv, [Search!Next]_searchVars PROVE SearchIInv'
  OBVIOUS
<1> USE SearchAssumption
<1>1. /\ Search!TypeOK /\ Search!ResultsAreBest /\ Search!TermsDoNotHurt /\ Search!CountsMatchRecord
  BY DEF SearchIInv, Search!SearchIsSound
<1>2. /\ text \in [Search!Offered -> SUBSET Words]
      /\ searches \in Seq({"completed", "failed"})
      /\ total \in Nat /\ successful \in Nat /\ unsuccessful \in Nat
  BY <1>1 DEF Search!TypeOK
<1>3. ASSUME NEW query \in Search!Queries, NEW type \in Search!Types, NEW max \in Search!Offered,
             Search!SearchTools(query, type, max)
      PROVE  SearchIInv'
  <2>1. /\ asked' = [query |-> query, type |-> type, max |-> max]
        /\ results' = Search!Answer(query, type, max)
        /\ searches' = Append(searches, "completed")
        /\ total' = total + 1 /\ successful' = successful + 1
        /\ text' = text /\ unsuccessful' = unsuccessful
    BY <1>3 DEF Search!SearchTools
  <2>2. max \in Nat /\ max \in 0..NumTools
    BY DEF Search!Offered
  <2>3. /\ Ranking(results') /\ Cardinality(results') <= max /\ results' \subseteq Search!Hit
    BY <1>1, <2>1, <2>2, AnswerRanked
  <2>4. \A q \in Search!Queries, t \in Search!Offered :
          /\ (Search!Similarity(q, t))' = Search!Similarity(q, t)
          /\ (Search!KeywordScore(q, t))' = Search!KeywordScore(q, t)
    BY <2>1 DEF Search!Similarity, Search!KeywordScore, Search!Hits, Search!Occurs
  <2>5. Search!TypeOK'
    BY <1>2, <2>1, <2>2, <2>3, SearchFailures DEF Search!TypeOK
  <2>6. Search!ResultsAreBest'
    <3>1. asked'.query = query /\ asked'.type = type /\ asked'.max = max
      BY <2>1
    <3>2. Search!Cardinality(results') <= max /\ \A r, s \in results' : r.id = s.id => r = s
      BY <2>3, SearchCount DEF Ranking
    <3>3. ASSUME type = "semantic", NEW t \in Search!Offered \ Search!Ids(results'), NEW r \in results'
          PROVE  Search!Similarity(query, t) <= r.score
      <4>1. results' = Search!SemanticSearch(query, max)
        BY <2>1, <3>3 DEF Search!Answer
      <4> QED
        BY <1>1, <2>2, <3>3, <4>1, WordsGiveTheBest
    <3>4. ASSUME type = "keyword", NEW t \in Search!Offered \ Search!Ids(results'), NEW r \in results'
          PROVE  Search!KeywordScore(query, t) <= r.score
      <4>1. results' = Search!KeywordSearch(query, max)
        BY <2>1, <3>4 DEF Search!Answer
      <4> QED
        BY <1>1, <2>2, <3>4, <4>1, TermsGiveTheBest
    <3>5. ASSUME type = "hybrid", max = NumTools, NEW t \in Search!Offered,
                 Search!Similarity(query, t) >= Threshold
          PROVE  t \in Search!Ids(results')
      <4>1. results' = Search!HybridSearch(query, NumTools)
        BY <2>1, <3>5 DEF Search!Answer
      <4> QED
        BY <1>1, <3>5, <4>1, RoomForAll
    <3> QED
      BY <2>4, <3>1, <3>2, <3>3, <3>4, <3>5 DEF Search!ResultsAreBest
  <2>7. Search!TermsDoNotHurt'
    <3>1. asked'.query = query /\ asked'.type = type
      BY <2>1
    <3>2. ASSUME type = "hybrid", Search!IsInjective(query), 3 * Unit <= 10 * Threshold,
                 NEW r \in results', Search!Similarity(query, r.id) >= Threshold
          PROVE  r.score >= 10 * Search!Similarity(query, r.id)
      <4>1. results' = Search!HybridSearch(query, max)
        BY <2>1, <3>2 DEF Search!Answer
      <4> QED
        BY <1>1, <2>2, <3>2, <4>1, HybridKeepsScores
    <3>3. \A r \in results' : r.id \in Search!Offered
      BY <2>3 DEF Ranking
    <3> QED
      BY <2>4, <3>1, <3>2, <3>3 DEF Search!TermsDoNotHurt
  <2>8. Search!CountsMatchRecord'
    <3>1. PICK n, m :
            /\ n = Search!Cardinality({i \in DOMAIN searches : searches[i] = "failed"})
            /\ m = Search!Cardinality({i \in DOMAIN searches' : searches'[i] = "failed"})
      OBVIOUS
    <3>2. Len(searches') = Len(searches) + 1 /\ m = n + 0
      BY <1>2, <2>1, <3>1, SearchFailures
    <3>3. total = Len(searches) /\ total = successful + unsuccessful /\ unsuccessful = n
      BY <1>1, <3>1 DEF Search!CountsMatchRecord
    <3>4. total' = Len(searches') /\ total' = successful' + unsuccessful' /\ unsuccessful' = m
      BY <1>2, <2>1, <3>2, <3>3
    <3> QED
      BY <3>1, <3>4 DEF Search!CountsMatchRecord
  <2> QED
    BY <2>5, <2>6, <2>7, <2>8 DEF SearchIInv, Search!SearchIsSound
<1>4. CASE Search!SearchFails
  <2>1. /\ asked' = [query |-> <<>>, type |-> "none", max |-> 0] /\ results' = {}
        /\ searches' = Append(searches, "failed")
        /\ total' = total + 1 /\ unsuccessful' = unsuccessful + 1
        /\ text' = text /\ successful' = successful
    BY <1>4 DEF Search!SearchFails
  <2>2. <<>> \in Search!Queries /\ Search!Cardinality({}) = 0
    BY NothingAsked
  <2>3. Search!TypeOK'
    BY <1>2, <2>1, <2>2, SearchFailures DEF Search!TypeOK
  <2>4. Search!ResultsAreBest'
    BY <2>1, <2>2 DEF Search!ResultsAreBest
  <2>5. Search!TermsDoNotHurt'
    BY <2>1 DEF Search!TermsDoNotHurt
  <2>6. Search!CountsMatchRecord'
    <3>1. PICK n, m :
            /\ n = Search!Cardinality({i \in DOMAIN searches : searches[i] = "failed"})
            /\ m = Search!Cardinality({i \in DOMAIN searches' : searches'[i] = "failed"})
      OBVIOUS
    <3>2. Len(searches') = Len(searches) + 1 /\ m = n + 1
      BY <1>2, <2>1, <3>1, SearchFailures
    <3>3. total = Len(searches) /\ total = successful + unsuccessful /\ unsuccessful = n
      BY <1>1, <3>1 DEF Search!CountsMatchRecord
    <3>4. total' = Len(searches') /\ total' = successful' + unsuccessful' /\ unsuccessful' = m
      BY <1>2, <2>1, <3>2, <3>3
    <3> QED
      BY <3>1, <3>4 DEF Search!CountsMatchRecord
  <2> QED
    BY <2>3, <2>4, <2>5, <2>6 DEF SearchIInv, Search!SearchIsSound
<1>5. CASE UNCHANGED searchVars
  <2>1. /\ text' = text /\ asked' = asked /\ results' = results /\ searches' = searches
        /\ total' = total /\ successful' = successful /\ unsuccessful' = unsuccessful
    BY <1>5 DEF searchVars
  <2>2. Search!TypeOK'
    BY <1>1, <2>1 DEF Search!TypeOK
  <2>3. Search!ResultsAreBest'
    BY <1>1, <2>1 DEF Search!ResultsAreBest, Search!Similarity, Search!KeywordScore, Search!Hits,
                     Search!Occurs
  <2>4. Search!TermsDoNotHurt'
    BY <1>1, <2>1 DEF Search!TermsDoNotHurt, Search!Similarity
  <2>5. Search!CountsMatchRecord'
    BY <1>1, <2>1 DEF Search!CountsMatchRecord
  <2> QED
    BY <2>2, <2>3, <2>4, <2>5 DEF SearchIInv, Search!SearchIsSound
<1>6. Search!Look => UNCHANGED searchVars
  BY DEF Search!Look, Search!vars, searchVars
<1> QED
  BY <1>3, <1>4, <1>5, <1>6 DEF Search!Next
-----------------------------------------------------------------------------
(* All parts of the catalogue together.                                      *)
CatalogIInv ==
    IInv /\ StoreIInv /\ TeamIInv /\ MemoryIInv /\ VersionsIInv /\ ChecksIInv /\ SearchIInv

(* The composition starts with every part at its start.                      *)
LEMMA CatalogStarts == CatalogInit => CatalogIInv
  BY InitIInv, StoreInit, TeamInit, MemoryInit, VersionsInit, ChecksInit, SearchInit
  DEF CatalogInit, CatalogIInv

(* A step is one of a part, and the others rest.                             *)
LEMMA CatalogStep == CatalogIInv /\ [CatalogNext]_catalogVars => CatalogIInv'
<1> SUFFICES ASSUME CatalogIInv, [CatalogNext]_catalogVars PROVE CatalogIInv'
  OBVIOUS
<1>1. /\ [Next]_vars /\ [Store!Next]_storeVars /\ [Team!Next]_teamVars
      /\ [Memory!Next]_memoryVars /\ [Versions!Next]_versionVars /\ [Checks!Next]_checkVars
      /\ [Search!Next]_searchVars
  BY DEF CatalogNext, catalogVars, RegistryMoves, StoreMoves, TeamMoves, MemoryMoves,
    VersionsMove, ChecksMove, SearchMoves
<1> QED
  BY <1>1, NextIInv, StoreKept, TeamKept, MemoryKept, VersionsKept, ChecksKept, SearchKept
  DEF CatalogIInv

(* Every part keeps its invariant, whoever the subject is.                   *)
THEOREM CatalogInvariant == CatalogSpec => []CatalogIInv
  BY CatalogStarts, CatalogStep, PTL DEF CatalogSpec

(* Types, of all parts.                                                      *)
THEOREM CatalogTypes == CatalogSpec => []TypesOK
<1>1. CatalogIInv => TypesOK
  BY DEF CatalogIInv, IInv, StoreIInv, TeamIInv, MemoryIInv, VersionsIInv, ChecksIInv,
    SearchIInv, TypesOK
<1> QED
  BY <1>1, CatalogInvariant, PTL

(* A name stands for one tool of a store, in ToolService until an update      *)
(* gives a tool another's name or another id; the pages of a listing give no  *)
(* entry twice and miss none unless entries joined or left it meanwhile,      *)
(* whatever updates do (services/tool_service.py, api/tools.py); a search      *)
(* gives the best of what it finds, no tool twice, a tool found by its terms   *)
(* too is not the worse for it, and the counts are those of the record         *)
(* (services/search_service.py).                                             *)
THEOREM ListingsSound == CatalogSpec => []ListingsAreSound
<1>1. CatalogIInv => ListingsAreSound
  BY StoreHolds DEF CatalogIInv, SearchIInv, ListingsAreSound
<1> QED
  BY <1>1, CatalogInvariant, PTL

(* The memory cache stays within its size and hands out nothing older than   *)
(* its time to live and one call of the function; no session undoes what     *)
(* another has changed of a developer (security/tool_registry.py); the       *)
(* policy server serves what is in force unless uploads overlapped or        *)
(* failed, a minute counts no more checks than twice the limit, and whoever  *)
(* is barred stays out (security/policies.py).  The cache is utils/cache.py. *)
THEOREM RecordsSound == CatalogSpec => []RecordsAreSound
<1>1. CatalogIInv => RecordsAreSound
  BY MemoryHolds, VersionsHold
  DEF CatalogIInv, TeamIInv, ChecksIInv, Checks!ChecksAreSound, RecordsAreSound
<1> QED
  BY <1>1, CatalogInvariant, PTL
=============================================================================
