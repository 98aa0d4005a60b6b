----------------------------- MODULE ToolCatalog -----------------------------
(***************************************************************************)
(* ToolRegistry of src/metamcp/tools/registry.py: registering, listing and  *)
(* searching tools, with the vector index, the policy engine and the cache  *)
(* in Redis that list_tools is decorated with (src/metamcp/cache).          *)
(*                                                                         *)
(* Requests interleave at their awaits.  The policy engine "opa" asks a     *)
(* server for every tool; "internal" decides without an await.  Every       *)
(* request is served by one process, which may restart: the tools are in    *)
(* its memory, the vector index is not.  Cache keys are hashes over the     *)
(* registry object and the user, so a new process starts with no entries.   *)
(***************************************************************************)
EXTENDS Integers

CONSTANTS
    Tools,          \* ids of tools
    Users,
    Readable,       \* which tools the policy lets a user read
    Requests,       \* requests that may be under way at the same time
    MaxRestarts     \* bound: restarts of the process

ASSUME ReadableAssumption ==
    Users # {} /\ Readable \in [Users -> SUBSET Tools]
ASSUME RestartsAssumption == MaxRestarts \in Nat

(* A value of Readable: a policy that withholds nothing.                     *)
Unrestricted == [u \in Users |-> Tools]

VARIABLES
    engine,         \* engine_type of the policy engine
    tools,          \* the keys of ToolRegistry.tools
    index,          \* the collection "tools" of the vector database
    cache,          \* the cached listing of each user
    req,            \* the requests under way
    restarts

vars == <<engine, tools, index, cache, req, restarts>>

Phases == {"idle", "embedding", "clearing",             \* register_tool
           "lookup", "listing", "storing", "listed",    \* list_tools
           "query", "ranking", "scanning", "found"}     \* search_tools

None == [cached |-> FALSE, tools |-> {}]

Request == [phase : Phases, user : Users,
            todo  : SUBSET Tools,   \* tools still to check (or to register)
            got   : SUBSET Tools,   \* tools found so far
            seen  : SUBSET Tools]   \* the keys when the iteration began

TypeOK ==
    /\ engine \in {"internal", "opa"}
    /\ tools \subseteq Tools
    /\ index \subseteq Tools
    /\ cache \in [Users -> [cached : BOOLEAN, tools : SUBSET Tools]]
    /\ req \in [Requests -> Request]
    \* a tool is in the dictionary as long as its registration is under way
    /\ \A r \in Requests :
           req[r].phase \in {"embedding", "clearing"} => req[r].todo \subseteq tools
    /\ restarts \in 0..MaxRestarts

Idle == [phase |-> "idle", user |-> CHOOSE u \in Users : TRUE, todo |-> {},
         got |-> {}, seen |-> {}]

Init ==
    /\ engine \in {"internal", "opa"}
    /\ tools = {} /\ index = {}
    /\ cache = [u \in Users |-> None]
    /\ req = [r \in Requests |-> Idle]
    /\ restarts = 0

At(r, phase) == req[r].phase = phase

Goto(r, phase) == req' = [req EXCEPT ![r].phase = phase]

(* the request ends, with an answer or with an exception *)
Return(r) == req' = [req EXCEPT ![r] = Idle]

-----------------------------------------------------------------------------
(* register_tool                                                             *)

Entered_late(t) == tools        \* MUTANT: entered only when it is stored

(* the tool is in the dictionary before the first await *)
Entered(t) == tools \cup {t}

RegisterTool(r, t) ==
    /\ At(r, "idle")
    /\ tools' = Entered(t)
    /\ req' = [req EXCEPT ![r] = [Idle EXCEPT !.phase = "embedding",
                                              !.todo = {t}]]
    /\ UNCHANGED <<engine, index, cache, restarts>>

StoreEmbedding(r) ==
    /\ At(r, "embedding")
    /\ index' = index \cup req[r].todo
    /\ Goto(r, "clearing")
    /\ UNCHANGED <<engine, tools, cache, restarts>>

(* the vector database refuses: the caller sees a failure, the tool stays *)
StoreFails(r) ==
    /\ At(r, "embedding")
    /\ Return(r)
    /\ UNCHANGED <<engine, tools, index, cache, restarts>>

(* the entries whose key matches the pattern "tools:list:*": none does, the *)
(* keys are "cache:" and a hash                                             *)
Matching == {}

CacheInvalidate(r) ==
    /\ At(r, "clearing")
    /\ cache' = [u \in Users |-> IF u \in Matching THEN None ELSE cache[u]]
    /\ Return(r)
    /\ UNCHANGED <<engine, tools, index, restarts>>

-----------------------------------------------------------------------------
(* What listing and searching share: every tool is checked with the policy.  *)

After(phase) == IF phase = "listing" THEN "storing" ELSE "found"

(* MUTANT: what the engine does not answer for is allowed *)
Verdicts_open(u, t) == BOOLEAN

(* check_access of OPA: denied also when the server fails *)
Verdicts(u, t) == IF t \in Readable[u] THEN BOOLEAN ELSE {FALSE}

(* the tools of S are to be checked; the internal engine does so at once. A   *)
(* listing and a scan iterate over the dictionary, a ranking over a list.    *)
Check(r, phase, S) ==
    IF engine = "opa" /\ S # {}
    THEN req' = [req EXCEPT ![r].phase = phase, ![r].todo = S,
                            ![r].seen = IF phase = "ranking" THEN {} ELSE tools]
    ELSE req' = [req EXCEPT ![r].phase = After(phase),
                            ![r].got = S \cap Readable[req[r].user]]

(* the dictionary that is iterated over has grown at an await *)
Changed(r) == req[r].phase \in {"listing", "scanning"} /\ tools # req[r].seen

CheckAccess(r) ==
    /\ req[r].phase \in {"listing", "ranking", "scanning"}
    /\ \E t \in req[r].todo : \E verdict \in Verdicts(req[r].user, t) :
           LET rest == req[r].todo \ {t}
               got  == IF verdict THEN req[r].got \cup {t} ELSE req[r].got
           IN  IF Changed(r) THEN Return(r)  \* RuntimeError
               ELSE IF rest # {}
               THEN req' = [req EXCEPT ![r].todo = rest, ![r].got = got]
               ELSE req' = [req EXCEPT ![r] =
                       [Idle EXCEPT !.phase = After(req[r].phase),
                                    !.user = req[r].user, !.got = got]]
    /\ UNCHANGED <<engine, tools, index, cache, restarts>>

Answer(r) ==
    /\ req[r].phase \in {"listed", "found"}
    /\ Return(r)
    /\ UNCHANGED <<engine, tools, index, cache, restarts>>

-----------------------------------------------------------------------------
(* list_tools, through the cache                                             *)

ListTools(r, u) ==
    /\ At(r, "idle")
    /\ req' = [req EXCEPT ![r] = [Idle EXCEPT !.phase = "lookup", !.user = u]]
    /\ UNCHANGED <<engine, tools, index, cache, restarts>>

Key_shared(r) == CHOOSE u \in Users : TRUE  \* MUTANT: the user is not part

(* the part of the cache key that varies: the user *)
Key(r) == req[r].user

CacheHit(r) ==
    /\ At(r, "lookup")
    /\ cache[Key(r)].cached
    /\ req' = [req EXCEPT ![r].phase = "listed",
                          ![r].got = cache[Key(r)].tools]
    /\ UNCHANGED <<engine, tools, index, cache, restarts>>

(* MUTANT: the listing is made from the vector index *)
Listing_indexed == index \cap tools

(* self.tools.items() *)
Listing == tools

(* no entry, or Redis did not answer *)
CacheMiss(r) ==
    /\ At(r, "lookup")
    /\ Check(r, "listing", Listing)
    /\ UNCHANGED <<engine, tools, index, cache, restarts>>

CacheSet(r) ==
    /\ At(r, "storing")
    /\ \/ cache' = [cache EXCEPT ![Key(r)] = [cached |-> TRUE,
                                              tools |-> req[r].got]]
       \/ UNCHANGED cache       \* Redis did not answer
    /\ Goto(r, "listed")
    /\ UNCHANGED <<engine, tools, index, restarts>>

(* the time to live is over, or Redis evicts the entry *)
Expire(u) ==
    /\ cache[u].cached
    /\ cache' = [cache EXCEPT ![u] = None]
    /\ UNCHANGED <<engine, tools, index, req, restarts>>

-----------------------------------------------------------------------------
(* search_tools: over the vector index, else over the dictionary             *)

SearchTools(r, u) ==
    /\ At(r, "idle")
    /\ req' = [req EXCEPT ![r] = [Idle EXCEPT !.phase = "query", !.user = u]]
    /\ UNCHANGED <<engine, tools, index, cache, restarts>>

(* the vector search returns what is similar enough *)
Ranked(r) ==
    /\ At(r, "query")
    /\ \E similar \in SUBSET index : Check(r, "ranking", similar)
    /\ UNCHANGED <<engine, tools, index, cache, restarts>>

(* the embedding or the vector search fails: _fallback_search *)
Fallback(r) ==
    /\ At(r, "query")
    /\ \E matching \in SUBSET tools : Check(r, "scanning", matching)
    /\ UNCHANGED <<engine, tools, index, cache, restarts>>

-----------------------------------------------------------------------------
(* the process stops and starts again, with a registry object of its own *)
Restart ==
    /\ restarts < MaxRestarts
    /\ restarts' = restarts + 1
    /\ tools' = {}
    /\ cache' = [u \in Users |-> None]
    /\ req' = [r \in Requests |-> Idle]
    /\ UNCHANGED <<engine, index>>

Proceed(r) ==
    \/ StoreEmbedding(r) \/ StoreFails(r) \/ CacheInvalidate(r)
    \/ CacheHit(r) \/ CacheMiss(r) \/ CacheSet(r)
    \/ Ranked(r) \/ Fallback(r)
    \/ CheckAccess(r) \/ Answer(r)

Next ==
    \/ \E r \in Requests : Proceed(r)
    \/ \E r \in Requests, t \in Tools : RegisterTool(r, t)
    \/ \E r \in Requests, u \in Users : ListTools(r, u) \/ SearchTools(r, u)
    \/ \E u \in Users : Expire(u)
    \/ Restart

Spec == Init /\ [][Next]_vars

(* every request under way proceeds, as external services answer or time out *)
(* and the event loop is fair; an entry of the cache does not outlive its    *)
(* time to live                                                              *)
FairSpec ==
    /\ Spec
    /\ \A r \in Requests : WF_vars(Proceed(r))
    /\ \A u \in Users : WF_vars(Expire(u))

-----------------------------------------------------------------------------
(* Properties.                                                               *)

(* Whatever a listing or a search answers to a user, from the cache or not,  *)
(* and whatever the cache keeps for the user, the policy lets the user read. *)
OnlyReadable ==
    /\ \A r \in Requests :
           req[r].phase \in {"listed", "found"} =>
               req[r].got \subseteq Readable[req[r].user]
    /\ \A u \in Users : cache[u].tools \subseteq Readable[u]

(* Listings that were made before a registration, or cached while it was     *)
(* under way, disappear: from some time on the cache hides no registered     *)
(* tool.  (With OPA a failed query counts as a denial, which is cached.)     *)
StaleListingsGo ==
    engine = "internal" =>
        <>[](\A u \in Users :
                cache[u].cached => tools \cap Readable[u] \subseteq cache[u].tools)

(* When a registration is reported done, no cached listing hides the tool:   *)
(* register_tool is decorated to invalidate the cached listings.             *)
RegistrationShows ==
    [][\A r \in Requests :
           CacheInvalidate(r) =>
               \A u \in Users :
                   cache'[u].cached =>
                       req[r].todo \cap Readable[u] \subseteq cache'[u].tools]_vars
=============================================================================
