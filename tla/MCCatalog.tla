----------------------------- MODULE MCCatalog -----------------------------
(***************************************************************************)
(* What is known about tools and who may use them, for TLC: the registry's *)
(* catalogue with its cached listings, the stores behind the HTTP          *)
(* interface, the developers' rows, the memory cache, the policy engine's  *)
(* versions and checks, and the search.  They share no state.  A behaviour *)
(* is of one of them, the subject; the others rest.                        *)
(***************************************************************************)
EXTENDS ToolCatalog, Sequences, FiniteSets, TLC

CONSTANTS
    t1, t2, u1, u2,                                             \* ToolCatalog
    Names, Categories, MaxTools, Limit, Endpoints, MaxHistory, MaxClashes, \* ToolLifecycle
    Devs, Usernames, Sessions,                                  \* Developers
    Keys, Callers, Ttl, MaxSize, LoadTime, MaxTime,             \* MemoryCache
    Policies, Predefined, MaxVersions, MaxUploads,              \* PolicyVersions
    Addresses, Checkers, Limits, Minute,                        \* PolicyChecks
    Words, NumTools, MaxTerms, Threshold, Unit, MaxSearches     \* SearchService

(* Pages hold something.                                                     *)
ASSUME StoreAssumption ==
    /\ MaxTools \in Nat /\ Limit \in Nat \ {0} /\ Endpoints \in Nat
    /\ MaxHistory \in Nat /\ MaxClashes \in Nat

(* The cache has room for an entry.                                         *)
ASSUME MemoryAssumption ==
    Ttl \in Nat /\ MaxSize \in Nat \ {0} /\ LoadTime \in Nat /\ MaxTime \in Nat

(* Somebody registers, under some name.                                     *)
ASSUME TeamAssumption == Devs # {} /\ Usernames # {}

(* initialize() loads at least one policy, and none twice.                   *)
ASSUME VersionsAssumption ==
    /\ Predefined \in Seq(Policies) /\ Predefined # <<>>
    /\ \A i, j \in DOMAIN Predefined : Predefined[i] = Predefined[j] => i = j
    /\ MaxVersions \in Nat /\ MaxUploads \in Nat

(* The words of a text can be counted.                                      *)
ASSUME SearchAssumption ==
    /\ IsFiniteSet(Words) /\ NumTools \in Nat /\ MaxTerms \in Nat
    /\ Threshold \in Nat /\ Unit \in Nat /\ MaxSearches \in Nat

(* Callers pass some limit.                                                 *)
ASSUME ChecksAssumption ==
    /\ Limits \subseteq Nat /\ Limits # {}
    /\ Minute \in Nat /\ MaxTime \in Nat

VARIABLES
    subject,
    store, entries, reader, clashes, call, history,
    ready, row, session, settled,
    backend, now, memory, access, caller,
    initialized, versions, inForce, listed, uploading, opa, uploads, crossed, failed,
    decider, whitelist, blacklist, counter, counted, check, clock,
    text, asked, results, searches, total, successful, unsuccessful

(* u1 may read one tool of two.                                             *)
MCReadable == u1 :> {t1} @@ u2 :> {t1, t2}

(* The policies that come with the engine.                                  *)
MCPredefined == <<"tool_access">>

(* One word occurs in the other.                                            *)
MCInside == {<<"a", "b">>}

Store == INSTANCE ToolLifecycle WITH tools <- entries
Team == INSTANCE Developers
Memory == INSTANCE MemoryCache WITH cache <- memory
Versions == INSTANCE PolicyVersions
    WITH history <- versions, active <- inForce, overlapped <- crossed
Checks == INSTANCE PolicyChecks WITH now <- clock, engine <- decider
Search == INSTANCE SearchService
    WITH history <- searches, failed <- unsuccessful, Inside <- MCInside

storeVars == <<store, entries, reader, clashes, call, history>>
teamVars == <<ready, row, session, settled>>
memoryVars == <<backend, now, memory, access, caller>>
versionVars ==
    <<initialized, versions, inForce, listed, uploading, opa, uploads, crossed, failed>>
checkVars == <<decider, whitelist, blacklist, counter, counted, check, clock>>
searchVars == <<text, asked, results, searches, total, successful, unsuccessful>>
catalogVars ==
    <<subject, vars, storeVars, teamVars, memoryVars, versionVars, checkVars, searchVars>>

Subject(s) == subject = s /\ UNCHANGED subject

RegistryMoves(A) ==
    /\ Subject("registry") /\ A
    /\ UNCHANGED <<storeVars, teamVars, memoryVars, versionVars, checkVars, searchVars>>
(* A call reads a tool and the reader of pages the listing, and neither       *)
(* changes what the other sees: a behaviour has the one or the other.        *)
StoreMoves(A) ==
    /\ Subject("store") /\ A
    /\ reader'.on => call' = Store!NoCall /\ history' = <<>>
    /\ UNCHANGED <<vars, teamVars, memoryVars, versionVars, checkVars, searchVars>>
TeamMoves(A) ==
    /\ Subject("team") /\ A
    /\ UNCHANGED <<vars, storeVars, memoryVars, versionVars, checkVars, searchVars>>
MemoryMoves(A) ==
    /\ Subject("memory") /\ A
    /\ UNCHANGED <<vars, storeVars, teamVars, versionVars, checkVars, searchVars>>
VersionsMove(A) ==
    /\ Subject("versions") /\ A
    /\ UNCHANGED <<vars, storeVars, teamVars, memoryVars, checkVars, searchVars>>
ChecksMove(A) ==
    /\ Subject("checks") /\ A
    /\ UNCHANGED <<vars, storeVars, teamVars, memoryVars, versionVars, searchVars>>
SearchMoves(A) ==
    /\ Subject("search") /\ A
    /\ UNCHANGED <<vars, storeVars, teamVars, memoryVars, versionVars, checkVars>>

CatalogInit ==
    /\ subject \in {"registry", "store", "team", "memory", "versions", "checks", "search"}
    /\ Init /\ (subject # "registry" => engine = "internal")
    /\ Store!Init /\ (subject # "store" => store = "http")
    /\ Team!Init
    /\ Memory!Init /\ (subject # "memory" => backend = "memory")
    /\ Versions!Init
    /\ Checks!Init /\ (subject # "checks" => decider = "internal")
    /\ Search!Init /\ (subject # "search" => \A t \in Search!Offered : text[t] = {})

CatalogNext ==
    \/ RegistryMoves(Next)
    \/ StoreMoves(Store!Next)
    \/ TeamMoves(Team!Next)
    \/ MemoryMoves(Memory!Next)
    \/ VersionsMove(Versions!Next)
    \/ ChecksMove(Checks!Next)
    \/ SearchMoves(Search!Next)

(* FairSpec of the registry; the other parts promise safety only.            *)
CatalogFairness ==
    /\ \A r \in Requests : WF_vars(subject = "registry" /\ Proceed(r))
    /\ \A u \in Users : WF_vars(subject = "registry" /\ Expire(u))

CatalogSpec == CatalogInit /\ [][CatalogNext]_catalogVars /\ CatalogFairness

-----------------------------------------------------------------------------
(* The pages of a listing, what a name of it stands for, and what a search    *)
(* finds.                                                                    *)
ListingsAreSound ==
    /\ (subject = "store" => Store!NamesAreUnique /\ Store!PagesAreSound)
    /\ (subject = "search" => Search!SearchIsSound)

(* What the memory cache holds and hands out, what became of developers, what *)
(* the policy server serves, and how many checks a minute lets through.      *)
RecordsAreSound ==
    /\ (subject = "memory" => Memory!CacheIsBounded /\ Memory!HitsAreFresh)
    /\ (subject = "team" => Team!ChangesAreKept)
    /\ (subject = "versions" => Versions!PoliciesAreSound)
    /\ (subject = "checks" => Checks!ChecksAreSound)

(* Types, of all parts.                                                      *)
TypesOK ==
    /\ TypeOK
    /\ (subject = "store" => Store!TypeOK)
    /\ (subject = "team" => Team!TypeOK)
    /\ (subject = "memory" => Memory!TypeOK)
    /\ (subject = "versions" => Versions!TypeOK)
    /\ (subject = "checks" => Checks!TypeOK)
    /\ (subject = "search" => Search!TypeOK)
=============================================================================
