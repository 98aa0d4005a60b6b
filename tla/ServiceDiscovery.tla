---------------------------- MODULE ServiceDiscovery ----------------------------
(***************************************************************************)
(* ServiceDiscovery of src/metamcp/services/service_discovery.py: the        *)
(* dictionary of services, the rows that it writes to the cache on the way,  *)
(* and the loop that asks every service for its health.  Endpoints and Redis *)
(* are external.  Callers may register and remove services whenever the loop *)
(* awaits.                                                                   *)
(***************************************************************************)
EXTENDS Integers, FiniteSets

CONSTANTS
    Services,       \* service ids
    MaxCalls        \* bound: calls that change a service, endpoints that do

VARIABLES
    registered,     \* registered_services: id -> status and whether it has a URL
    endpoint,       \* services whose health endpoint answers 200
    running,        \* _running: between start and stop
    loop,           \* the task: "none", "sleeping" or "sweeping"
    sweep,          \* the sweep: ids seen, the dictionary's size, the id awaited
    row,            \* ids with a row "service:<id>" in the cache
    storing,        \* per id: stores in flight that a caller awaits
    removing,       \* ids whose row a deregistration is about to delete
    answer,         \* the last answer of get_service
    calls           \* bound

vars == <<registered, endpoint, running, loop, sweep, row, storing, removing, answer, calls>>

Statuses == {"starting", "healthy", "unhealthy"}

TypeOK ==
    /\ DOMAIN registered \subseteq Services
    /\ \A s \in DOMAIN registered :
            registered[s] \in [status : Statuses, checked : BOOLEAN]
    /\ endpoint \subseteq Services
    /\ running \in BOOLEAN
    /\ loop \in {"none", "sleeping", "sweeping"}
    /\ sweep \in [seen : SUBSET Services, size : 0..Cardinality(Services),
                  at : Services \cup {"none"}, phase : {"next", "get", "store"}]
    /\ row \subseteq Services
    /\ storing \in [Services -> 0..MaxCalls]
    /\ removing \subseteq Services
    /\ answer \in [found : BOOLEAN, here : BOOLEAN]
    /\ calls \in 0..MaxCalls

NoSweep == [seen |-> {}, size |-> 0, at |-> "none", phase |-> "next"]

Init ==
    /\ registered = [s \in {} |-> 0]
    /\ endpoint = Services
    /\ running = FALSE
    /\ loop = "none"
    /\ sweep = NoSweep
    /\ row = {}
    /\ storing = [s \in Services |-> 0]
    /\ removing = {}
    /\ answer = [found |-> FALSE, here |-> FALSE]
    /\ calls = 0

Changing == calls < MaxCalls /\ calls' = calls + 1

Start ==
    /\ ~running
    /\ running' = TRUE
    /\ loop' = "sleeping"
    /\ UNCHANGED <<registered, endpoint, sweep, row, storing, removing, answer, calls>>

(* stop cancels the loop at its await; the services stay *)
Stop ==
    /\ running /\ Changing
    /\ running' = FALSE
    /\ loop' = "none"
    /\ sweep' = NoSweep
    /\ UNCHANGED <<registered, endpoint, row, storing, removing, answer>>

Stores(s) == storing' = [storing EXCEPT ![s] = @ + 1]

(* an id that is there already is overwritten *)
RegisterService(s, checked) ==
    /\ Changing
    /\ registered' = [t \in DOMAIN registered \cup {s} |->
            IF t = s THEN [status |-> "starting", checked |-> checked]
            ELSE registered[t]]
    /\ Stores(s)
    /\ UNCHANGED <<endpoint, running, loop, sweep, row, removing, answer>>

(* removed here, then from the cache; registered again, it would be at the    *)
(* end of the dictionary, where a sweep has not been yet                      *)
DeregisterService(s) ==
    /\ s \in DOMAIN registered /\ Changing
    /\ registered' = [t \in DOMAIN registered \ {s} |-> registered[t]]
    /\ sweep' = [sweep EXCEPT !.seen = @ \ {s}]
    /\ removing' = removing \cup {s}
    /\ UNCHANGED <<endpoint, running, loop, row, storing, answer>>

UpdateServiceStatus(s, status) ==
    /\ s \in DOMAIN registered /\ Changing
    /\ registered' = [registered EXCEPT ![s].status = status]
    /\ Stores(s)
    /\ UNCHANGED <<endpoint, running, loop, sweep, row, removing, answer>>

Heartbeat(s) ==
    /\ s \in DOMAIN registered /\ Changing
    /\ Stores(s)
    /\ UNCHANGED <<registered, endpoint, running, loop, sweep, row, removing, answer>>

(* the row is set, or Redis fails, of which nobody hears.  Next comes sadd,   *)
(* which the cache manager does not have: the AttributeError is swallowed, so *)
(* the sets by type and by tag stay empty                                    *)
StoreServiceInCache(s, ok) ==
    /\ storing[s] > 0
    /\ storing' = [storing EXCEPT ![s] = @ - 1]
    /\ row' = IF ok THEN row \cup {s} ELSE row
    /\ UNCHANGED <<registered, endpoint, running, loop, sweep, removing, answer, calls>>

(* the row may be written again by a store that was in flight *)
RemoveServiceFromCache(s, ok) ==
    /\ s \in removing
    /\ removing' = removing \ {s}
    /\ row' = IF ok THEN row \ {s} ELSE row
    /\ UNCHANGED <<registered, endpoint, running, loop, sweep, storing, answer, calls>>

RowExpires(s) ==
    /\ s \in row
    /\ row' = row \ {s}
    /\ UNCHANGED <<registered, endpoint, running, loop, sweep, storing, removing, answer, calls>>

(* mutant: a row is decoded once *)
Decoded_once(s) == s \in row

(* the cache has already decoded the row that _get_service_from_cache decodes *)
(* again: a TypeError, and None                                              *)
Decoded(s) == FALSE

GetService(s) ==
    /\ answer' = [found |-> s \in DOMAIN registered \/ Decoded(s),
                  here |-> s \in DOMAIN registered]
    /\ UNCHANGED <<registered, endpoint, running, loop, sweep, row, storing, removing, calls>>

(* smembers does not exist either: no service comes from the sets *)
FromCacheSets == {}

(* get_services_by_type and get_services_by_tag, healthy ones only *)
GetServices(s) ==
    /\ answer' = [found |-> \/ s \in DOMAIN registered /\ registered[s].status = "healthy"
                            \/ s \in FromCacheSets,
                  here |-> s \in DOMAIN registered]
    /\ UNCHANGED <<registered, endpoint, running, loop, sweep, row, storing, removing, calls>>

EndpointChanges(s) ==
    /\ Changing
    /\ endpoint' = IF s \in endpoint THEN endpoint \ {s} ELSE endpoint \cup {s}
    /\ UNCHANGED <<registered, running, loop, sweep, row, storing, removing, answer>>

BeginSweep ==
    /\ loop = "sleeping"
    /\ loop' = "sweeping"
    /\ sweep' = [NoSweep EXCEPT !.size = Cardinality(DOMAIN registered)]
    /\ UNCHANGED <<registered, endpoint, running, row, storing, removing, answer, calls>>

Changed == Cardinality(DOMAIN registered) # sweep.size

AtNext ==
    /\ loop = "sweeping" /\ sweep.phase = "next"
    /\ UNCHANGED <<registered, endpoint, running, row, storing, removing, answer, calls>>

(* mutant: only a CancelledError is caught *)
SweepRaises_fatal ==
    AtNext /\ Changed /\ loop' = "none" /\ sweep' = NoSweep

(* the dictionary changed its size while the loop awaited: RuntimeError, and   *)
(* another sweep after five seconds                                          *)
SweepRaises ==
    AtNext /\ Changed /\ loop' = "sleeping" /\ sweep' = NoSweep

EndSweep ==
    /\ AtNext /\ ~Changed
    /\ DOMAIN registered \subseteq sweep.seen
    /\ loop' = "sleeping" /\ sweep' = NoSweep

CheckNext(s) ==
    /\ AtNext /\ ~Changed
    /\ s \in DOMAIN registered \ sweep.seen
    /\ sweep' = IF registered[s].checked
                THEN [sweep EXCEPT !.seen = @ \cup {s}, !.at = s, !.phase = "get"]
                ELSE [sweep EXCEPT !.seen = @ \cup {s}]
    /\ UNCHANGED loop

(* an answer or a timeout; the status is that of the id, whatever registration *)
(* it has by now, and the loop awaits the store                              *)
HealthAnswered ==
    /\ sweep.phase = "get"
    /\ LET s == sweep.at
           status == IF s \in endpoint THEN "healthy" ELSE "unhealthy"
       IN  IF s \in DOMAIN registered
           THEN /\ registered' = [registered EXCEPT ![s].status = status]
                /\ sweep' = [sweep EXCEPT !.phase = "store"]
           ELSE /\ UNCHANGED registered
                /\ sweep' = [sweep EXCEPT !.phase = "next", !.at = "none"]
    /\ UNCHANGED <<endpoint, running, loop, row, storing, removing, answer, calls>>

LoopStored(ok) ==
    /\ sweep.phase = "store"
    /\ row' = IF ok THEN row \cup {sweep.at} ELSE row
    /\ sweep' = [sweep EXCEPT !.phase = "next", !.at = "none"]
    /\ UNCHANGED <<registered, endpoint, running, loop, storing, removing, answer, calls>>

Sweeps ==
    \/ BeginSweep \/ SweepRaises \/ EndSweep \/ HealthAnswered
    \/ \E s \in Services : CheckNext(s)
    \/ \E ok \in BOOLEAN : LoopStored(ok)

Next ==
    \/ Start \/ Stop \/ Sweeps
    \/ \E s \in Services :
        \/ DeregisterService(s) \/ Heartbeat(s) \/ RowExpires(s) \/ GetService(s)
        \/ GetServices(s) \/ EndpointChanges(s)
        \/ \E status \in Statuses : UpdateServiceStatus(s, status)
        \/ \E b \in BOOLEAN :
            \/ RegisterService(s, b) \/ StoreServiceInCache(s, b)
            \/ RemoveServiceFromCache(s, b)

(* requests time out, Redis answers or fails, and the event loop runs; nobody *)
(* has to call anything                                                      *)
Fairness == WF_vars(Sweeps)

Spec == Init /\ [][Next]_vars /\ Fairness

-----------------------------------------------------------------------------
(* A service is found only while it is registered: the row that a heartbeat,  *)
(* or a check of the loop, writes after the deregistration has deleted it     *)
(* brings nothing back (get_service).                                        *)
GoneIsGone == answer.found => answer.here

(* A service with a health URL that answers 200 from some time on is HEALTHY   *)
(* from some time on, whatever changed the dictionary during earlier sweeps   *)
(* (_health_check_loop).                                                     *)
HealthSettles ==
    \A s \in Services :
        <>[](/\ running /\ s \in endpoint
             /\ s \in DOMAIN registered /\ registered[s].checked)
            => <>[](s \in DOMAIN registered /\ registered[s].status = "healthy")
=============================================================================
