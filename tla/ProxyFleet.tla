------------------------------- MODULE ProxyFleet -------------------------------
(***************************************************************************)
(* The MCP proxy: ProxyManager and MCPProxyWrapper of src/metamcp/proxy/,    *)
(* ServerDiscovery of discovery.py, and the handlers of                       *)
(* src/metamcp/api/proxy.py.  The wrapper knows the servers that tool calls   *)
(* go to, the manager those that it lists.  Registrants are HTTP requests,    *)
(* the examples that initialize registers, and the background tasks that      *)
(* register what a discovery has found.  The servers are external.           *)
(***************************************************************************)
EXTENDS Integers, FiniteSets

CONSTANTS
    Names,          \* names of servers
    HostName,       \* the name discovery derives from the host of its endpoints
    Endpoints,      \* where servers are
    Sockets,        \* endpoints that are WebSockets: recv has no timeout
    Registrants,    \* requests and background tasks
    MaxConcurrent,  \* max_concurrent of a discovery
    MaxServers,     \* bound: entries of the wrapper
    MaxRequests     \* bound: registrations and discoveries begun

VARIABLES
    wrapped,        \* wrapper.wrapped_servers: id -> configuration
    registered,     \* manager.registered_servers: id -> configuration, status
    registrant,     \* per registrant: where it stands
    sweep,          \* the health check: ids seen, size, the id awaited
    gone,           \* observer: ids that were unregistered
    overlapped,     \* observer: ids given to a registration under way
    refused,        \* observer: endpoints that failed a health check
    requests        \* bound

vars == <<wrapped, registered, registrant, sweep, gone, overlapped, refused, requests>>

Configs == [name : Names, endpoint : Endpoints]
Ids == [name : Names, number : 0..MaxServers]
Files == {{}, Sockets}      \* what mcp-servers.json may hold
NoId == [name |-> HostName, number |-> -1]
NoConfig == [name |-> HostName, endpoint |-> CHOOSE e \in Endpoints : TRUE]

Entry == [config : Configs, status : {"online", "offline"}]

TypeOK ==
    /\ DOMAIN wrapped \subseteq Ids
    /\ \A id \in DOMAIN wrapped : wrapped[id] \in Configs
    /\ DOMAIN registered \subseteq Ids
    /\ \A id \in DOMAIN registered : registered[id] \in Entry
    /\ registrant \in [Registrants ->
            [at : {"idle", "discovering", "queue", "test", "tools", "count"},
             id : Ids \cup {NoId}, config : Configs,
             todo : SUBSET Endpoints, testing : SUBSET Endpoints, found : SUBSET Endpoints]]
    /\ sweep \in [on : BOOLEAN, seen : SUBSET Ids, size : Nat,
                  at : Ids \cup {NoId}]
    /\ gone \subseteq Ids /\ overlapped \subseteq Ids
    /\ refused \subseteq Endpoints
    /\ requests \in 0..MaxRequests

Idle == [at |-> "idle", id |-> NoId, config |-> NoConfig,
         todo |-> {}, testing |-> {}, found |-> {}]

NoSweep == [on |-> FALSE, seen |-> {}, size |-> 0, at |-> NoId]

Init ==
    /\ wrapped = [id \in {} |-> 0]
    /\ registered = [id \in {} |-> 0]
    /\ registrant = [r \in Registrants |-> Idle]
    /\ sweep = NoSweep
    /\ gone = {} /\ overlapped = {} /\ refused = {}
    /\ requests = 0

With(f, x, value) == [y \in DOMAIN f \cup {x} |-> IF y = x THEN value ELSE f[y]]

Requested == requests < MaxRequests /\ requests' = requests + 1

(* _handle_call_tool: the server is looked up in the wrapper alone, and no     *)
(* policy is asked                                                           *)
Callable(id) == id \in DOMAIN wrapped

-----------------------------------------------------------------------------
(* Registration *)

(* mutant: servers are numbered by those the manager still lists *)
ServerId_listed(config) ==
    [name |-> config.name, number |-> Cardinality(DOMAIN registered)]

(* the number of servers wrapped so far, which never shrinks *)
ServerId(config) == [name |-> config.name, number |-> Cardinality(DOMAIN wrapped)]

(* the id is chosen before the server is tried out *)
Registers(r, config, found) ==
    LET id == ServerId(config)
    IN  /\ Cardinality(DOMAIN wrapped) < MaxServers
        /\ registrant' = [registrant EXCEPT ![r] =
                [Idle EXCEPT !.at = "test", !.id = id, !.config = config, !.found = found]]
        /\ overlapped' = IF \E s \in Registrants \ {r} :
                                registrant[s].at = "test" /\ registrant[s].id = id
                         THEN overlapped \cup {id} ELSE overlapped

RegisterServer(r, config) ==
    /\ registrant[r].at = "idle" /\ Requested
    /\ Registers(r, config, {})
    /\ UNCHANGED <<wrapped, registered, sweep, gone, refused>>

(* a background task goes on with the next server, whatever became of the last *)
Over(r) == IF registrant[r].found = {} THEN Idle
           ELSE [Idle EXCEPT !.at = "queue", !.found = registrant[r].found]

(* the name is that of the host: servers of one host share it *)
WrappedConfig(e) == [name |-> HostName, endpoint |-> e]

RegisterDiscovered(r) ==
    /\ registrant[r].at = "queue"
    /\ \E e \in registrant[r].found :
        Registers(r, WrappedConfig(e), registrant[r].found \ {e})
    /\ UNCHANGED <<wrapped, registered, sweep, gone, refused, requests>>

RegistrationFails(r) ==
    /\ registrant[r].at \in {"test", "tools"}
    /\ registrant' = [registrant EXCEPT ![r] = Over(r)]
    /\ UNCHANGED <<wrapped, registered, sweep, gone, overlapped, refused, requests>>

(* connected: tool calls reach the server from now on, though its tools may    *)
(* not be listed, or FastMCP may refuse them, and the registration raise       *)
WrapServer(r) ==
    /\ registrant[r].at = "test"
    /\ wrapped' = With(wrapped, registrant[r].id, registrant[r].config)
    /\ registrant' = [registrant EXCEPT ![r].at = "tools"]
    /\ UNCHANGED <<registered, sweep, gone, overlapped, refused, requests>>

ListServer(r) ==
    /\ registrant[r].at = "tools"
    /\ registered' = With(registered, registrant[r].id,
                          [config |-> registrant[r].config, status |-> "online"])
    /\ registrant' = [registrant EXCEPT ![r].at = "count"]
    /\ UNCHANGED <<wrapped, sweep, gone, overlapped, refused, requests>>

(* _update_server_tool_count tries five addresses and falls back to a guess;   *)
(* it never raises, and the id is answered                                   *)
CountTools(r) ==
    /\ registrant[r].at = "count"
    /\ registrant' = [registrant EXCEPT ![r] = Over(r)]
    /\ UNCHANGED <<wrapped, registered, sweep, gone, overlapped, refused, requests>>

(* the manager forgets the server, the wrapper does not *)
UnregisterServer(id) ==
    /\ id \in DOMAIN registered
    /\ registered' = [i \in DOMAIN registered \ {id} |-> registered[i]]
    /\ gone' = gone \cup {id}
    /\ sweep' = [sweep EXCEPT !.seen = @ \ {id}]
    /\ UNCHANGED <<wrapped, registrant, overlapped, refused, requests>>

-----------------------------------------------------------------------------
(* Discovery *)

(* network discovery: the endpoints are tested at once, max_concurrent of them *)
DiscoverServers(r, endpoints) ==
    /\ registrant[r].at = "idle" /\ Requested
    /\ registrant' = [registrant EXCEPT ![r] =
                        [Idle EXCEPT !.at = "discovering", !.todo = endpoints]]
    /\ UNCHANGED <<wrapped, registered, sweep, gone, overlapped, refused>>

(* mutant: one place of the semaphore is lost *)
FreePlace_fewer(r) == Cardinality(registrant[r].testing) < MaxConcurrent - 1

FreePlace(r) == Cardinality(registrant[r].testing) < MaxConcurrent

TestBegins(r, e) ==
    /\ e \in registrant[r].todo
    /\ FreePlace(r)
    /\ registrant' = [registrant EXCEPT ![r].todo = @ \ {e}, ![r].testing = @ \cup {e}]
    /\ UNCHANGED <<wrapped, registered, sweep, gone, overlapped, refused, requests>>

(* an answer, an error or, except from a WebSocket, a timeout *)
TestEnds(r, e, ok) ==
    /\ e \in registrant[r].testing
    /\ registrant' = [registrant EXCEPT ![r].testing = @ \ {e},
                        ![r].found = IF ok THEN @ \cup {e} ELSE @]
    /\ UNCHANGED <<wrapped, registered, sweep, gone, overlapped, refused, requests>>

(* file discovery adds the servers of a file, untested; the response is sent,  *)
(* and what was found is registered in the background                        *)
DiscoveryAnswers(r, file) ==
    /\ registrant[r].at = "discovering"
    /\ registrant[r].todo = {} /\ registrant[r].testing = {}
    /\ LET found == registrant[r].found \cup file
       IN  registrant' = [registrant EXCEPT ![r] =
            IF found = {} THEN Idle ELSE [Idle EXCEPT !.at = "queue", !.found = found]]
    /\ UNCHANGED <<wrapped, registered, sweep, gone, overlapped, refused, requests>>

-----------------------------------------------------------------------------
(* Health checks *)

BeginHealthCheck ==
    /\ ~sweep.on
    /\ sweep' = [NoSweep EXCEPT !.on = TRUE, !.size = Cardinality(DOMAIN registered)]
    /\ UNCHANGED <<wrapped, registered, registrant, gone, overlapped, refused, requests>>

Changed == Cardinality(DOMAIN registered) # sweep.size

CheckHealth(id) ==
    /\ sweep.on /\ sweep.at = NoId /\ ~Changed
    /\ id \in DOMAIN registered \ sweep.seen
    /\ sweep' = [sweep EXCEPT !.seen = @ \cup {id}, !.at = id]
    /\ UNCHANGED <<wrapped, registered, registrant, gone, overlapped, refused, requests>>

(* the address is that of the entry of now; the entry of then is written, which *)
(* is not in the dictionary any more if the server was unregistered, or maybe   *)
(* if the id was registered twice                                            *)
HealthChecked(healthy) ==
    /\ sweep.at # NoId
    /\ sweep' = [sweep EXCEPT !.at = NoId]
    /\ LET id == sweep.at
       IN  IF id \in DOMAIN registered
           THEN /\ refused' = IF healthy THEN refused
                              ELSE refused \cup {registered[id].config.endpoint}
                /\ registered' \in
                    {[registered EXCEPT ![id].status = IF healthy THEN "online" ELSE "offline"]}
                    \cup (IF id \in overlapped THEN {registered} ELSE {})
           ELSE UNCHANGED <<refused, registered>>
    /\ UNCHANGED <<wrapped, registrant, gone, overlapped, requests>>

(* the dictionary has changed its size: the RuntimeError becomes a 500 *)
EndHealthCheck ==
    /\ sweep.on /\ sweep.at = NoId
    /\ Changed \/ DOMAIN registered \subseteq sweep.seen
    /\ sweep' = NoSweep
    /\ UNCHANGED <<wrapped, registered, registrant, gone, overlapped, refused, requests>>

Next ==
    \/ BeginHealthCheck \/ EndHealthCheck
    \/ \E healthy \in BOOLEAN : HealthChecked(healthy)
    \/ \E id \in Ids : UnregisterServer(id) \/ CheckHealth(id)
    \/ \E r \in Registrants :
        \/ \E config \in Configs : RegisterServer(r, config)
        \/ \E es \in SUBSET Endpoints : DiscoverServers(r, es)
        \/ \E file \in Files : DiscoveryAnswers(r, file)
        \/ \E e \in Endpoints, ok \in BOOLEAN : TestEnds(r, e, ok)
        \/ \E e \in Endpoints : TestBegins(r, e)
        \/ RegisterDiscovered(r) \/ RegistrationFails(r) \/ WrapServer(r)
        \/ ListServer(r) \/ CountTools(r)

Discovers(r) ==
    \/ \E e \in Endpoints : TestBegins(r, e)
    \/ \E e \in Endpoints \ Sockets, ok \in BOOLEAN : TestEnds(r, e, ok)
    \/ \E file \in Files : DiscoveryAnswers(r, file)

(* the tests of HTTP endpoints time out, and the event loop runs *)
Fairness == \A r \in Registrants : WF_vars(Discovers(r))

Spec == Init /\ [][Next]_vars /\ Fairness

-----------------------------------------------------------------------------
(* Every server that the manager lists can be called, at the endpoint it lists, *)
(* and is listed offline only if that endpoint failed a check: unless two       *)
(* registrations of one name overlapped, which gives both the same id           *)
(* (register_server chooses the id before it awaits).                          *)
ListedCanBeCalled ==
    \A id \in DOMAIN registered :
        /\ Callable(id)
        /\ id \in overlapped
            \/ /\ wrapped[id] = registered[id].config
               /\ registered[id].status = "offline" => registered[id].config.endpoint \in refused

(* An unregistered id never comes back, for this server or another, with the    *)
(* same exception.                                                            *)
IdsNeverReturn == gone \cap DOMAIN registered \subseteq overlapped

(* A discovery of HTTP endpoints ends, however many of its tests fail; only     *)
(* one that has a WebSocket before it may be held up.  (Discoveries are begun   *)
(* until MaxRequests.)                                                        *)
Answered ==
    \A r \in Registrants :
        registrant[r].at = "discovering" =>
            (registrant[r].todo \cup registrant[r].testing) \cap Sockets # {}
DiscoveryEnds == <>[]Answered

(* "Remove a server from the proxy wrapper." (docs/reference/proxy-api.md:253):  *)
(* no tool call is sent to a server after it was unregistered.                 *)
UnregisteredIsNotCalled == \A id \in gone : ~Callable(id)
=============================================================================
