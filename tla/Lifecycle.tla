------------------------------ MODULE Lifecycle ------------------------------
(***************************************************************************)
(* How the program comes up and goes down.  The application of main.py     *)
(* runs its start in the lifespan of FastAPI, and the stops in the         *)
(* "finally" of it; MetaMCPServer.run (server.py) initialises, serves and  *)
(* shuts down.  Both bring up an MCPServer (mcp/server.py) with components *)
(* of its own.  Every step may raise: the steps after it are not taken.    *)
(***************************************************************************)
EXTENDS Sequences, FiniteSets, Naturals, SequencesExt

VARIABLES program,   \* "application" or "server"
          features,  \* the components that the settings switch on
          phase,     \* "starting", "serving", "stopping" or "down"
          step,      \* the steps of the phase that are done
          up,        \* what has been started and not been stopped
          complete,  \* MCPServer._initialized
          clean      \* no stop has raised

vars == <<program, features, phase, step, up, complete, clean>>

Optional == {"telemetry", "vector", "policy"}

(* _initialize_components; the registry is made when all it needs is there. *)
McpComponents == <<"mcp_telemetry", "vector", "auth", "policy", "llm", "registry">>

Has(component) ==
  CASE component \in {"telemetry", "mcp_telemetry"} -> "telemetry" \in features
    [] component \in {"vector", "policy"} -> component \in features
    [] component = "registry" -> {"vector", "policy"} \subseteq features
    [] OTHER -> TRUE

Startup ==
  IF program = "application"
    THEN <<"database", "versions", "telemetry">> \o McpComponents \o <<"discovery", "performance", "service", "background">>
    ELSE <<"telemetry">> \o McpComponents

(* mutant: the service discovery is left out *)
ApplicationStops_fewer == <<"background", "performance", "cache", "versions">>

(* The finally of lifespan; the cache manager is whatever was used.        *)
ApplicationStops == <<"background", "performance", "discovery", "cache", "versions">>

(* MCPServer.shutdown, then MetaMCPServer._shutdown; the registry takes    *)
(* the vector client and the language model down with it.                  *)
ServerStops == <<"registry", "vector", "auth", "policy", "mcp_telemetry", "telemetry">>

Stops == IF program = "application" THEN ApplicationStops ELSE ServerStops
-----------------------------------------------------------------------------
Init ==
  /\ program \in {"application", "server"}
  /\ features \in SUBSET Optional
  /\ phase = "starting" /\ step = 0 /\ up = {}
  /\ complete = FALSE /\ clean = TRUE

(* A step of the start; when the last component of the MCPServer is up it  *)
(* counts as initialised, and the application keeps the version manager.   *)
StartStep ==
  /\ phase = "starting" /\ step < Len(Startup)
  /\ step' = step + 1
  /\ up' = IF Has(Startup[step']) THEN up \cup {Startup[step']} ELSE up
  /\ complete' = (complete \/ Startup[step'] = "registry")
  /\ UNCHANGED <<program, features, phase, clean>>

Serve ==
  /\ phase = "starting" /\ step = Len(Startup)
  /\ phase' = "serving"
  /\ UNCHANGED <<program, features, step, up, complete, clean>>

(* A step of the start raises, or serving ends: on to the finally.         *)
StartFails ==
  /\ phase = "starting" /\ step < Len(Startup)
  /\ Has(Startup[step + 1])
  /\ phase' = "stopping" /\ step' = 0
  /\ UNCHANGED <<program, features, up, complete, clean>>

Terminate ==
  /\ phase = "serving"
  /\ phase' = "stopping" /\ step' = 0
  /\ UNCHANGED <<program, features, up, complete, clean>>

Down(component) ==
  IF component = "registry" /\ component \in up THEN {"registry", "vector", "llm"} ELSE {component}

(* What a stop reaches: MCPServer.shutdown returns at once unless it was   *)
(* initialised; the version manager is found once the start has kept it.   *)
Reaches(component) ==
  \/ component = "telemetry"
  \/ component = "versions" /\ complete
  \/ component \notin {"telemetry", "versions"} /\ (program = "server" => complete)

StopStep ==
  /\ phase = "stopping" /\ step < Len(Stops)
  /\ step' = step + 1
  /\ up' = IF Reaches(Stops[step']) THEN up \ Down(Stops[step']) ELSE up
  /\ UNCHANGED <<program, features, phase, complete, clean>>

(* A stop raises.  In the lifespan nothing after it is stopped; the        *)
(* MCPServer's shutdown swallows it, and the telemetry after it is.        *)
StopFails ==
  /\ phase = "stopping" /\ step < Len(Stops)
  /\ Reaches(Stops[step + 1]) /\ Stops[step + 1] \in up
  /\ step' = IF program = "server" /\ step < Len(Stops) - 1 THEN Len(Stops) - 1 ELSE Len(Stops)
  /\ clean' = FALSE
  /\ UNCHANGED <<program, features, phase, up, complete>>

Exit ==
  /\ phase = "stopping" /\ step = Len(Stops)
  /\ phase' = "down"
  /\ UNCHANGED <<program, features, step, up, complete, clean>>

Next == StartStep \/ Serve \/ StartFails \/ Terminate \/ StopStep \/ StopFails \/ Exit

Spec == Init /\ [][Next]_vars
-----------------------------------------------------------------------------
TypeOK ==
  /\ phase \in {"starting", "serving", "stopping", "down"}
  /\ step \in 0..Len(Startup)
  /\ up \subseteq ToSet(Startup)

(* When no stop raised, what was running in the background is stopped,     *)
(* wherever the start broke off.  What stays up is known: the database's   *)
(* pool and the registered service; the application never shuts its MCP    *)
(* server down, and a half initialised one is left as it is.               *)
ShutdownIsComplete ==
  phase = "down" /\ clean =>
    /\ up \cap {"background", "performance", "discovery"} = {}
    /\ program = "application" /\ complete => "versions" \notin up
    /\ program = "server" => "telemetry" \notin up
    /\ program = "server" /\ complete => up \subseteq {"llm"}
=============================================================================
