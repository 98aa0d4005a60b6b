------------------------------ MODULE MCServers ------------------------------
(***************************************************************************)
(* Who calls servers, for TLC: the two circuit breakers, the execution of a *)
(* tool over the second, the load balancer, its strategies, and the service *)
(* discovery.  A tool's execution acts on the breaker it goes through;      *)
(* otherwise they share no state.  A behaviour is of one of them, the       *)
(* subject; the others rest.                                                *)
(***************************************************************************)
EXTENDS PerfCircuitBreaker, FiniteSets, Sequences, TLC

CONSTANTS
    c1, c2, c3,
    Callers,        \* those of Calls that execute the tool
    Endpoints, Attempts,                                    \* ToolExecution
    Ids, FailoverThreshold, RecoveryThreshold, MaxAdds,     \* LoadBalancer
    Choices, Weight, Cycle, Virtual, Hashes, Counts,        \* Selection
    Services, MaxCalls                                      \* ServiceDiscovery

(* A tool has endpoints and an attempt at least.                             *)
ASSUME ToolAssumption ==
    /\ Callers \subseteq Calls
    /\ Endpoints \in Nat \ {0} /\ Attempts \in Nat \ {0}

ASSUME BalancerAssumption ==
    /\ FailoverThreshold \in Nat \ {0} /\ RecoveryThreshold \in Nat \ {0}
    /\ IsFiniteSet(Ids) /\ MaxAdds \in Nat

(* Servers have a weight, and the largest round is that of all servers.      *)
AllTurns == UNION {{<<0, i, w>> : w \in 1..Weight[i]} : i \in Choices}

ASSUME SelectionAssumption ==
    /\ Choices \subseteq Nat /\ IsFiniteSet(Choices)
    /\ Weight \in [Choices -> Nat \ {0}]
    /\ Virtual \subseteq Nat /\ IsFiniteSet(Virtual) /\ Virtual # {}
    /\ Hashes \subseteq Int /\ Counts \subseteq Nat
    /\ Cycle \in Nat \ {0}
    /\ \A n \in 1..Cardinality(AllTurns) : Cycle % n = 0

ASSUME DiscoveryAssumption == IsFiniteSet(Services) /\ MaxCalls \in Nat

VARIABLES
    subject,
    uState, uFailures, uSuccesses, uSince, uInflight, uHealthy, uResets, uTrial, uStreak,
    call, served, report,
    servers, balancing, entry, made, checker, dying, leaving, stopping, outcomes, disturbed,
    strategy, usable, index, connections, node, client, picks, last,
    registered, endpoint, running, loop, sweep, row, storing, removing, answer, changes

(* The third server weighs as much as the other two together.              *)
Weights == [i \in Choices |-> IF i = 3 THEN 2 ELSE 1]

Utils == INSTANCE UtilsCircuitBreaker WITH
    state <- uState, failures <- uFailures, successes <- uSuccesses,
    sinceFailure <- uSince, inflight <- uInflight, healthy <- uHealthy,
    resets <- uResets, trial <- uTrial, streak <- uStreak

Tool == INSTANCE ToolExecution WITH
    Calls <- Callers,
    state <- uState, failures <- uFailures, successes <- uSuccesses,
    sinceFailure <- uSince, inflight <- uInflight, healthy <- uHealthy,
    resets <- uResets, trial <- uTrial, streak <- uStreak

Balancer == INSTANCE LoadBalancer WITH running <- balancing, removing <- leaving, streak <- outcomes
Strategy == INSTANCE Selection WITH Ids <- Choices, healthy <- usable
Discovery == INSTANCE ServiceDiscovery WITH calls <- changes

utilsVars ==
    <<uState, uFailures, uSuccesses, uSince, uInflight, uHealthy, uResets, uTrial, uStreak>>
callVars == <<call, served, report>>
balancerVars ==
    <<servers, balancing, entry, made, checker, dying, leaving, stopping, outcomes, disturbed>>
strategyVars == <<strategy, usable, index, connections, node, client, picks, last>>
discoveryVars ==
    <<registered, endpoint, running, loop, sweep, row, storing, removing, answer, changes>>
breakersVars == <<vars, utilsVars, callVars>>
othersVars == <<balancerVars, strategyVars, discoveryVars>>
serversVars == <<subject, breakersVars, othersVars>>

Subject(s) == subject = s /\ UNCHANGED subject

PerfMoves(A) == Subject("perf") /\ A /\ UNCHANGED <<utilsVars, callVars, othersVars>>
UtilsMoves(A) == Subject("utils") /\ A /\ UNCHANGED <<vars, callVars, othersVars>>
ToolMoves(A) == Subject("tool") /\ A /\ UNCHANGED <<vars, othersVars>>
BalancerMoves(A) ==
    Subject("balancer") /\ A /\ UNCHANGED <<breakersVars, strategyVars, discoveryVars>>
StrategyMoves(A) ==
    Subject("strategy") /\ A /\ UNCHANGED <<breakersVars, balancerVars, discoveryVars>>
DiscoveryMoves(A) ==
    Subject("discovery") /\ A /\ UNCHANGED <<breakersVars, balancerVars, strategyVars>>

StrategyRests ==
    /\ strategy = "round_robin" /\ usable = {} /\ index = 0 /\ picks = <<>>
    /\ connections = [i \in Choices |-> 0] /\ client = 0
    /\ node = [v \in Choices \X Virtual |-> 0]
    /\ last = [server |-> 0, among |-> {}]

ServersInit ==
    /\ subject \in {"perf", "utils", "tool", "balancer", "strategy", "discovery"}
    /\ Init
    /\ Tool!ToolInit
    /\ Balancer!Init
    /\ IF subject = "strategy" THEN Strategy!Init ELSE StrategyRests
    /\ Discovery!Init

ServersNext ==
    \/ PerfMoves(Next)
    \/ UtilsMoves(Utils!Next)
    \/ ToolMoves(Tool!ToolNext)
    \/ BalancerMoves(Balancer!Next)
    \/ StrategyMoves(Strategy!Next)
    \/ DiscoveryMoves(Discovery!Next)

(* The fairness of both breakers; for a tool, that calls go on, that a post  *)
(* is answered or times out, and that time passes.                           *)
BreakersFairness ==
    /\ WF_vars(subject = "perf" /\ Tick)
    /\ WF_utilsVars(subject = "utils" /\ Utils!Tick)
    /\ \A c \in Calls :
        /\ WF_vars(subject = "perf" /\ (Admit(c) \/ Probe(c)))
        /\ WF_vars(subject = "perf" /\ (OnSuccess(c) \/ OnFailure(c) \/ Escape(c)))
        /\ WF_utilsVars(subject = "utils" /\ (Utils!Admit(c) \/ Utils!Probe(c)))
        /\ WF_utilsVars(
             subject = "utils"
                 /\ (Utils!OnSuccess(c) \/ Utils!OnFailure(c) \/ Utils!Escape(c)))
    /\ \A c \in Callers :
        /\ WF_callVars(subject = "tool" /\ Tool!Loop(c))
        /\ WF_callVars(subject = "tool" /\ Tool!Ends(c))

(* Rounds of health checks go on, those of the balancer and of the discovery. *)
ServersFairness ==
    /\ BreakersFairness
    /\ WF_discoveryVars(subject = "discovery" /\ Discovery!Sweeps)
    /\ \A c \in Balancer!Checkers :
        WF_balancerVars(subject = "balancer" /\ Balancer!PerformHealthCheck(c))

ServersSpec == ServersInit /\ [][ServersNext]_serversVars /\ ServersFairness

-----------------------------------------------------------------------------
(* The properties of the parts, under the names of this module.            *)

(* Types, of all parts; the server runs a call of a tool at most once per    *)
(* endpoint and attempt.                                                     *)
AllTypesOK ==
    /\ TypeOK /\ Utils!TypeOK /\ (subject = "tool" => Tool!ToolTypeOK)
    /\ Balancer!TypeOK /\ Discovery!TypeOK
    /\ (subject = "strategy" => Strategy!TypeOK)

(* KeepsPromise of both breakers: each implements CircuitBreaker.            *)
BothKeepPromise == KeepsPromise /\ Utils!KeepsPromise

(* Recovers of both breakers, each while it is the subject.                  *)
BothRecover ==
    /\ Recovers
    /\ <>[](subject = "utils" /\ uHealthy) => <>[](uState = "closed")

(* Which servers are checked and found, and how requests are spread over them. *)
ChoicesAreSound ==
    /\ Balancer!ChecksFollowRunning /\ Discovery!GoneIsGone
    /\ (subject = "strategy" => Strategy!ShareIsFair /\ Strategy!ClientStays)

(* The circuit of a tool opens, a server becomes healthy or unhealthy, and a *)
(* tool runs again, only for the calls, checks and answers that earn it.     *)
ChangesAreEarned ==
    Utils!OpensAfterFailures /\ Balancer!StatusIsEarned /\ Tool!StopsAtSuccess

(* CallsEnd of ToolExecution.                                                *)
CallsAreDone == Tool!CallsEnd

(* A check's verdict comes out in the end, the discovery's and the balancer's. *)
HealthIsFound == Discovery!HealthSettles /\ Balancer!HealthComes
=============================================================================
