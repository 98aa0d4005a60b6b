------------------------------- MODULE MCRuntime -------------------------------
(***************************************************************************)
(* What runs and bounds the work of the application: the background task     *)
(* manager, the resource limits, the rate limiter of one key and the          *)
(* middlewares that limit requests.  They share no state, so every            *)
(* interleaving of them projects to a behaviour of each.  A behaviour here is *)
(* of one of them, the subject; the others rest in one initial state.         *)
(***************************************************************************)
EXTENDS BackgroundTasks, Integers, FiniteSets

CONSTANTS
    t1, t2, w1, w2, w3,     \* BackgroundTasks
    MaxExecutions, Users, Limits,                   \* ResourceLimits
    Limit, Window, Minute, Costs, MaxTime,          \* RateLimiter, and of RateLimits:
    RateLimitRequests, Requests, MaxWindows

ASSUME ExecutionsAssumption == MaxExecutions \in Nat /\ Limits \subseteq Nat
ASSUME ClockAssumption ==
    /\ Limit \in Nat /\ MaxTime \in Nat /\ Costs \subseteq Nat
    /\ Window \in Nat \ {0}
    /\ Minute \in Nat \ {0} /\ Minute <= MaxTime + 1
(* No request is dearer than the limit, or it would be denied for ever: the   *)
(* only caller, security/rate_limiting.py:607, asks at the default cost of 1. *)
ASSUME CostsAssumption == Costs \subseteq 0..Limit
ASSUME RequestsAssumption ==
    IsFiniteSet(Requests) /\ RateLimitRequests \in Nat /\ MaxWindows \in Nat

(* t2 may be retried and runs in the thread pool.                           *)
MCMaxRetries == [t \in Tasks |-> IF t = t2 THEN 2 ELSE 0]
MCSyncTasks  == {t2}

VARIABLES
    subject,
    started, active, history, monitor, sweep,
    strategy, now, count, windowStart, lastRequest, tokens, log, granted, asked, since,
    verdict,
    variant, clock, counter, request, handled, passed, lost

Resources == INSTANCE ResourceLimits
Limiter == INSTANCE RateLimiter WITH answer <- verdict
Middleware == INSTANCE RateLimits WITH Limit <- RateLimitRequests

resourceVars == <<started, active, history, monitor, sweep>>
limiterVars ==
    <<strategy, now, count, windowStart, lastRequest, tokens, log, granted, asked, since,
      verdict>>
middlewareVars == <<variant, clock, counter, request, handled, passed, lost>>
runtimeVars == <<subject, vars, resourceVars, limiterVars, middlewareVars>>

Subject(s) == subject = s /\ UNCHANGED subject

TasksMove(A) ==
    Subject("tasks") /\ A /\ UNCHANGED <<resourceVars, limiterVars, middlewareVars>>

ResourcesMove(A) ==
    Subject("resources") /\ A /\ UNCHANGED <<vars, limiterVars, middlewareVars>>

LimiterStep ==
    Subject("limiter") /\ Limiter!Next /\ UNCHANGED <<vars, resourceVars, middlewareVars>>

MiddlewareStep ==
    Subject("middleware") /\ Middleware!Next /\ UNCHANGED <<vars, resourceVars, limiterVars>>

RuntimeInit ==
    /\ subject \in {"tasks", "resources", "limiter", "middleware"}
    /\ Init
    /\ Resources!Init
    /\ Limiter!Init
    /\ subject # "limiter" => strategy = "fixed" /\ now = 0
    /\ Middleware!Init
    /\ subject # "middleware" => variant = "unified"

RuntimeNext ==
    TasksMove(Next) \/ ResourcesMove(Resources!Next) \/ LimiterStep \/ MiddlewareStep

(* The fairness of BackgroundTasks and of ResourceLimits (see there), for    *)
(* the subject.                                                              *)
RuntimeFairness ==
    /\ \A t \in Tasks :
        /\ WF_vars(subject = "tasks" /\ EnqueueTask(t))
        /\ WF_vars(subject = "tasks" /\ PollStatus(t))
    /\ WF_vars(subject = "tasks" /\ \E S \in SUBSET Workers : Start(S))
    /\ \A w \in Workers : WF_vars(subject = "tasks" /\ WorkerStep(w))
    /\ WF_resourceVars(subject = "resources" /\ Resources!MonitorStep)

RuntimeSpec == RuntimeInit /\ [][RuntimeNext]_runtimeVars /\ RuntimeFairness

-----------------------------------------------------------------------------
(* The properties of the parts, under the names of this module.              *)

(* Types, of all parts.                                                      *)
TypesOK == TypeOK /\ Resources!TypeOK /\ Limiter!TypeOK /\ Middleware!TypeOK

(* Every execution is in one place of the books, once (ResourceLimits).       *)
ExecutionsAccounted == Resources!ExecutionsAccounted

(* No one gets more than a limit allows, and none waits for ever: WindowBound *)
(* of RateLimiter; SharedLimit, HandledAsAllowed and CounterRunsOut of        *)
(* RateLimits.                                                               *)
LimitsHold ==
    /\ Limiter!WindowBound
    /\ Middleware!SharedLimit /\ Middleware!HandledAsAllowed /\ Middleware!CounterRunsOut

(* What is begun settles: every task ends, and what runs over its limits is   *)
(* interrupted.                                                              *)
WorkSettles == EveryTaskEnds /\ Resources!Enforced

(* Limits let go again: nobody is denied for what lies longer ago than a      *)
(* window (RateLimiter).                                                     *)
NotStarved == Limiter!NotStarved
=============================================================================
