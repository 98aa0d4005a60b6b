---------------------------- MODULE ToolExecution ----------------------------
(***************************************************************************)
(* execute_tool of src/metamcp/tools/registry.py over the circuit breaker   *)
(* of its tool (UtilsCircuitBreaker, one for all users of the tool).  A      *)
(* call is posted to one endpoint after the other, and again in every        *)
(* attempt, until one answers 200; the server runs the tool when a post      *)
(* lands, whether or not its answer arrives.                                *)
(***************************************************************************)
EXTENDS UtilsCircuitBreaker

CONSTANTS
    Endpoints,      \* len(execution_endpoints)
    Attempts        \* settings.tool_retry_attempts

VARIABLES
    call,           \* per caller: where its call is, and the last response
    served,         \* how often the server ran the tool for a call
    report          \* what execute_tool told its caller

callVars == <<call, served, report>>
toolVars == <<vars, callVars>>

CallRecord ==
    [pc : {"idle", "next", "posted", "landed", "asleep", "done"},
     endpoint : 1..Endpoints, attempt : 1..Attempts,
     ok : BOOLEAN]              \* the response at hand is a 200

(* However often a post is repeated, the server runs a call at most once per *)
(* endpoint and attempt (the two loops of _execute_tool_internal).           *)
ToolTypeOK ==
    /\ TypeOK
    /\ call \in [Calls -> CallRecord]
    /\ served \in [Calls -> 0..(Endpoints * Attempts)]
    /\ report \in [Calls -> {"none", "success", "raised"}]

ToolInit ==
    /\ Init
    /\ call = [c \in Calls |-> [pc |-> "idle", endpoint |-> 1, attempt |-> 1,
                                ok |-> FALSE]]
    /\ served = [c \in Calls |-> 0]
    /\ report = [c \in Calls |-> "none"]

At(c, pc) == call[c].pc = pc
Moves(c, pc) == call' = [call EXCEPT ![c].pc = pc]

(* not in the dictionary, or not allowed by the policy: raises; otherwise    *)
(* the first endpoint is next                                                *)
ExecuteTool(c) ==
    /\ At(c, "idle")
    /\ \/ Moves(c, "next") /\ UNCHANGED report
       \/ Moves(c, "done") /\ report' = [report EXCEPT ![c] = "raised"]
    /\ UNCHANGED <<vars, served>>

Post(c) ==
    /\ At(c, "next")
    /\ Admit(c) \/ Probe(c)
    /\ Moves(c, "posted")
    /\ UNCHANGED <<served, report>>

Lands(c) ==
    /\ At(c, "posted")
    /\ Moves(c, "landed")
    /\ served' = [served EXCEPT ![c] = @ + 1]
    /\ UNCHANGED <<vars, report>>

InFlight(c) == At(c, "posted") \/ At(c, "landed")

(* a real answer, or, when all endpoints have failed, a mock: both carry      *)
(* "status": "success" and is_error False                                    *)
Reports(c, k) ==
    /\ call' = [call EXCEPT ![c] = [k EXCEPT !.pc = "done"]]
    /\ report' = [report EXCEPT ![c] = "success"]

(* mutant: only the loop over the endpoints is left at a 200                 *)
EndOfRound_blind(c, k) ==
    IF k.attempt = Attempts
    THEN Reports(c, k)
    ELSE call' = [call EXCEPT ![c] = [k EXCEPT !.pc = "asleep"]] /\ UNCHANGED report

EndOfRound(c, k) ==
    IF k.ok \/ k.attempt = Attempts
    THEN Reports(c, k)
    ELSE call' = [call EXCEPT ![c] = [k EXCEPT !.pc = "asleep"]] /\ UNCHANGED report

(* on to the next endpoint of the attempt, if there is one *)
Onward(c) ==
    IF call[c].endpoint < Endpoints
    THEN /\ call' = [call EXCEPT ![c].pc = "next", ![c].endpoint = @ + 1]
         /\ UNCHANGED report
    ELSE EndOfRound(c, call[c])

(* CircuitBreakerOpenError: the endpoint is skipped *)
Rejected(c) ==
    /\ At(c, "next")
    /\ state = "open" /\ ~ShouldAttemptReset
    /\ Onward(c)
    /\ UNCHANGED <<vars, served>>

(* a 200: the loop over the endpoints is left *)
Answered(c) ==
    /\ At(c, "landed")
    /\ OnSuccess(c)
    /\ EndOfRound(c, [call[c] EXCEPT !.ok = TRUE])
    /\ UNCHANGED served

(* any other status is a success of the breaker and a failure of the call *)
AnsweredBadly(c) ==
    /\ InFlight(c)
    /\ OnSuccess(c)
    /\ Onward(c)
    /\ UNCHANGED served

(* no connection, or no answer in time: the tool may have run all the same *)
Unanswered(c) ==
    /\ InFlight(c)
    /\ OnFailure(c)
    /\ Onward(c)
    /\ UNCHANGED served

(* the caller's task is cancelled: passes every handler *)
Cancelled(c) ==
    /\ InFlight(c)
    /\ Escape(c)
    /\ Moves(c, "done")
    /\ report' = [report EXCEPT ![c] = "raised"]
    /\ UNCHANGED served

(* mutant: the retry does not count *)
NextAttempt_again(k) == k.attempt

NextAttempt(k) == k.attempt + 1

Wakes(c) ==
    /\ At(c, "asleep")
    /\ call' = [call EXCEPT ![c].pc = "next", ![c].endpoint = 1,
                            ![c].attempt = NextAttempt(call[c])]
    /\ UNCHANGED <<vars, served, report>>

Loop(c) == Post(c) \/ Rejected(c) \/ Wakes(c)
Ends(c) == Answered(c) \/ AnsweredBadly(c) \/ Unanswered(c) \/ Cancelled(c)

(* Time passes; what the services are like changes between the calls only: a *)
(* service that is not healthy may answer either way, so what a call may     *)
(* meet covers the changes during a call as well.                            *)
ToolEnvironment ==
    /\ Tick \/ (ServiceChanges /\ \A c \in Calls : At(c, "idle") \/ At(c, "done"))
    /\ UNCHANGED callVars

ToolNext ==
    \/ \E c \in Calls : ExecuteTool(c) \/ Loop(c) \/ Lands(c) \/ Ends(c)
    \/ ToolEnvironment

ToolSpec == ToolInit /\ [][ToolNext]_toolVars

-----------------------------------------------------------------------------
(* Properties.                                                               *)

(* After a 200 the call is not posted again: both loops are left.            *)
StopsAtSuccess ==
    [][\A c \in Calls : call[c].ok => served'[c] = served[c]]_toolVars

(* Every call ends, with its circuit open, its server silent or its answers  *)
(* bad: the client's timeout ends every post, and the attempts are counted.  *)
CallsEnd == \A c \in Calls : ~At(c, "idle") ~> At(c, "done")

(* "ToolExecutionError: If execution fails" (the docstring of execute_tool): *)
(* a call that reports success has been run by its server.                   *)
FailureIsReported == \A c \in Calls : report[c] = "success" => served[c] > 0
=============================================================================
