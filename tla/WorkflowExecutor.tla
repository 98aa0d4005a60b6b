---------------------------- MODULE WorkflowExecutor ----------------------------
(***************************************************************************)
(* WorkflowExecutor of src/metamcp/composition/executor.py, the second       *)
(* interpreter of steps: execute_step for one step and its sub-steps, with   *)
(* retries and a timeout per call.  execute_step never raises: a failure is  *)
(* a result, also for the gather and the loop that call it for sub-steps.    *)
(***************************************************************************)
EXTENDS Integers, FiniteSets

CONSTANTS
    Steps,          \* steps: kind, parts, attempts, timed, lenient, unnamed
    MaxParts,       \* bound: sub-steps or loop items
    MaxAttempts     \* bound: max_attempts of a step

VARIABLES
    step,       \* the step handed to execute_step
    status,     \* "running", then the status of its result
    unit        \* per tool call (0: the step's own): phase and calls made

vars == <<step, status, unit>>

Units == 0..MaxParts

(* unnamed: the units whose config has no tool_name; "mistyped": a parallel  *)
(* step, one of whose sub-steps has a type that is none                      *)
StepConfig ==
    [kind : {"tool", "single", "parallel", "mistyped", "loop", "unknown"}, parts : 0..MaxParts,
     attempts : 0..MaxAttempts, timed : BOOLEAN, lenient : BOOLEAN, unnamed : SUBSET Units]

TypeOK ==
    /\ step \in StepConfig
    /\ status \in {"new", "running", "completed", "failed"}
    /\ unit \in [Units -> [phase : {"idle", "calling", "sleeping", "completed", "failed"},
                           calls : Nat]]

Init ==
    /\ step \in Steps
    /\ status = "new"
    /\ unit = [u \in Units |-> [phase |-> "idle", calls |-> 0]]

Over(u) == unit[u].phase \in {"completed", "failed"}

(* the tool of a unit: the step itself calls as often as retry_config says;  *)
(* a sub-step carries no retry_config, so it calls once                      *)
Attempts(u) == IF u = 0 THEN step.attempts ELSE 1

(* a unit without a tool fails before its retry loop; range(0) leaves the    *)
(* loop at once, with the result None                                        *)
Entered(u) ==
    IF u \in step.unnamed THEN [phase |-> "failed", calls |-> 0]
    ELSE IF Attempts(u) = 0 THEN [phase |-> "completed", calls |-> 0]
    ELSE [phase |-> "calling", calls |-> 1]

Running(us) == [u \in Units |-> IF u \in us THEN Entered(u) ELSE unit[u]]

(* dispatch by step_type; a step with nothing to do, of an unknown type, or  *)
(* with a sub-step of one, fails at once                                     *)
ExecuteStep ==
    /\ status = "new"
    /\ CASE step.kind = "tool" ->
                status' = "running" /\ unit' = Running({0})
         [] step.kind = "single" ->
                status' = "running" /\ UNCHANGED unit
         [] step.kind = "parallel" /\ step.parts > 0 ->
                status' = "running" /\ unit' = Running(1..step.parts)
         [] step.kind = "loop" ->
                /\ status' = "running"
                /\ unit' = IF step.parts > 0 THEN Running({1}) ELSE unit
         [] OTHER ->
                status' = "failed" /\ UNCHANGED unit
    /\ UNCHANGED step

UnitAction(u) == status = "running" /\ UNCHANGED <<step, status>>

CallReturns(u) ==
    /\ UnitAction(u)
    /\ unit[u].phase = "calling"
    /\ unit' = [unit EXCEPT ![u].phase = "completed"]

(* mutant: no attempt is the last *)
Failed_never(u) == unit' = [unit EXCEPT ![u].phase = "sleeping"]

(* the last attempt raises, and execute_step makes a failed result of it     *)
Failed(u) ==
    unit' = [unit EXCEPT ![u].phase =
                IF unit[u].calls = Attempts(u) THEN "failed" ELSE "sleeping"]

CallRaises(u) == UnitAction(u) /\ unit[u].phase = "calling" /\ Failed(u)

(* mutant: only the first attempt is timed *)
CallTimesOut_first(u) ==
    /\ UnitAction(u) /\ unit[u].phase = "calling" /\ unit[u].calls = 1
    /\ step.timed /\ Failed(u)

(* wait_for gives up; without a timeout there is no wait_for *)
CallTimesOut(u) ==
    UnitAction(u) /\ unit[u].phase = "calling" /\ step.timed /\ Failed(u)

RetryCall(u) ==
    /\ UnitAction(u)
    /\ unit[u].phase = "sleeping"
    /\ unit' = [unit EXCEPT ![u] = [phase |-> "calling", calls |-> @.calls + 1]]

Ends(result) ==
    /\ status = "running"
    /\ status' = result
    /\ UNCHANGED <<step, unit>>

ToolStepEnds == step.kind = "tool" /\ Over(0) /\ Ends(unit[0].phase)

(* a condition, a delay or an HTTP request: one step that ends well or badly *)
SingleStepEnds ==
    step.kind = "single" /\ \E r \in {"completed", "failed"} : Ends(r)

(* the gather is over when every sub-step is; it looks for exceptions among  *)
(* the results, and results are never exceptions                             *)
ParallelStepEnds ==
    /\ step.kind = "parallel"
    /\ \A u \in 1..step.parts : Over(u)
    /\ Ends("completed")

LoopAt == Cardinality({u \in 1..step.parts : unit[u].phase # "idle"})

(* mutant: the body's status is not looked at *)
LoopGoesOn_blind ==
    /\ step.kind = "loop"
    /\ status = "running"
    /\ LoopAt \in 1..(step.parts - 1)
    /\ Over(LoopAt)
    /\ unit' = Running({LoopAt + 1})
    /\ UNCHANGED <<step, status>>

(* the next item, unless the body failed and errors end the loop *)
LoopGoesOn ==
    /\ step.kind = "loop"
    /\ status = "running"
    /\ LoopAt \in 1..(step.parts - 1)
    /\ Over(LoopAt)
    /\ unit[LoopAt].phase = "completed" \/ step.lenient
    /\ unit' = Running({LoopAt + 1})
    /\ UNCHANGED <<step, status>>

LoopStepEnds ==
    /\ step.kind = "loop"
    /\ IF step.parts > 0 /\ unit[LoopAt].phase = "failed" /\ ~step.lenient
       THEN Ends("failed")
       ELSE /\ \A u \in 1..step.parts : Over(u)
            /\ Ends("completed")

Done == status \in {"completed", "failed"} /\ UNCHANGED vars

StepEnds ==
    ToolStepEnds \/ SingleStepEnds \/ ParallelStepEnds \/ LoopGoesOn \/ LoopStepEnds

Next ==
    \/ ExecuteStep \/ StepEnds \/ Done
    \/ \E u \in Units :
        CallReturns(u) \/ CallRaises(u) \/ CallTimesOut(u) \/ RetryCall(u)

(* timers fire and the interpreter runs; no tool has to answer *)
Fairness ==
    /\ WF_vars(ExecuteStep \/ StepEnds)
    /\ \A u \in Units : WF_vars(CallTimesOut(u) \/ RetryCall(u))

Spec == Init /\ [][Next]_vars /\ Fairness

-----------------------------------------------------------------------------
(* A loop is completed only over bodies that completed, unless errors are    *)
(* tolerated, and never starts an item before the one before it is over; a   *)
(* tool is called at most max_attempts times, a sub-step's tool once.        *)
LoopIsHonest ==
    /\ step.kind = "loop" =>
        /\ status = "completed" /\ ~step.lenient =>
                \A u \in 1..step.parts : unit[u].phase = "completed"
        /\ \A u \in 2..step.parts : unit[u].phase # "idle" => Over(u - 1)
    /\ \A u \in Units : unit[u].calls <= Attempts(u)

(* A step whose calls have a timeout ends, though its tools may never answer *)
(* (the engine in use applies no timeout).                                   *)
TimedStepsEnd == step.timed => <>(status \in {"completed", "failed"})
=============================================================================
