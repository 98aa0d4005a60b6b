--------------------------- MODULE WorkflowEngine ---------------------------
(***************************************************************************)
(* One execution of one workflow by WorkflowEngine                          *)
(* (src/metamcp/composition/engine.py).  The engine repeatedly collects the *)
(* steps whose dependencies have been executed (a wave), runs the wave      *)
(* either one step after the other or with asyncio.gather, and stops at the *)
(* first failure.                                                           *)
(*                                                                         *)
(* A step is named by its position in workflow.steps, so that "the first    *)
(* step of the list that ..." is the least such number.  NoStep stands for  *)
(* a dependency on an id that no step of the workflow has.                  *)
(*                                                                         *)
(* Kinds of step: "tool" (TOOL_CALL, with retries), "single" (DELAY and     *)
(* HTTP_REQUEST: one activity that returns or raises), "condition" (ends    *)
(* without waiting), "parallel" (sub-steps under a second gather) and       *)
(* "loop" (bodies one by one).  A sub-step or a loop body is one activity   *)
(* that returns or raises.                                                  *)
(***************************************************************************)
EXTENDS Integers, FiniteSets

CONSTANTS
    NumSteps,       \* len(workflow.steps)
    MaxParts,       \* largest number of sub-steps or loop bodies of a step
    MaxAttempts,    \* largest retry_config["max_attempts"] considered
    Workflows       \* the workflow definitions submitted for registration

Steps  == 1..NumSteps
NoStep == 0
Kinds  == {"tool", "single", "condition", "parallel", "loop"}

WorkflowDefinition ==
    [deps     : [Steps -> SUBSET (Steps \cup {NoStep})],
     parallel : BOOLEAN,                    \* parallel_execution
     kind     : [Steps -> Kinds],
     guarded  : [Steps -> BOOLEAN],         \* the step has a condition
     attempts : [Steps -> 0..MaxAttempts],  \* retry_config["max_attempts"]
     parts    : [Steps -> 0..MaxParts],     \* sub-steps, or bodies of a loop
     lenient  : [Steps -> BOOLEAN]]         \* loop_config["continue_on_error"]

ASSUME NumStepsAssumption    == NumSteps \in Nat \ {0}
ASSUME MaxPartsAssumption    == MaxParts \in Nat
ASSUME MaxAttemptsAssumption == MaxAttempts \in Nat
ASSUME WorkflowsAssumption   == Workflows \subseteq WorkflowDefinition

VARIABLES
    wf,          \* the WorkflowDefinition being executed
    status,      \* state.status, "idle" before execute_workflow
    error,       \* why state.error is set: "none", "step" or "circular"
    stepStatus,  \* state.step_statuses of the steps
    partStatus,  \* state.step_statuses of sub-steps and bodies ("none": absent)
    executed,    \* executed_steps
    recorded,    \* DOMAIN of state.step_results
    pc,          \* where _execute_steps is: "scan", "wave" or "done"
    wave,        \* ready_steps of the current iteration
    phase,       \* where the coroutine _execute_step of a step is
    calls        \* tool_executor calls begun by a step

vars == <<wf, status, error, stepStatus, partStatus, executed, recorded, pc,
          wave, phase, calls>>

StepStatuses == {"pending", "running", "completed", "failed", "skipped"}
PartStatuses == {"none", "running", "completed", "failed"}
Phases       == {"idle", "calling", "backoff", "parts", "returned", "raised"}

TypeOK ==
    /\ wf \in Workflows
    /\ status \in {"idle", "running", "completed", "failed"}
    /\ error \in {"none", "step", "circular"}
    /\ stepStatus \in [Steps -> StepStatuses]
    /\ partStatus \in [Steps -> [1..MaxParts -> PartStatuses]]
    /\ executed \subseteq Steps
    /\ recorded \subseteq Steps
    /\ pc \in {"scan", "wave", "done"}
    /\ wave \subseteq Steps
    /\ phase \in [Steps -> Phases]
    /\ calls \in [Steps -> 0..MaxAttempts]

-----------------------------------------------------------------------------
(* Registration.  _has_circular_dependencies answers whether the graph has   *)
(* a cycle (WorkflowValidation checks its depth-first search against this    *)
(* definition): no set of steps of which each depends on a member of the     *)
(* set.  A dependency on an unknown id is not rejected.                      *)

(* mutant: only a step that depends on itself is found *)
Acyclic_selfOnly(w) == \A s \in Steps : s \notin w.deps[s]

Acyclic(w) ==
    ~ \E S \in SUBSET Steps : /\ S # {}
                              /\ \A s \in S : w.deps[s] \cap S # {}

Valid(w) == Acyclic(w)

-----------------------------------------------------------------------------
(* What the code asks about the current state.                               *)

(* mutant: one executed dependency is enough (any instead of all) *)
Ready_any == {s \in Steps : s \notin executed
                 /\ (wf.deps[s] = {} \/ wf.deps[s] \cap executed # {})}

(* mutant: executed steps are not skipped *)
Ready_again == {s \in Steps : wf.deps[s] \subseteq executed}

Ready == {s \in Steps : s \notin executed /\ wf.deps[s] \subseteq executed}

PartsOf(s) == 1..wf.parts[s]

(* mutant: the exceptions among the results are taken for results *)
Raised_unchecked == {}

Raised == {s \in wave : phase[s] = "raised"}

(* mutant: gather without return_exceptions gives up at the first failure *)
Ended_eager(s) == phase[s] \in {"returned", "raised"} \/ Raised # {}

Ended(s) == phase[s] \in {"returned", "raised"}

(* mutant: the sequential loop goes on after a failed step *)
Reached_onward(s) ==
    /\ pc = "wave" /\ s \in wave /\ phase[s] = "idle"
    /\ wf.parallel \/ \A r \in wave : r < s => Ended(r)

(* gather schedules the whole wave; the sequential loop reaches a step once  *)
(* the earlier steps of the wave have been executed.                         *)
Reached(s) ==
    /\ pc = "wave" /\ s \in wave /\ phase[s] = "idle"
    /\ wf.parallel \/ \A r \in wave : r < s => r \in executed

PartReached(s, i) ==
    /\ phase[s] = "parts" /\ i \in PartsOf(s) /\ partStatus[s][i] = "none"
    /\ wf.kind[s] = "loop" =>
          \A j \in 1..(i - 1) :
              \/ partStatus[s][j] = "completed"
              \/ partStatus[s][j] = "failed" /\ wf.lenient[s]

PartsEnded(s) ==
    \A i \in PartsOf(s) : partStatus[s][i] \in {"completed", "failed"}

BrokenParts(s) == {i \in PartsOf(s) : partStatus[s][i] = "failed"}

(* mutant: results that are exceptions are not looked for *)
Tolerated_all(s) == TRUE

(* no part failed, or the loop continues on errors *)
Tolerated(s) == BrokenParts(s) = {} \/ (wf.kind[s] = "loop" /\ wf.lenient[s])

-----------------------------------------------------------------------------

Init ==
    /\ wf \in {w \in Workflows : Valid(w)}
    /\ status = "idle"
    /\ error = "none"
    /\ stepStatus = [s \in Steps |-> "pending"]
    /\ partStatus = [s \in Steps |-> [i \in 1..MaxParts |-> "none"]]
    /\ executed = {}
    /\ recorded = {}
    /\ pc = "scan"
    /\ wave = {}
    /\ phase = [s \in Steps |-> "idle"]
    /\ calls = [s \in Steps |-> 0]

(* execute_workflow up to the first scan: a RUNNING state, all steps PENDING *)
ExecuteWorkflow ==
    /\ status = "idle"
    /\ status' = "running"
    /\ UNCHANGED <<wf, error, stepStatus, partStatus, executed, recorded, pc,
                   wave, phase, calls>>

(* the exception leaves _execute_steps, _execute_workflow_internal and       *)
(* execute_workflow, which all mark the state                                *)
Abort(why) ==
    /\ status' = "failed"
    /\ error' = why
    /\ pc' = "done"
    /\ wave' = {}

Scanning == status = "running" /\ pc = "scan"

(* a fresh coroutine for every ready step *)
PickWave ==
    /\ Scanning
    /\ Ready # {}
    /\ wave' = Ready
    /\ phase' = [s \in Steps |-> IF s \in Ready THEN "idle" ELSE phase[s]]
    /\ pc' = "wave"
    /\ UNCHANGED <<wf, status, error, stepStatus, partStatus, executed,
                   recorded, calls>>

ReportCircular ==
    /\ Scanning
    /\ executed # Steps
    /\ Ready = {}
    /\ Abort("circular")
    /\ UNCHANGED <<wf, stepStatus, partStatus, executed, recorded, phase, calls>>

CompleteWorkflow ==
    /\ Scanning
    /\ executed = Steps
    /\ status' = "completed"
    /\ pc' = "done"
    /\ UNCHANGED <<wf, error, stepStatus, partStatus, executed, recorded, wave,
                   phase, calls>>

-----------------------------------------------------------------------------
(* _execute_step.                                                            *)

StepEnds(s, st) ==
    /\ stepStatus' = [stepStatus EXCEPT ![s] = st]
    /\ phase' = [phase EXCEPT ![s] = IF st = "failed" THEN "raised"
                                                      ELSE "returned"]

(* the condition is false *)
SkipStep(s) ==
    /\ Reached(s)
    /\ wf.guarded[s]
    /\ StepEnds(s, "skipped")
    /\ UNCHANGED <<wf, status, error, partStatus, executed, recorded, pc, wave,
                   calls>>

(* an ill-formed condition or configuration, found before any activity *)
RejectStep(s) ==
    /\ Reached(s)
    /\ StepEnds(s, "failed")
    /\ UNCHANGED <<wf, status, error, partStatus, executed, recorded, pc, wave,
                   calls>>

(* a condition is evaluated on the spot, max_attempts = 0 makes no call, and *)
(* a loop over no items runs no body                                         *)
Immediate(s) ==
    \/ wf.kind[s] = "condition"
    \/ wf.kind[s] = "tool" /\ wf.attempts[s] = 0
    \/ wf.kind[s] = "loop" /\ wf.parts[s] = 0

CompleteAtOnce(s) ==
    /\ Reached(s)
    /\ Immediate(s)
    /\ StepEnds(s, "completed")
    /\ UNCHANGED <<wf, status, error, partStatus, executed, recorded, pc, wave,
                   calls>>

StartActivity(s) ==
    /\ Reached(s)
    /\ ~Immediate(s)
    /\ wf.kind[s] \in {"tool", "single"}
    /\ stepStatus' = [stepStatus EXCEPT ![s] = "running"]
    /\ phase' = [phase EXCEPT ![s] = "calling"]
    /\ calls' = [calls EXCEPT ![s] = IF wf.kind[s] = "tool" THEN 1 ELSE 0]
    /\ UNCHANGED <<wf, status, error, partStatus, executed, recorded, pc, wave>>

StartParts(s) ==
    /\ Reached(s)
    /\ wf.parts[s] > 0                  \* "No sub-steps specified" raises
    /\ wf.kind[s] \in {"parallel", "loop"}
    /\ stepStatus' = [stepStatus EXCEPT ![s] = "running"]
    /\ phase' = [phase EXCEPT ![s] = "parts"]
    /\ UNCHANGED <<wf, status, error, partStatus, executed, recorded, pc, wave,
                   calls>>

(* mutant: attempt == max_attempts is the last one *)
LastAttempt_plusOne(s) == wf.kind[s] # "tool" \/ calls[s] > wf.attempts[s]

LastAttempt(s) == wf.kind[s] # "tool" \/ calls[s] = wf.attempts[s]

CallReturns(s) ==
    /\ phase[s] = "calling"
    /\ StepEnds(s, "completed")
    /\ UNCHANGED <<wf, status, error, partStatus, executed, recorded, pc, wave,
                   calls>>

CallRaises(s) ==
    /\ phase[s] = "calling"
    /\ LastAttempt(s)
    /\ StepEnds(s, "failed")
    /\ UNCHANGED <<wf, status, error, partStatus, executed, recorded, pc, wave,
                   calls>>

CallRaisesEarly(s) ==
    /\ phase[s] = "calling"
    /\ ~LastAttempt(s)
    /\ phase' = [phase EXCEPT ![s] = "backoff"]
    /\ UNCHANGED <<wf, status, error, stepStatus, partStatus, executed,
                   recorded, pc, wave, calls>>

(* mutant: the attempt counter starts again with every retry *)
NextCall_again(s) == 1

NextCall(s) == calls[s] + 1

RetryCall(s) ==
    /\ phase[s] = "backoff"
    /\ phase' = [phase EXCEPT ![s] = "calling"]
    /\ calls' = [calls EXCEPT ![s] = NextCall(s)]
    /\ UNCHANGED <<wf, status, error, stepStatus, partStatus, executed,
                   recorded, pc, wave>>

StartPart(s, i) ==
    /\ PartReached(s, i)
    /\ partStatus' = [partStatus EXCEPT ![s][i] = "running"]
    /\ UNCHANGED <<wf, status, error, stepStatus, executed, recorded, pc, wave,
                   phase, calls>>

PartReturns(s, i) ==
    /\ i \in PartsOf(s) /\ partStatus[s][i] = "running"
    /\ partStatus' = [partStatus EXCEPT ![s][i] = "completed"]
    /\ UNCHANGED <<wf, status, error, stepStatus, executed, recorded, pc, wave,
                   phase, calls>>

PartRaises(s, i) ==
    /\ i \in PartsOf(s) /\ partStatus[s][i] = "running"
    /\ partStatus' = [partStatus EXCEPT ![s][i] = "failed"]
    /\ UNCHANGED <<wf, status, error, stepStatus, executed, recorded, pc, wave,
                   phase, calls>>

(* the inner gather has all results, or the for loop is over *)
PartsSucceed(s) ==
    /\ phase[s] = "parts"
    /\ PartsEnded(s)
    /\ Tolerated(s)
    /\ StepEnds(s, "completed")
    /\ UNCHANGED <<wf, status, error, partStatus, executed, recorded, pc, wave,
                   calls>>

(* the inner gather has a failure among its results, or a body raised *)
PartsFail(s) ==
    /\ phase[s] = "parts"
    /\ BrokenParts(s) # {}
    /\ \/ wf.kind[s] = "parallel" /\ PartsEnded(s)
       \/ wf.kind[s] = "loop" /\ ~wf.lenient[s]
    /\ StepEnds(s, "failed")
    /\ UNCHANGED <<wf, status, error, partStatus, executed, recorded, pc, wave,
                   calls>>

-----------------------------------------------------------------------------
(* The end of a wave.                                                        *)

Record(S) ==
    /\ executed' = executed \cup S
    /\ recorded' = recorded \cup S

(* gather(..., return_exceptions=True) waits for every step of the wave, and *)
(* the zip loop records the results up to the first exception                *)
GatherWave ==
    /\ pc = "wave" /\ wf.parallel
    /\ \A s \in wave : Ended(s)
    /\ Record({s \in wave : \A r \in Raised : s < r})
    /\ \/ /\ Raised = {}
          /\ pc' = "scan"
          /\ wave' = {}
          /\ UNCHANGED <<status, error>>
       \/ /\ Raised # {}
          /\ Abort("step")
    /\ UNCHANGED <<wf, stepStatus, partStatus, phase, calls>>

AdvanceSequential(s) ==
    /\ pc = "wave" /\ ~wf.parallel /\ s \in wave \ executed
    /\ phase[s] = "returned"
    /\ Record({s})
    /\ \/ /\ wave \subseteq executed \cup {s}
          /\ pc' = "scan"
          /\ wave' = {}
       \/ /\ ~(wave \subseteq executed \cup {s})
          /\ UNCHANGED <<pc, wave>>
    /\ UNCHANGED <<wf, status, error, stepStatus, partStatus, phase, calls>>

AbortSequential(s) ==
    /\ pc = "wave" /\ ~wf.parallel /\ s \in wave
    /\ phase[s] = "raised"
    /\ Abort("step")
    /\ UNCHANGED <<wf, stepStatus, partStatus, executed, recorded, phase, calls>>

-----------------------------------------------------------------------------

(* what the event loop runs by itself *)
Engine(s) ==
    \/ SkipStep(s) \/ RejectStep(s) \/ CompleteAtOnce(s)
    \/ StartActivity(s) \/ StartParts(s) \/ RetryCall(s)
    \/ \E i \in PartsOf(s) : StartPart(s, i)
    \/ PartsSucceed(s) \/ PartsFail(s)
    \/ AdvanceSequential(s) \/ AbortSequential(s)

(* what a tool, an HTTP server or a timer answers *)
Answer(s) ==
    \/ CallReturns(s) \/ CallRaises(s) \/ CallRaisesEarly(s)
    \/ \E i \in PartsOf(s) : PartReturns(s, i) \/ PartRaises(s, i)

Control == PickWave \/ ReportCircular \/ CompleteWorkflow \/ GatherWave

(* the execution is over: nothing left to do *)
Terminated == pc = "done" /\ UNCHANGED vars

Next ==
    \/ ExecuteWorkflow
    \/ Control
    \/ \E s \in Steps : Engine(s) \/ Answer(s)
    \/ Terminated

Spec == Init /\ [][Next]_vars

(* The event loop runs every ready coroutine.                                *)
EngineFairness == WF_vars(Control) /\ \A s \in Steps : WF_vars(Engine(s))

(* Every tool call, request and sleep eventually returns or raises: nothing  *)
(* in the engine bounds them, so this is an assumption about the tools.      *)
AnswerFairness == \A s \in Steps : WF_vars(Answer(s))

FairSpec   == Spec /\ EngineFairness /\ AnswerFairness
EngineSpec == Spec /\ EngineFairness

-----------------------------------------------------------------------------
(* Properties.                                                               *)

(* A step is entered only when every step it depends on has been executed    *)
(* (_get_ready_steps), whatever else its wave contains.                      *)
DependenciesFirst ==
    \A s \in Steps : stepStatus[s] # "pending" => wf.deps[s] \subseteq executed

(* When execute_workflow has returned or raised, none of the coroutines it   *)
(* started is still running, sleeping before a retry, or waiting for parts:  *)
(* gather(return_exceptions=True) leaves no orphan, at both levels.          *)
NoOrphans ==
    pc = "done" =>
        \A s \in Steps :
            /\ phase[s] \notin {"calling", "backoff", "parts"}
            /\ \A i \in 1..MaxParts : partStatus[s][i] # "running"

(* A COMPLETED workflow has a result for every step, and every step either   *)
(* completed or was skipped; a FAILED one has its error set.                 *)
OutcomeIsHonest ==
    /\ status = "completed" =>
           /\ recorded = Steps
           /\ error = "none"
           /\ \A s \in Steps : stepStatus[s] \in {"completed", "skipped"}
    /\ status = "failed" => error # "none"

(* Only steps that completed or were skipped count as executed, so no        *)
(* dependant ever runs on the result of a failure.                           *)
ExecutedSucceeded ==
    /\ recorded = executed
    /\ \A s \in executed : stepStatus[s] \in {"completed", "skipped"}

(* A tool step gives up only after exactly max_attempts calls (or none, when *)
(* it was rejected first), and never makes more (_execute_tool_step).        *)
RetryBudget ==
    \A s \in Steps : wf.kind[s] = "tool" =>
        /\ calls[s] <= wf.attempts[s]
        /\ stepStatus[s] = "failed" => calls[s] \in {0, wf.attempts[s]}
        /\ stepStatus[s] = "completed" /\ wf.attempts[s] > 0 => calls[s] > 0

(* A parallel step completes only if all of its sub-steps did, and a loop    *)
(* that does not continue on errors only if all of its bodies did.           *)
PartsAnswerForStep ==
    \A s \in Steps :
        (/\ stepStatus[s] = "completed"
         /\ \/ wf.kind[s] = "parallel"
            \/ wf.kind[s] = "loop" /\ ~wf.lenient[s])
        => \A i \in PartsOf(s) : partStatus[s][i] = "completed"

(* "Circular dependency detected" at run time is never a false alarm: the    *)
(* validation already excluded cycles, so it can only be reported for a      *)
(* workflow that names an unknown step.                                      *)
NoFalseCycle ==
    error = "circular" => \E s \in Steps : NoStep \in wf.deps[s]

(* What execute_workflow reports is justified, and so is every alarm.        *)
VerdictIsHonest == OutcomeIsHonest /\ NoFalseCycle

(* No step costs more than it may or counts for more than its parts did.     *)
WorkIsAccounted == RetryBudget /\ PartsAnswerForStep

(* A step that has ended never runs again and never changes its status.      *)
StatusSticks ==
    [][\A s \in Steps :
          stepStatus[s] \in {"completed", "failed", "skipped"}
              => stepStatus'[s] = stepStatus[s]]_vars

(* After a failure no further step is entered, except the steps of the same  *)
(* parallel wave, which gather has already scheduled.                        *)
FailStop ==
    [][\A s, f \in Steps :
          (/\ stepStatus[f] = "failed"
           /\ stepStatus[s] = "pending" /\ stepStatus'[s] # "pending")
          => wf.parallel /\ s \in wave /\ f \in wave]_vars

(* The end of a step is final for it and for the steps after a failure.      *)
EndedIsFinal == StatusSticks /\ FailStop

(* Every execution that was started comes to an end: under FairSpec, where   *)
(* every tool answers.  Under EngineSpec, where a tool may stay silent, this *)
(* is what docs/composition-improvements.md:136 promises ("Configurable      *)
(* timeouts for all operations"), but the engine reads neither               *)
(* WorkflowStep.timeout nor WorkflowDefinition.timeout.                      *)
Termination == (status = "running") ~> (status \in {"completed", "failed"})


-----------------------------------------------------------------------------
(* The engine implements what WorkflowPromise promises.                      *)

MarkOf(st) ==
    CASE st = "pending" -> "waiting"
      [] st = "running" -> "active"
      [] st \in {"completed", "skipped"} -> "good"
      [] st = "failed" -> "bad"

OutcomeOf(st) ==
    CASE st = "running" -> "open"
      [] st = "completed" -> "succeeded"
      [] OTHER -> st

Promise == INSTANCE WorkflowPromise WITH
    Graphs  <- {w.deps : w \in Workflows},
    deps    <- wf.deps,
    outcome <- OutcomeOf(status),
    mark    <- [s \in Steps |-> MarkOf(stepStatus[s])]

(* Every behaviour of the engine is one that WorkflowPromise allows: deps    *)
(* before dependants, no end while a step is active, no unjustified failure. *)
KeepsPromise == Promise!Spec
=============================================================================
