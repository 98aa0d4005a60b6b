------------------------------ MODULE MCWorkflows ------------------------------
(***************************************************************************)
(* The composition subsystem.  The engine, the registration check, the table *)
(* of workflows, the orchestrator and the second interpreter of steps share   *)
(* no state, so every interleaving of them projects to a behaviour of each.   *)
(* A behaviour here is of one of them, the subject; the others rest in one    *)
(* initial state.                                                           *)
(***************************************************************************)
EXTENDS MCWorkflowEngine, Sequences

CONSTANTS
    i1, i2, c1, c2, WorkflowIds, Versions, Clients, MaxExecutions, MaxRestarts,
    StepIds,        \* what a definition may name
    Definitions     \* the definitions handed to register_workflow

(* a definition lists steps by id, each with the ids that it depends on      *)
ASSUME DefinitionsAssumption ==
    \A w \in Definitions :
        w.ids \in Seq(StepIds) /\ w.deps \in [DOMAIN w.ids -> SUBSET StepIds]

(* 0 stands for no version                                                   *)
ASSUME VersionsAssumption == 0 \notin Versions
ASSUME BoundsAssumption   == MaxExecutions \in Nat /\ MaxRestarts \in Nat

VARIABLES
    subject,
    submitted, verdict, visited, recStack, frames,
    rows, job,
    deployment, registry, runs, history, told, restarts,
    step, unitStatus, unit

(* three steps over the ids 1 to 3; id 4, of no step, may be the entry point  *)
(* or a dependency of the second                                             *)
SmallDefinitions ==
    {[ids |-> names, deps |-> [d EXCEPT ![2] = @ \cup u], entry |-> e] :
        names \in {<<1, 2, 3>>, <<3, 1, 2>>, <<2, 2, 1>>},
        d \in [1..3 -> SUBSET (1..3)], u \in {{}, {4}}, e \in {1, 4}}

(* what a step calls, any of which may lack a tool; a loop has one body       *)
Callers(s) ==
    CASE s.kind = "tool" -> {0}
      [] s.kind \in {"parallel", "loop"} -> 1..s.parts
      [] OTHER -> {}

SmallSteps ==
    {s \in [kind : {"tool", "single", "parallel", "mistyped", "loop", "unknown"},
            parts : 0..MaxParts, attempts : 0..MaxAttempts, timed : BOOLEAN, lenient : BOOLEAN,
            unnamed : SUBSET (0..MaxParts)] :
        /\ s.unnamed \subseteq Callers(s)
        /\ s.kind = "loop" => s.unnamed \in {{}, Callers(s)}}

Validation ==
    INSTANCE WorkflowValidation WITH workflow <- submitted
Persistence == INSTANCE WorkflowPersistence WITH Workflows <- WorkflowIds
Orchestrator == INSTANCE Orchestrator WITH Workflows <- WorkflowIds
Executor == INSTANCE WorkflowExecutor WITH Steps <- SmallSteps, status <- unitStatus

validationVars == <<submitted, verdict, visited, recStack, frames>>
storeVars == <<rows, job>>
orchestratorVars == <<deployment, registry, runs, history, told, restarts>>
executorVars == <<step, unitStatus, unit>>
workflowsVars ==
    <<subject, vars, validationVars, storeVars, orchestratorVars, executorVars>>

Subject(s) == subject = s /\ UNCHANGED subject

EngineMoves(A) ==
    /\ Subject("engine")
    /\ A
    /\ UNCHANGED <<validationVars, storeVars, orchestratorVars, executorVars>>

ValidationStep ==
    /\ Subject("validation")
    /\ Validation!Next
    /\ UNCHANGED <<vars, storeVars, orchestratorVars, executorVars>>

StoreStep ==
    /\ Subject("store")
    /\ Persistence!StoreNext \/ Persistence!StoreRestarts
    /\ UNCHANGED <<vars, validationVars, orchestratorVars, executorVars>>

OrchestratorStep ==
    /\ Subject("orchestrator")
    /\ Orchestrator!Next
    /\ UNCHANGED <<vars, validationVars, storeVars, executorVars>>

ExecutorMoves(A) ==
    /\ Subject("executor")
    /\ A
    /\ UNCHANGED <<vars, validationVars, storeVars, orchestratorVars>>

(* what a part that rests starts with, fixed *)
RestingWorkflow == Define([s \in Steps |-> {}], FALSE, [s \in Steps |-> PlainTool])
RestingDefinition == CHOOSE w \in Definitions : TRUE
RestingStep ==
    [kind |-> "tool", parts |-> 0, attempts |-> 0, timed |-> FALSE, lenient |-> FALSE,
     unnamed |-> {}]

WorkflowsInit ==
    /\ subject \in {"engine", "validation", "store", "orchestrator", "executor"}
    /\ Init
    /\ subject # "engine" => wf = RestingWorkflow
    /\ Executor!Init
    /\ subject # "executor" => step = RestingStep
    /\ Orchestrator!Init
    /\ subject # "orchestrator" => deployment = "http"
    /\ Persistence!StoreInit
    /\ Validation!Init
    /\ subject # "validation" => submitted = RestingDefinition

WorkflowsNext ==
    \/ EngineMoves(Next)
    \/ ValidationStep
    \/ StoreStep
    \/ OrchestratorStep
    \/ ExecutorMoves(Executor!Next)

(* The fairness of FairSpec and of the executor: see their modules.          *)
WorkflowsFairness ==
    /\ WF_vars(subject = "engine" /\ Control)
    /\ \A s \in Steps :
        /\ WF_vars(subject = "engine" /\ Engine(s))
        /\ WF_vars(subject = "engine" /\ Answer(s))
    /\ WF_executorVars(
         subject = "executor" /\ (Executor!ExecuteStep \/ Executor!StepEnds))
    /\ \A u \in Executor!Units :
        WF_executorVars(
          subject = "executor" /\ (Executor!CallTimesOut(u) \/ Executor!RetryCall(u)))

WorkflowsSpec == WorkflowsInit /\ [][WorkflowsNext]_workflowsVars /\ WorkflowsFairness

-----------------------------------------------------------------------------
(* The properties of the parts, under the names of this module.              *)

(* RegisteredIsWellFormed and RefusedIsIllFormed of WorkflowValidation.      *)
RegistrationIsExact ==
    Validation!RegisteredIsWellFormed /\ Validation!RefusedIsIllFormed

(* HistoryIsHonest of Orchestrator and LoopIsHonest of WorkflowExecutor.     *)
ReportsAreHonest == Orchestrator!HistoryIsHonest /\ Executor!LoopIsHonest

(* Answers hold: of the table of workflows, which implements WorkflowStore,   *)
(* and ToldIsFinal of Orchestrator.                                          *)
AnswersHold == Persistence!StoreKeepsPromise /\ Orchestrator!ToldIsFinal

(* Steps of the executor that have a timeout end, whatever their tools do:   *)
(* every call is cut off and retries are counted.                            *)
TimedStepsEnd ==
    subject = "executor" /\ step.timed => <>(unitStatus \in {"completed", "failed"})

(* Both interpreters come to an end, each under its own fairness.            *)
ExecutionsEnd == Termination /\ TimedStepsEnd
=============================================================================
