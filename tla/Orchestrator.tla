------------------------------ MODULE Orchestrator ------------------------------
(***************************************************************************)
(* WorkflowOrchestrator of src/metamcp/composition/orchestrator.py and its  *)
(* HTTP handlers in src/metamcp/api/composition.py: which definition an      *)
(* execution runs, what becomes of its result, and what a caller is told.    *)
(* An execution itself (WorkflowEngine) is one step that ends well or badly  *)
(* at any later time.  With "http" every request makes an orchestrator of    *)
(* its own, which is dropped with the response.                              *)
(***************************************************************************)
EXTENDS Integers, FiniteSets

CONSTANTS
    Workflows,      \* workflow ids
    Versions,       \* definitions registered under an id
    MaxExecutions,  \* bound: executions, numbered in the order they start
    MaxRestarts     \* bound: crashes of the process

VARIABLES
    deployment,     \* "library": one orchestrator for all; "http"
    registry,       \* engine.workflows: id -> registered version, 0 if none
    runs,           \* per started execution: workflow, version, status
    history,        \* execution_history: id -> status of the result
    told,           \* per execution: the last status a caller was told
    restarts        \* bound

vars == <<deployment, registry, runs, history, told, restarts>>

Executions == DOMAIN runs

Ended == {"completed", "failed", "cancelled"}

TypeOK ==
    /\ deployment \in {"library", "http"}
    /\ registry \in [Workflows -> Versions \cup {0}]
    /\ \E n \in 0..MaxExecutions :
        /\ runs \in [1..n -> [workflow : Workflows, version : Versions,
                              status : {"running", "completed", "failed", "lost"}]]
        /\ told \in [1..n -> {"nothing", "unknown"} \cup Ended]
    /\ DOMAIN history \subseteq Executions
    /\ \A e \in DOMAIN history : history[e] \in Ended
    /\ restarts \in 0..MaxRestarts

Nothing == [e \in {} |-> "none"]

Init ==
    /\ deployment \in {"library", "http"}
    /\ registry = [w \in Workflows |-> 0]
    /\ runs = [e \in {} |-> 0]
    /\ history = Nothing
    /\ told = Nothing
    /\ restarts = 0

(* get_workflow_orchestrator: what a request leaves in an orchestrator stays *)
(* only when callers share it                                                *)
Kept(new, old) == IF deployment = "library" THEN new ELSE old

RegisterWorkflow(w, v) ==
    /\ registry' = Kept([registry EXCEPT ![w] = v], registry)
    /\ UNCHANGED <<deployment, runs, history, told, restarts>>

DeleteWorkflow(w) ==
    /\ registry[w] # 0
    /\ registry' = [registry EXCEPT ![w] = 0]
    /\ UNCHANGED <<deployment, runs, history, told, restarts>>

(* _validate_execution_request *)
RequestIsValid(w) == registry[w] # 0

(* the request is validated and the definition looked up with no await in    *)
(* between; the execution keeps the definition it found                      *)
ExecuteWorkflow(w) ==
    /\ RequestIsValid(w)
    /\ Cardinality(Executions) < MaxExecutions
    /\ LET e == Cardinality(Executions) + 1
       IN  /\ runs' = [d \in 1..e |->
                        IF d = e THEN [workflow |-> w, version |-> registry[w],
                                       status |-> "running"] ELSE runs[d]]
           /\ told' = [d \in 1..e |-> IF d = e THEN "nothing" ELSE told[d]]
    /\ UNCHANGED <<deployment, registry, history, restarts>>

With(f, e, value) ==
    [d \in DOMAIN f \cup {e} |-> IF d = e THEN value ELSE f[d]]

(* the engine returns a result, which enters the history *)
ExecutionReturns(e) ==
    /\ runs[e].status = "running"
    /\ runs' = [runs EXCEPT ![e].status = "completed"]
    /\ history' = With(history, e, "completed")
    /\ UNCHANGED <<deployment, registry, told, restarts>>

(* the engine raises: the orchestrator raises too, and writes nothing *)
ExecutionRaises(e) ==
    /\ runs[e].status = "running"
    /\ runs' = [runs EXCEPT ![e].status = "failed"]
    /\ UNCHANGED <<deployment, registry, history, told, restarts>>

(* mutant: execute_workflow enters the execution while it runs *)
ActiveExecutions_entered ==
    {e \in Executions : runs[e].status = "running" /\ e \notin DOMAIN history}

(* active_executions: initialised empty; no statement adds to it *)
ActiveExecutions == {}

CancelWorkflow(e) ==
    /\ history' = IF e \in ActiveExecutions
                  THEN With(history, e, "cancelled") ELSE history
    /\ UNCHANGED <<deployment, registry, runs, told, restarts>>

GetWorkflowStatus(e) ==
    /\ told' = [told EXCEPT ![e] =
                    IF e \in DOMAIN history THEN history[e] ELSE "unknown"]
    /\ UNCHANGED <<deployment, registry, runs, history, restarts>>

(* executions that started before the cutoff *)
CleanupOldExecutions(cutoff) ==
    /\ history' = [e \in {d \in DOMAIN history : d >= cutoff} |-> history[e]]
    /\ UNCHANGED <<deployment, registry, runs, told, restarts>>

(* the process dies, and a new one initializes an orchestrator.  It finds    *)
(* the active rows, and storing the first one raises (self._workflows does    *)
(* not exist), which is caught: nothing is registered either way.  shutdown   *)
(* cancels the active executions, of which there are none                     *)
Restart ==
    /\ restarts < MaxRestarts
    /\ restarts' = restarts + 1
    /\ registry' = [w \in Workflows |-> 0]
    /\ history' = Nothing
    /\ runs' = [e \in Executions |->
                    IF runs[e].status = "running"
                    THEN [runs[e] EXCEPT !.status = "lost"] ELSE runs[e]]
    /\ UNCHANGED <<deployment, told>>

(* The handlers of the router call one method each; deletion and execution   *)
(* answer 404 and 400 when it refuses.  GET /executions/active is shadowed by *)
(* GET /executions/{id}, which knows no execution "active"                   *)
HandleRegister(w, v) == RegisterWorkflow(w, v)
HandleDelete(w) == DeleteWorkflow(w)
HandleExecute(w) == ExecuteWorkflow(w)
HandleStatus(e) == GetWorkflowStatus(e)
HandleCancel(e) == CancelWorkflow(e)

Next ==
    \/ Restart
    \/ \E w \in Workflows, v \in Versions : HandleRegister(w, v)
    \/ \E w \in Workflows : HandleDelete(w) \/ HandleExecute(w)
    \/ \E e \in Executions :
        \/ ExecutionReturns(e) \/ ExecutionRaises(e)
        \/ HandleCancel(e) \/ HandleStatus(e) \/ CleanupOldExecutions(e + 1)

Spec == Init /\ [][Next]_vars

-----------------------------------------------------------------------------
(* The history speaks the truth: a result in it is of an execution of this   *)
(* process that ended that way, and nothing runs that this deployment never  *)
(* registered: over HTTP, where each request has a registry of its own,      *)
(* nothing runs at all.                                                      *)
HistoryIsHonest ==
    /\ \A e \in DOMAIN history : runs[e].status = history[e]
    /\ deployment = "http" => Executions = {}

(* What a caller was told of an execution's end stays true: after cleanups,  *)
(* cancellations and crashes the answer may become "unknown", never another  *)
(* end (get_workflow_status).                                                *)
ToldIsFinal ==
    [][\A e \in Executions :
        /\ told[e] \in Ended => told'[e] \in {told[e], "unknown"}
        /\ told[e] \in Ended => runs'[e].status = told[e]]_vars
=============================================================================
