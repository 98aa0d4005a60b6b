------------------------- MODULE WorkflowValidation -------------------------
(***************************************************************************)
(* register_workflow of src/metamcp/composition/engine.py: the checks that  *)
(* decide whether a definition enters the registry, with the depth-first    *)
(* search for cycles as the code writes it (two shared sets, visited and    *)
(* rec_stack, and early returns).  A step is what one call of dfs does       *)
(* between two looks at a neighbour; the calls under way are the frames.     *)
(* The properties compare the verdict with the plain definition of a         *)
(* well-formed workflow.                                                    *)
(***************************************************************************)
EXTENDS Integers, SequencesExt, FiniteSets

CONSTANT
    Definitions     \* workflows: ids (a sequence), deps (per position), entry

VARIABLES
    workflow,       \* the definition handed to register_workflow
    verdict,        \* "none", "searching", then "registered" or "refused"
    visited,        \* ids that dfs was called for
    recStack,       \* ids whose call of dfs has not returned
    frames          \* the calls under way: the node, its neighbours to look at

vars == <<workflow, verdict, visited, recStack, frames>>

Positions(w) == DOMAIN w.ids

(* _build_step_graph: a dict, so the last step of a name wins *)
BuildStepGraph(w) ==
    [n \in Range(w.ids) |->
        LET last == CHOOSE i \in Positions(w) :
                        /\ w.ids[i] = n
                        /\ \A j \in Positions(w) : w.ids[j] = n => j <= i
        IN  w.deps[last]]

(* graph.get(node, []), in whatever order the step lists them *)
Neighbors(w, node) ==
    IF node \in Range(w.ids) THEN BuildStepGraph(w)[node] ELSE {}

Init ==
    /\ workflow \in Definitions
    /\ verdict = "none"
    /\ visited = {}
    /\ recStack = {}
    /\ frames = <<>>

WellNamed(w) ==
    /\ Cardinality(Range(w.ids)) = Len(w.ids)
    /\ w.entry \in Range(w.ids)

(* _validate_workflow up to the search; a refusal is the answer "Workflow     *)
(* registration failed"                                                      *)
ValidateWorkflow ==
    /\ verdict = "none"
    /\ verdict' = IF WellNamed(workflow) THEN "searching" ELSE "refused"
    /\ UNCHANGED <<workflow, visited, recStack, frames>>

(* dfs(node) is called from calls *)
Dfs(node, callers) ==
    /\ visited' = visited \cup {node}
    /\ recStack' = recStack \cup {node}
    /\ frames' = Append(callers, [node |-> node, todo |-> Neighbors(workflow, node)])
    /\ UNCHANGED <<workflow, verdict>>

(* mutant: the search starts from the entry point only *)
Roots_entry == {workflow.entry}

(* for node in graph *)
Roots == Range(workflow.ids)

(* the first node that has not been visited *)
SearchFrom(i) ==
    /\ verdict = "searching" /\ frames = <<>>
    /\ workflow.ids[i] \in Roots \ visited
    /\ \A j \in 1..(i - 1) : workflow.ids[j] \notin Roots \ visited
    /\ Dfs(workflow.ids[i], <<>>)

InCall == verdict = "searching" /\ frames # <<>>

(* the current call goes over to its next neighbour *)
Rest(n) == [frames EXCEPT ![Len(frames)].todo = @ \ {n}]

GoesDeeper(n) ==
    /\ InCall /\ n \in Last(frames).todo \ visited
    /\ Dfs(n, Rest(n))

(* return True, through all the calls *)
FindsCycle(n) ==
    /\ InCall /\ n \in Last(frames).todo \cap visited \cap recStack
    /\ verdict' = "refused"
    /\ UNCHANGED <<workflow, visited, recStack, frames>>

Passes(n) ==
    /\ InCall /\ n \in (Last(frames).todo \cap visited) \ recStack
    /\ frames' = Rest(n)
    /\ UNCHANGED <<workflow, verdict, visited, recStack>>

(* mutant: rec_stack is never unwound *)
Unwound_sticky == recStack

Unwound == recStack \ {Last(frames).node}

(* return False *)
Returns ==
    /\ InCall /\ Last(frames).todo = {}
    /\ recStack' = Unwound
    /\ frames' = Front(frames)
    /\ UNCHANGED <<workflow, verdict, visited>>

(* no root is left: the definition enters the registry *)
Registers ==
    /\ verdict = "searching" /\ frames = <<>> /\ Roots \subseteq visited
    /\ verdict' = "registered"
    /\ UNCHANGED <<workflow, visited, recStack, frames>>

Done == verdict \in {"registered", "refused"} /\ UNCHANGED vars

Next ==
    \/ ValidateWorkflow \/ Returns \/ Registers \/ Done
    \/ \E i \in Positions(workflow) : SearchFrom(i)
    \/ InCall /\ \E n \in Last(frames).todo :
        GoesDeeper(n) \/ FindsCycle(n) \/ Passes(n)

Spec == Init /\ [][Next]_vars

-----------------------------------------------------------------------------
(* The reference: a cycle is a set of steps each of which depends on another *)
(* one of the set (the definition WorkflowEngine relies on).                 *)

HasCycle(w) ==
    \E S \in SUBSET Positions(w) :
        /\ S # {}
        /\ \A i \in S : \E j \in S : w.ids[j] \in w.deps[i]

WellFormed(w) ==
    /\ \A i, j \in Positions(w) : i # j => w.ids[i] # w.ids[j]
    /\ \E i \in Positions(w) : w.ids[i] = w.entry
    /\ ~HasCycle(w)

(* No ill-formed workflow is registered: the search for cycles misses none.  *)
RegisteredIsWellFormed == verdict = "registered" => WellFormed(workflow)

(* No well-formed workflow is refused: shared dependencies (diamonds) and    *)
(* unknown ids are not taken for cycles.                                     *)
RefusedIsIllFormed == verdict = "refused" => ~WellFormed(workflow)
=============================================================================
