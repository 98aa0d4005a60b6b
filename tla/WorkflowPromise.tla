--------------------------- MODULE WorkflowPromise ---------------------------
(***************************************************************************)
(* What the execution of a workflow promises, whatever the kinds of its     *)
(* steps and whether waves run in parallel: a step is entered after all the *)
(* steps it depends on have ended well; the execution is declared over only *)
(* when no step is under way; it succeeds when every step ended well, and   *)
(* it fails only with a reason, a step that ended badly or remaining steps  *)
(* of which none can ever be entered.                                       *)
(***************************************************************************)
CONSTANTS
    Steps,      \* the steps of the workflow
    Graphs      \* the possible dependency functions

VARIABLES
    deps,       \* the dependencies of each step
    outcome,    \* "idle", "open", "succeeded" or "failed"
    mark        \* per step: "waiting", "active", "good" or "bad"

vars == <<deps, outcome, mark>>

Init ==
    /\ deps \in Graphs
    /\ outcome = "idle"
    /\ mark = [s \in Steps |-> "waiting"]

Good == {s \in Steps : mark[s] = "good"}

Open ==
    /\ outcome = "idle"
    /\ outcome' = "open"
    /\ UNCHANGED <<deps, mark>>

(* enter a step; it may end at once *)
Enter(s) ==
    /\ outcome = "open"
    /\ mark[s] = "waiting" /\ deps[s] \subseteq Good
    /\ \E m \in {"active", "good", "bad"} : mark' = [mark EXCEPT ![s] = m]
    /\ UNCHANGED <<deps, outcome>>

End(s) ==
    /\ outcome = "open"
    /\ mark[s] = "active"
    /\ \E m \in {"good", "bad"} : mark' = [mark EXCEPT ![s] = m]
    /\ UNCHANGED <<deps, outcome>>

Succeed ==
    /\ outcome = "open"
    /\ Good = Steps
    /\ outcome' = "succeeded"
    /\ UNCHANGED <<deps, mark>>

Fail ==
    /\ outcome = "open"
    /\ \A s \in Steps : mark[s] # "active"
    /\ \/ \E s \in Steps : mark[s] = "bad"
       \/ /\ Good # Steps
          /\ \A s \in Steps : mark[s] = "waiting" => ~(deps[s] \subseteq Good)
    /\ outcome' = "failed"
    /\ UNCHANGED <<deps, mark>>

Next == Open \/ Succeed \/ Fail \/ \E s \in Steps : Enter(s) \/ End(s)

Spec == Init /\ [][Next]_vars
=============================================================================
