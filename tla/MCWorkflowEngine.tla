-------------------------- MODULE MCWorkflowEngine --------------------------
(* Small sets of workflows for TLC.                                          *)
EXTENDS WorkflowEngine

Define(deps, parallel, profile) ==
    [deps     |-> deps,
     parallel |-> parallel,
     kind     |-> [s \in Steps |-> profile[s].kind],
     guarded  |-> [s \in Steps |-> profile[s].guarded],
     attempts |-> [s \in Steps |-> profile[s].attempts],
     parts    |-> [s \in Steps |-> profile[s].parts],
     lenient  |-> [s \in Steps |-> profile[s].lenient]]

Profile(kind, guarded, attempts, parts, lenient) ==
    [kind |-> kind, guarded |-> guarded, attempts |-> attempts,
     parts |-> parts, lenient |-> lenient]

PlainTool == Profile("tool", FALSE, 1, 0, FALSE)

(* every dependency graph, with and without an unknown id among the          *)
(* dependencies of the second step; all steps plain tool calls               *)
AllGraphs ==
    {Define([s \in Steps |-> IF s = u THEN d[s] \cup {NoStep} ELSE d[s]],
            p, [s \in Steps |-> PlainTool]) :
        d \in [Steps -> SUBSET Steps], p \in BOOLEAN, u \in {NoStep, 2}}

Profiles ==
    {Profile("tool", FALSE, n, 0, FALSE) : n \in {0, 1, MaxAttempts}} \cup
    {Profile("tool", TRUE, 1, 0, FALSE),
     Profile("single", FALSE, 1, 0, FALSE),
     Profile("condition", FALSE, 1, 0, FALSE),
     Profile("parallel", FALSE, 1, 0, FALSE),
     Profile("parallel", FALSE, 1, MaxParts, FALSE),
     Profile("loop", FALSE, 1, 0, FALSE),
     Profile("loop", FALSE, 1, MaxParts, FALSE),
     Profile("loop", FALSE, 1, MaxParts, TRUE)}

(* plain tool calls, one after the other or side by side *)
ToolChains ==
    {Define([s \in Steps |-> {r \in Steps : r = s - 1}], p,
            [s \in Steps |-> PlainTool]) : p \in BOOLEAN}

(* every mixture of step kinds in the first two steps, independent of each   *)
(* other or one after the other; a tool call waits for both                  *)
AllKinds ==
    {Define([s \in Steps |-> IF s = 2 /\ ~chained THEN {} ELSE 1..(s - 1)], p,
            [s \in Steps |-> IF s <= 2 THEN f[s] ELSE PlainTool]) :
        chained \in BOOLEAN, p \in BOOLEAN, f \in [1..2 -> Profiles]}

GraphsAndKinds == AllGraphs \cup AllKinds
=============================================================================
