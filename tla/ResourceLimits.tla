---------------------------- MODULE ResourceLimits ----------------------------
(***************************************************************************)
(* ResourceLimitManager of src/metamcp/security/resource_limits.py: callers *)
(* start and end executions through the HTTP API and report their use of    *)
(* resources; a monitor sweeps over the active ones, oldest first, and      *)
(* interrupts those that exceed a hard limit of theirs.                     *)
(*                                                                         *)
(* A sweep runs without an await: while it is under way nothing else        *)
(* happens.  A limit may be null (the API takes int | None); comparing with *)
(* it raises, which ends the sweep.  Ids are numbered in the order of their *)
(* start, which is the order of the dictionary.                             *)
(***************************************************************************)
EXTENDS Integers, FiniteSets

CONSTANTS
    MaxExecutions,  \* bound: how many executions are started
    Users,
    Limits          \* values of concurrent_executions_hard

Ids == 1..MaxExecutions

VARIABLES
    started,        \* how many executions were started
    active,         \* active_executions: the contexts by id
    history,        \* how often execution_history holds an execution
    monitor,        \* "off", "asleep", "sweeping" or "ending" (cancelled)
    sweep           \* the executions the sweep under way has still to check

vars == <<started, active, history, monitor, sweep>>

(* what the limits look at: "over" says that a hard limit other than the one *)
(* on concurrent executions is exceeded, "null" which limits have a null     *)
ExecutionContext ==
    [user : Users, limit : Limits, null : {"none", "soft", "hard"},
     over : BOOLEAN]

TypeOK ==
    /\ started \in 0..MaxExecutions
    /\ DOMAIN active \subseteq 1..started
    /\ active \in [DOMAIN active -> ExecutionContext]
    /\ history \in [Ids -> Nat]
    /\ monitor \in {"off", "asleep", "sweeping", "ending"}
    /\ sweep \subseteq DOMAIN active
    /\ sweep # {} => monitor = "sweeping"

Init ==
    /\ started = 0
    /\ active = [e \in {} |-> {}]
    /\ history = [e \in Ids |-> 0]
    /\ monitor = "off"
    /\ sweep = {}

Idle == monitor # "sweeping"

StartExecution(u, n, null) ==
    /\ started < MaxExecutions
    /\ started' = started + 1
    /\ active' = [e \in DOMAIN active \cup {started + 1} |->
                     IF e \in DOMAIN active THEN active[e]
                     ELSE [user |-> u, limit |-> n, null |-> null,
                           over |-> FALSE]]
    /\ UNCHANGED <<history, monitor, sweep>>

Without_still(e) == active      \* MUTANT: the entry is not deleted

Without(e) == [d \in DOMAIN active \ {e} |-> active[d]]

(* end_execution *)
EndExecution(e) ==
    /\ e \in DOMAIN active
    /\ active' = Without(e)
    /\ history' = [history EXCEPT ![e] = @ + 1]

(* the caller reports its use of resources, or execution time runs out *)
UpdateMetrics(e) ==
    /\ e \in DOMAIN active
    /\ \E b \in BOOLEAN : active' = [active EXCEPT ![e].over = b]
    /\ UNCHANGED <<started, history, monitor, sweep>>

(* the handlers of the HTTP API that change something: start, end (also of   *)
(* an interrupted execution) and metrics                                     *)
Request ==
    /\ Idle
    /\ \/ \E u \in Users, n \in Limits, null \in {"none", "soft", "hard"} :
              StartExecution(u, n, null)
       \/ \E e \in Ids : EndExecution(e) /\ UNCHANGED <<started, monitor, sweep>>
       \/ \E e \in Ids : UpdateMetrics(e)

-----------------------------------------------------------------------------
(* The monitor.                                                              *)

Initialize ==
    /\ monitor = "off"
    /\ monitor' = "asleep"
    /\ UNCHANGED <<started, active, history, sweep>>

(* list(self.active_executions.items()) *)
BeginSweep ==
    /\ monitor = "asleep"
    /\ monitor' = "sweeping"
    /\ sweep' = DOMAIN active
    /\ UNCHANGED <<started, active, history>>

Oldest(e) == e \in sweep /\ \A d \in sweep : e <= d

Rivals(e) == {d \in DOMAIN active : active[d].user = active[e].user}

(* MUTANT: the execution itself is not counted *)
TooMany_others(e) == Cardinality(Rivals(e) \ {e}) > active[e].limit

TooMany(e) == Cardinality(Rivals(e)) > active[e].limit

(* MUTANT: only the last of the checkers counts *)
Exceeds_lastOnly(e) == active[e].null # "hard" /\ TooMany(e)

(* check_hard_limits reports a violation *)
Exceeds(e) == active[e].null # "hard" /\ (active[e].over \/ TooMany(e))

(* a comparison with None in check_hard_limits, or in check_soft_limits of   *)
(* an execution that was not interrupted                                     *)
Raises(e) ==
    \/ active[e].null = "hard"
    \/ active[e].null = "soft" /\ ~Exceeds(e)

StillToCheck_same(e) == sweep   \* MUTANT: the list is not a copy

StillToCheck(e) == sweep \ {e}

Interrupt(e) ==
    /\ Exceeds(e)
    /\ EndExecution(e)
    /\ sweep' = StillToCheck(e)
    /\ UNCHANGED <<started, monitor>>

Spare(e) ==
    /\ ~Exceeds(e) /\ ~Raises(e)
    /\ sweep' = StillToCheck(e)
    /\ UNCHANGED <<started, active, history, monitor>>

(* the exception leaves the loop over the executions *)
SweepRaises(e) ==
    /\ Raises(e)
    /\ monitor' = "asleep"
    /\ sweep' = {}
    /\ UNCHANGED <<started, active, history>>

EndSweep ==
    /\ monitor = "sweeping" /\ sweep = {}
    /\ monitor' = "asleep"
    /\ UNCHANGED <<started, active, history, sweep>>

(* shutdown() cancels the monitor, which is asleep, and waits for it *)
Shutdown ==
    /\ monitor = "asleep"
    /\ monitor' = "ending"
    /\ UNCHANGED <<started, active, history, sweep>>

ShutdownEnds ==
    /\ monitor = "ending"
    /\ monitor' = "off"
    /\ UNCHANGED <<started, active, history, sweep>>

MonitorStep ==
    \/ BeginSweep \/ EndSweep
    \/ \E e \in Ids : Oldest(e) /\ (Interrupt(e) \/ Spare(e) \/ SweepRaises(e))

Next == Request \/ Initialize \/ MonitorStep \/ Shutdown \/ ShutdownEnds

Spec == Init /\ [][Next]_vars

(* the monitor's task is scheduled by the event loop *)
FairSpec == Spec /\ WF_vars(MonitorStep)

-----------------------------------------------------------------------------
(* Properties.                                                               *)

(* What a sweep has spared is within its limits and stays so until the end   *)
(* of the sweep: the count of a user's executions is taken anew for each of  *)
(* them, while older ones are being interrupted.                             *)
SweepSettles ==
    monitor = "sweeping" =>
        \A e \in DOMAIN active \ sweep :
            /\ ~active[e].over
            /\ Cardinality({d \in DOMAIN active :
                               active[d].user = active[e].user})
                 <= active[e].limit

(* Every execution ever started is active or archived once, whoever ends it: *)
(* its caller, an operator or the monitor.                                   *)
OneRecord ==
    \A e \in Ids :
        history[e] = IF e <= started /\ e \notin DOMAIN active THEN 1 ELSE 0

(* What the monitor leaves alone is within its limits, and what anybody ends  *)
(* is recorded.                                                              *)
ExecutionsAccounted == SweepSettles /\ OneRecord

(* An execution that stays over a hard limit does not stay active while the  *)
(* monitor runs, unless an execution with a null limit, not younger, ends    *)
(* every sweep before it.                                                    *)
Blocked(e) == \E d \in DOMAIN active : d <= e /\ active[d].null # "none"

Enforced ==
    \A e \in Ids :
        (e \in DOMAIN active /\ active[e].over) ~>
            \/ e \notin DOMAIN active \/ ~active[e].over
            \/ Blocked(e) \/ monitor \in {"off", "ending"}
=============================================================================
