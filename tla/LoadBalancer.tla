---------------------------- MODULE LoadBalancer ----------------------------
(***************************************************************************)
(* LoadBalancer and its HealthCheckers (mcp/load_balancer.py): servers are *)
(* added and removed under the lock; start and stop take no lock, and stop *)
(* walks the dictionary of checkers, awaiting the end of each one's task.  *)
(* add_server makes a new checker; one it replaces is left to itself.      *)
(***************************************************************************)
EXTENDS Naturals, FiniteSetsExt

CONSTANTS Ids,
          FailoverThreshold, RecoveryThreshold,
          MaxAdds   \* checkers that are ever made

VARIABLES servers,   \* the ids in LoadBalancer.servers
          running,   \* LoadBalancer._running
          entry,     \* health_checkers: an id's checker and its place in the dictionary
          made,      \* checkers made so far
          checker,   \* task, status and counters of each
          dying,     \* checkers with a cancelled task that has not ended
          removing,  \* the id whose removal holds the lock, or none
          stopping,  \* stop's walk: whether, where, and the size it began with
          streak,    \* of a checker's last outcomes: which, and how many
          disturbed  \* the dictionary or _running changed during a stop, or a removal met a start

vars == <<servers, running, entry, made, checker, dying, removing, stopping, streak, disturbed>>

Checkers == 1..MaxAdds
NoEntry == [checker |-> 0, place |-> 0]
NoStop == [on |-> FALSE, place |-> 0, size |-> 0]
NoChecker == [task |-> "none", status |-> "offline", failures |-> 0, successes |-> 0]
Registered == {i \in Ids : entry[i].checker # 0}
Of(i) == entry[i].checker
Busy(c) == checker[c].task # "none" \/ c \in dying

(* HealthChecker.start and stop, of the checkers in C. *)
Started(C) == [c \in Checkers |-> IF c \in C /\ checker[c].task = "none" THEN [checker[c] EXCEPT !.task = "running"] ELSE checker[c]]
Halted(C) == [c \in Checkers |-> IF c \in C THEN [checker[c] EXCEPT !.task = "none"] ELSE checker[c]]
Dying(C) == dying \cup {c \in C : checker[c].task # "none"}
-----------------------------------------------------------------------------
(* mutant: a checker waits for the next start *)
Added_idle(c) == "none"

(* add_server starts the checker if the balancer runs. *)
Added(c) == IF running THEN "running" ELSE "none"

AddServer(i) ==
  /\ removing = {} /\ made < MaxAdds
  /\ servers' = servers \cup {i}
  /\ made' = made + 1
  /\ checker' = [checker EXCEPT ![made'] = [NoChecker EXCEPT !.task = Added(made')]]
  /\ entry' = [entry EXCEPT ![i] = [checker |-> made', place |-> IF @.checker = 0 THEN made' ELSE @.place]]
  /\ disturbed' = (disturbed \/ stopping.on)
  /\ UNCHANGED <<running, dying, removing, stopping, streak>>

(* remove_server keeps the lock until the task of the checker has ended.   *)
RemoveServer(i) ==
  /\ removing = {} /\ i \in servers
  /\ servers' = servers \ {i}
  /\ checker' = Halted({Of(i)}) /\ dying' = Dying({Of(i)})
  /\ IF Busy(Of(i)) THEN removing' = {i} /\ UNCHANGED entry
                    ELSE entry' = [entry EXCEPT ![i] = NoEntry] /\ UNCHANGED removing
  /\ disturbed' = (disturbed \/ stopping.on)
  /\ UNCHANGED <<running, made, stopping, streak>>

RemovalEnds ==
  /\ \E i \in removing : Of(i) \notin dying /\ entry' = [entry EXCEPT ![i] = NoEntry]
  /\ removing' = {}
  /\ disturbed' = (disturbed \/ stopping.on)
  /\ UNCHANGED <<servers, running, made, checker, dying, stopping, streak>>

Start ==
  /\ ~running
  /\ running' = TRUE
  /\ checker' = Started({Of(i) : i \in Registered})
  /\ disturbed' = (disturbed \/ stopping.on \/ removing # {})
  /\ UNCHANGED <<servers, entry, made, dying, removing, stopping, streak>>

(* The walk of stop from a place on: it goes through the checkers that are *)
(* at rest, and waits for the first that is not.                           *)
Walk(place, size) ==
  LET ahead == {i \in Registered : entry[i].place > place}
      held  == {entry[i].place : i \in {j \in ahead : Busy(Of(j))}}
      upto  == IF held = {} THEN MaxAdds ELSE Min(held)
      C     == {Of(i) : i \in {j \in ahead : entry[j].place <= upto}} IN
  /\ checker' = Halted(C) /\ dying' = Dying(C)
  /\ stopping' = IF held = {} THEN NoStop ELSE [on |-> TRUE, place |-> upto, size |-> size]

Stop ==
  /\ running /\ ~stopping.on
  /\ running' = FALSE
  /\ Walk(0, Cardinality(Registered))
  /\ UNCHANGED <<servers, entry, made, removing, streak, disturbed>>

(* The awaited task has ended; if the dictionary has another size by now,  *)
(* the iteration raises and the checkers after it are not stopped.         *)
StopGoesOn ==
  /\ stopping.on
  /\ \A i \in Registered : entry[i].place = stopping.place => Of(i) \notin dying
  /\ IF Cardinality(Registered) # stopping.size
       THEN stopping' = NoStop /\ UNCHANGED <<checker, dying>>
       ELSE Walk(stopping.place, stopping.size)
  /\ UNCHANGED <<servers, running, entry, made, removing, streak, disturbed>>
-----------------------------------------------------------------------------
Capped(n, most) == IF n > most THEN most ELSE n

(* _handle_success and _handle_failure. *)
HandleSuccess(h) ==
  LET n == Capped(h.successes + 1, RecoveryThreshold) IN
  [h EXCEPT !.successes = n, !.failures = 0,
            !.status = IF n >= RecoveryThreshold THEN "healthy" ELSE @]

(* mutant: the successes are not reset *)
HandleFailure_keeps(h) ==
  LET n == Capped(h.failures + 1, FailoverThreshold) IN
  [h EXCEPT !.failures = n, !.status = IF n >= FailoverThreshold THEN "unhealthy" ELSE @]

HandleFailure(h) ==
  LET n == Capped(h.failures + 1, FailoverThreshold) IN
  [h EXCEPT !.failures = n, !.successes = 0,
            !.status = IF n >= FailoverThreshold THEN "unhealthy" ELSE @]

(* A round of _health_check_loop: a check, of whatever transport, where    *)
(* every error is a failure, and the sleep after it.                       *)
PerformHealthCheck(c) ==
  /\ checker[c].task = "running"
  /\ \E ok \in BOOLEAN :
       /\ checker' = [checker EXCEPT ![c] = IF ok THEN HandleSuccess(@) ELSE HandleFailure(@)]
       /\ streak' = [streak EXCEPT ![c] = [ok |-> ok, length |->
            Capped(IF @.ok = ok THEN @.length + 1 ELSE 1, IF ok THEN RecoveryThreshold ELSE FailoverThreshold)]]
  /\ UNCHANGED <<servers, running, entry, made, dying, removing, stopping, disturbed>>

(* The loop of a cancelled task breaks off. *)
TaskEnds(c) ==
  /\ c \in dying
  /\ dying' = dying \ {c}
  /\ UNCHANGED <<servers, running, entry, made, checker, removing, stopping, streak, disturbed>>
-----------------------------------------------------------------------------
Init ==
  /\ servers = {} /\ running = FALSE /\ made = 0 /\ dying = {} /\ removing = {}
  /\ entry = [i \in Ids |-> NoEntry]
  /\ checker = [c \in Checkers |-> NoChecker]
  /\ stopping = NoStop /\ disturbed = FALSE
  /\ streak = [c \in Checkers |-> [ok |-> TRUE, length |-> 0]]

Next ==
  \/ \E i \in Ids : AddServer(i) \/ RemoveServer(i)
  \/ RemovalEnds \/ Start \/ Stop \/ StopGoesOn
  \/ \E c \in Checkers : PerformHealthCheck(c) \/ TaskEnds(c)

Spec == Init /\ [][Next]_vars /\ \A c \in Checkers : WF_vars(PerformHealthCheck(c))
-----------------------------------------------------------------------------
TypeOK ==
  /\ servers \subseteq Ids /\ removing \subseteq Ids /\ dying \subseteq Checkers
  /\ entry \in [Ids -> [checker : 0..MaxAdds, place : 0..MaxAdds]]
  /\ checker \in [Checkers -> [task : {"none", "running"}, status : {"offline", "healthy", "unhealthy"},
                               failures : 0..FailoverThreshold, successes : 0..RecoveryThreshold]]

(* A server becomes healthy by so many successful checks in a row, and     *)
(* unhealthy by so many failed ones, and in no other way.                  *)
StatusIsEarned == [][\A c \in Checkers : checker[c].status # checker'[c].status =>
    \/ checker'[c].status = "healthy" /\ streak'[c] = [ok |-> TRUE, length |-> RecoveryThreshold]
    \/ checker'[c].status = "unhealthy" /\ streak'[c] = [ok |-> FALSE, length |-> FailoverThreshold]]_vars

(* Whether servers are checked follows start and stop: while the balancer  *)
(* runs every server is, and after a stop that nothing disturbed none is.  *)
ChecksFollowRunning ==
  ~disturbed /\ ~stopping.on => \A i \in Registered \ removing : (checker[Of(i)].task # "none") = running

(* When the balancer keeps running and from some time on all checks        *)
(* succeed, all servers that are checked come to be healthy, and stay so.  *)
HealthComes ==
  LET Checked == {c \in Checkers : checker[c].task # "none"} IN
  <>[](running /\ \A c \in Checked : streak[c].ok) => <>[](\A c \in Checked : checker[c].status = "healthy")
=============================================================================
