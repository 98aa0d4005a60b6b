------------------------ MODULE UtilsCircuitBreaker ------------------------
(***************************************************************************)
(* CircuitBreaker of src/metamcp/utils/circuit_breaker.py: admission,       *)
(* _on_success and _on_failure each run under the lock, the guarded         *)
(* function runs outside it.  Unlike the other breaker (PerfCircuitBreaker) *)
(* a change of state leaves the counters alone, and a failure opens the     *)
(* circuit only when failure_count has reached the threshold, whether it is *)
(* CLOSED or HALF_OPEN.                                                     *)
(*                                                                         *)
(* Counters stop at CountBound, time at RecoveryTimeout, as there.          *)
(***************************************************************************)
EXTENDS BreakerSettings

NoFailure == -1     \* _last_failure_time is None

VARIABLES
    state,          \* _state
    failures,       \* _failure_count
    successes,      \* _success_count
    sinceFailure,   \* ticks since _last_failure_time, or NoFailure
    inflight,       \* calls between admission and the end of their function
    healthy,        \* the guarded service answers well
    resets,         \* operator resets so far
    \* observers, for the properties only
    trial,          \* successes recorded since the circuit became half open
    streak          \* failures recorded since the last success

observers == <<trial, streak>>
vars == <<state, failures, successes, sinceFailure, inflight, healthy, resets,
          observers>>

TypeOK ==
    /\ state \in {"closed", "open", "half_open"}
    /\ failures \in 0..CountBound
    /\ successes \in 0..CountBound
    /\ sinceFailure \in {NoFailure} \cup 0..RecoveryTimeout
    /\ inflight \subseteq Calls
    /\ healthy \in BOOLEAN
    /\ resets \in 0..MaxOperations
    /\ trial \in 0..CountBound
    /\ streak \in 0..CountBound

Init ==
    /\ state = "closed"
    /\ failures = 0
    /\ successes = 0
    /\ sinceFailure = NoFailure
    /\ inflight = {}
    /\ healthy = TRUE
    /\ resets = 0
    /\ trial = 0
    /\ streak = 0

Admit(c) ==
    /\ c \notin inflight
    /\ state # "open"
    /\ inflight' = inflight \cup {c}
    /\ UNCHANGED <<state, failures, successes, sinceFailure, healthy, resets,
                   observers>>

ShouldAttemptReset ==
    sinceFailure # NoFailure /\ sinceFailure >= RecoveryTimeout

Probe(c) ==
    /\ c \notin inflight
    /\ state = "open" /\ ShouldAttemptReset
    /\ state' = "half_open"
    /\ trial' = 0
    /\ inflight' = inflight \cup {c}
    /\ UNCHANGED <<failures, successes, sinceFailure, healthy, resets, streak>>

(* mutant: successes close the circuit whatever its state *)
OnTrial_always == TRUE

OnTrial == state = "half_open"

(* mutant: failure_count is not cleared *)
Forgiven_not == failures

Forgiven == 0

(* _on_success counts in every state, and closes a half-open circuit *)
OnSuccess(c) ==
    LET counted == Bump(successes)
        closing == OnTrial /\ counted >= SuccessThreshold
    IN  /\ c \in inflight
        /\ inflight' = inflight \ {c}
        /\ failures' = Forgiven
        /\ streak' = 0
        /\ trial' = Bump(trial)
        /\ state' = IF closing THEN "closed" ELSE state
        /\ successes' = IF closing THEN 0 ELSE counted
        /\ UNCHANGED <<sinceFailure, healthy, resets>>

(* mutant: last_failure_time is not taken *)
Stamp_not == sinceFailure

Stamp == 0

(* mutant: a value that is not of the enumeration *)
Tripped_typo == IF Bump(failures) >= FailureThreshold THEN "opened" ELSE state

Tripped == IF Bump(failures) >= FailureThreshold THEN "open" ELSE state

OnFailure(c) ==
    /\ c \in inflight /\ ~healthy
    /\ inflight' = inflight \ {c}
    /\ streak' = Bump(streak)
    /\ failures' = Bump(failures)
    /\ sinceFailure' = Stamp
    /\ state' = Tripped
    /\ UNCHANGED <<successes, healthy, resets, trial>>

(* another exception, or the caller was cancelled: neither handler runs *)
Escape(c) ==
    /\ c \in inflight /\ ~healthy
    /\ inflight' = inflight \ {c}
    /\ UNCHANGED <<state, failures, successes, sinceFailure, healthy, resets,
                   observers>>

Reset ==
    /\ resets < MaxOperations
    /\ resets' = resets + 1
    /\ state' = "closed"
    /\ failures' = 0
    /\ successes' = 0
    /\ sinceFailure' = NoFailure
    /\ UNCHANGED <<inflight, healthy, observers>>

Tick ==
    /\ sinceFailure \in 0..(RecoveryTimeout - 1)
    /\ sinceFailure' = sinceFailure + 1
    /\ UNCHANGED <<state, failures, successes, inflight, healthy, resets,
                   observers>>

(* the guarded service breaks down or recovers (environment) *)
ServiceChanges ==
    /\ healthy' = ~healthy
    /\ UNCHANGED <<state, failures, successes, sinceFailure, inflight, resets,
                   observers>>

Next ==
    \/ \E c \in Calls : Admit(c) \/ Probe(c)
                           \/ OnSuccess(c) \/ OnFailure(c) \/ Escape(c)
    \/ Reset \/ Tick \/ ServiceChanges

Spec == Init /\ [][Next]_vars

(* Time passes, callers keep calling, and the guarded function ends.         *)
Fairness ==
    /\ WF_vars(Tick)
    /\ \A c \in Calls : /\ WF_vars(Admit(c) \/ Probe(c))
                        /\ WF_vars(OnSuccess(c) \/ OnFailure(c) \/ Escape(c))

FairSpec == Spec /\ Fairness

-----------------------------------------------------------------------------
(* Properties.                                                               *)

(* A circuit opens only after failure_threshold failures with no success     *)
(* recorded in between, late answers included.                               *)
OpensAfterFailures ==
    [][state # "open" /\ state' = "open" => streak' >= FailureThreshold]_vars

(* An OPEN circuit always has a last failure time: reset() clears both, so   *)
(* that no circuit is left OPEN with no recovery to wait for.                *)
OpenHasFailureTime == state = "open" => sinceFailure # NoFailure

(* A circuit never stays open or half open over a service that has recovered *)
(* for good ("Automatic circuit recovery", developer-guide/architecture.md). *)
Recovers == <>[]healthy => <>[](state = "closed")

(* "success_threshold: Number of successes to close circuit again": a        *)
(* half-open circuit closes by itself only after so many successes of its    *)
(* trial.  The successes of the last CLOSED phase are still counted.         *)
ClosesAfterTrial ==
    [][state = "half_open" /\ state' = "closed" /\ resets' = resets
          => trial + 1 >= SuccessThreshold]_vars

Promise == INSTANCE CircuitBreaker

(* The breaker implements what CircuitBreaker promises: no admission while   *)
(* OPEN, and no late answer that changes an OPEN circuit.                    *)
KeepsPromise == Promise!Spec
=============================================================================
