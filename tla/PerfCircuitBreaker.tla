------------------------- MODULE PerfCircuitBreaker -------------------------
(***************************************************************************)
(* CircuitBreaker of src/metamcp/performance/circuit_breaker.py, used by    *)
(* concurrent callers through call, call_async or context.  There is no     *)
(* lock: admission, _on_success and _on_failure each run without an await,  *)
(* and the guarded function runs between them, so a call may end in another *)
(* state of the circuit than the one that let it through.                   *)
(*                                                                         *)
(* Counters are compared with their thresholds only, so they stop at        *)
(* CountBound; time is the number of ticks since the last failure, which    *)
(* stops at RecoveryTimeout.                                                *)
(***************************************************************************)
EXTENDS BreakerSettings

VARIABLES
    state,          \* self.state
    failures,       \* self.failure_count
    successes,      \* self.success_count
    sinceFailure,   \* ticks since last_failure_time (0 at start: long ago)
    inflight,       \* calls between admission and the end of their function
    healthy,        \* the guarded service answers well
    forced,         \* operator actions so far
    \* observers, for the properties only
    trial,          \* successes recorded since the circuit became half open
    streak,         \* failures recorded since the last success
    sinceOpen       \* ticks since the circuit opened

observers == <<trial, streak, sinceOpen>>
vars == <<state, failures, successes, sinceFailure, inflight, healthy, forced,
          observers>>

States == {"closed", "open", "half_open"}

TypeOK ==
    /\ state \in States
    /\ failures \in 0..CountBound
    /\ successes \in 0..CountBound
    /\ sinceFailure \in 0..RecoveryTimeout
    /\ inflight \subseteq Calls
    /\ healthy \in BOOLEAN
    /\ forced \in 0..MaxOperations
    /\ trial \in 0..CountBound
    /\ streak \in 0..CountBound
    /\ sinceOpen \in 0..RecoveryTimeout

Init ==
    /\ state = "closed"
    /\ failures = 0
    /\ successes = 0
    /\ sinceFailure = RecoveryTimeout
    /\ inflight = {}
    /\ healthy = TRUE
    /\ forced = 0
    /\ trial = 0
    /\ streak = 0
    /\ sinceOpen = 0

-----------------------------------------------------------------------------
(* The transitions; each does nothing when the state is already reached.     *)

(* mutant: another value than that of the enumeration *)
TransitionToOpen_typo ==
    /\ state # "open"
    /\ state' = "opened"
    /\ successes' = 0
    /\ sinceOpen' = 0

TransitionToOpen ==
    /\ state # "open"
    /\ state' = "open"
    /\ successes' = 0
    /\ sinceOpen' = 0

(* mutant: the counters survive the transition *)
TransitionToHalfOpen_keep ==
    /\ state' = "half_open"
    /\ trial' = 0
    /\ UNCHANGED <<failures, successes>>

TransitionToHalfOpen ==
    /\ state' = "half_open"
    /\ failures' = 0
    /\ successes' = 0
    /\ trial' = 0

TransitionToClosed ==
    /\ state # "closed"
    /\ state' = "closed"
    /\ failures' = 0
    /\ successes' = 0

-----------------------------------------------------------------------------
(* call, call_async, context.                                                *)

Admit(c) ==
    /\ c \notin inflight
    /\ state # "open"
    /\ inflight' = inflight \cup {c}
    /\ UNCHANGED <<state, failures, successes, sinceFailure, healthy, forced,
                   observers>>

(* mutant: the recovery timeout is not waited for *)
ShouldAttemptReset_now == state = "open"

ShouldAttemptReset == state = "open" /\ sinceFailure >= RecoveryTimeout

Probe(c) ==
    /\ c \notin inflight
    /\ ShouldAttemptReset
    /\ TransitionToHalfOpen
    /\ inflight' = inflight \cup {c}
    /\ UNCHANGED <<sinceFailure, healthy, forced, streak, sinceOpen>>

(* mutant: a success counts towards closing unless the circuit is closed *)
OnTrial_open == state # "closed"

OnTrial == state = "half_open"

(* mutant: successes are not counted *)
Counted_not == successes

Counted == Bump(successes)

(* mutant: _on_success forgets failure_count *)
Forgiven_not == failures

Forgiven == IF state = "closed" THEN 0 ELSE failures

(* the function returned: _on_success *)
OnSuccess(c) ==
    /\ c \in inflight
    /\ inflight' = inflight \ {c}
    /\ streak' = 0
    /\ \/ /\ OnTrial /\ Counted >= SuccessThreshold
          /\ TransitionToClosed
          /\ UNCHANGED trial
       \/ /\ OnTrial /\ Counted < SuccessThreshold
          /\ successes' = Counted
          /\ trial' = Bump(trial)
          /\ UNCHANGED <<state, failures>>
       \/ /\ ~OnTrial
          /\ successes' = Counted
          /\ failures' = Forgiven
          /\ UNCHANGED <<state, trial>>
    /\ UNCHANGED <<sinceFailure, healthy, forced, sinceOpen>>

(* the function raised an expected exception: _on_failure *)
OnFailure(c) ==
    /\ c \in inflight /\ ~healthy
    /\ inflight' = inflight \ {c}
    /\ streak' = Bump(streak)
    /\ failures' = Bump(failures)
    /\ sinceFailure' = 0
    /\ \/ /\ \/ state = "closed" /\ Bump(failures) >= FailureThreshold
             \/ state = "half_open"
          /\ TransitionToOpen
       \/ /\ \/ state = "closed" /\ Bump(failures) < FailureThreshold
             \/ state = "open"
          /\ UNCHANGED <<state, successes, sinceOpen>>
    /\ UNCHANGED <<healthy, forced, trial>>

(* another exception, or the caller was cancelled: neither handler runs *)
Escape(c) ==
    /\ c \in inflight /\ ~healthy
    /\ inflight' = inflight \ {c}
    /\ UNCHANGED <<state, failures, successes, sinceFailure, healthy, forced,
                   observers>>

Reset ==
    /\ forced < MaxOperations
    /\ forced' = forced + 1
    /\ TransitionToClosed
    /\ UNCHANGED <<sinceFailure, inflight, healthy, observers>>

ForceOpen ==
    /\ forced < MaxOperations
    /\ forced' = forced + 1
    /\ TransitionToOpen
    /\ UNCHANGED <<failures, sinceFailure, inflight, healthy, trial, streak>>

Tick ==
    LET later(n) == IF n < RecoveryTimeout THEN n + 1 ELSE n
    IN  /\ sinceFailure < RecoveryTimeout \/ sinceOpen < RecoveryTimeout
        /\ sinceFailure' = later(sinceFailure)
        /\ sinceOpen' = later(sinceOpen)
        /\ UNCHANGED <<state, failures, successes, inflight, healthy, forced,
                       trial, streak>>

(* the guarded service breaks down or recovers (environment) *)
ServiceChanges ==
    /\ healthy' = ~healthy
    /\ UNCHANGED <<state, failures, successes, sinceFailure, inflight, forced,
                   observers>>

Next ==
    \/ \E c \in Calls : Admit(c) \/ Probe(c)
                           \/ OnSuccess(c) \/ OnFailure(c) \/ Escape(c)
    \/ Reset \/ ForceOpen \/ Tick \/ ServiceChanges

Spec == Init /\ [][Next]_vars

(* Time passes, callers keep calling, and the guarded function ends.         *)
Fairness ==
    /\ WF_vars(Tick)
    /\ \A c \in Calls : /\ WF_vars(Admit(c) \/ Probe(c))
                        /\ WF_vars(OnSuccess(c) \/ OnFailure(c) \/ Escape(c))

FairSpec == Spec /\ Fairness

-----------------------------------------------------------------------------
(* Properties.                                                               *)

(* The circuit closes by itself only after success_threshold successes       *)
(* recorded since it became half open: successes counted before do not help. *)
ClosesAfterTrial ==
    [][state = "half_open" /\ state' = "closed" /\ forced' = forced
          => trial + 1 >= SuccessThreshold]_vars

(* A closed circuit opens by itself only after failure_threshold failures    *)
(* with no success recorded in between, late answers included.               *)
OpensAfterFailures ==
    [][state = "closed" /\ state' = "open" /\ forced' = forced
          => streak' >= FailureThreshold]_vars

(* Every change of an undisturbed circuit is earned by the calls it counts.   *)
TransitionsAreEarned == ClosesAfterTrial /\ OpensAfterFailures

(* "OPEN: Failing, all requests are rejected immediately": a circuit that    *)
(* opened by itself lets no call through for recovery_timeout.  (After       *)
(* force_open it may: that leaves last_failure_time as it was.)              *)
OpenRejects ==
    [][state = "open" /\ forced = 0 /\ inflight' \ inflight # {}
          => sinceOpen >= RecoveryTimeout]_vars

(* A circuit never stays open or half open over a service that has recovered *)
(* for good ("Automatic circuit recovery", developer-guide/architecture.md). *)
Recovers == <>[]healthy => <>[](state = "closed")

Promise == INSTANCE CircuitBreaker

(* The breaker implements what CircuitBreaker promises: no admission while   *)
(* OPEN, and no late answer that changes an OPEN circuit.                    *)
KeepsPromise == Promise!Spec
=============================================================================
