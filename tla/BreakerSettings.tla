--------------------------- MODULE BreakerSettings ---------------------------
(***************************************************************************)
(* What the two circuit breakers of the code are configured with, and the   *)
(* bounds under which they are explored.                                    *)
(***************************************************************************)
EXTENDS Integers

CONSTANTS
    Calls,              \* the callers
    FailureThreshold,   \* config.failure_threshold
    SuccessThreshold,   \* config.success_threshold
    RecoveryTimeout,    \* config.recovery_timeout, in ticks
    CountBound,         \* bound: where counters stop
    MaxOperations       \* bound: how often an operator acts on the breaker

ASSUME ThresholdAssumption ==
    /\ FailureThreshold \in Nat \ {0}
    /\ SuccessThreshold \in Nat \ {0}
    /\ RecoveryTimeout \in Nat
    /\ CountBound \in Nat
    /\ FailureThreshold <= CountBound
    /\ SuccessThreshold <= CountBound
    /\ MaxOperations \in Nat

Bump(n) == IF n < CountBound THEN n + 1 ELSE n
=============================================================================
