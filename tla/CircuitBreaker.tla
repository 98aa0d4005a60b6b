--------------------------- MODULE CircuitBreaker ---------------------------
(***************************************************************************)
(* What both circuit breakers of the code promise: a call is only let       *)
(* through while the circuit is not OPEN, or as the probe that makes it     *)
(* HALF_OPEN; the end of a call may open a closed circuit and decide a      *)
(* half-open one, but never changes an OPEN circuit, whatever calls were    *)
(* in flight when it opened; only an operator closes an OPEN circuit.       *)
(***************************************************************************)
CONSTANT Calls      \* the callers

VARIABLES
    state,          \* "closed", "open" or "half_open"
    inflight        \* the calls that were let through and have not ended

vars == <<state, inflight>>

Init == state = "closed" /\ inflight = {}

Admit(c) ==
    /\ c \notin inflight
    /\ state # "open"
    /\ inflight' = inflight \cup {c}
    /\ UNCHANGED state

Probe(c) ==
    /\ c \notin inflight
    /\ state = "open"
    /\ state' = "half_open"
    /\ inflight' = inflight \cup {c}

Settle(c) ==
    /\ c \in inflight
    /\ inflight' = inflight \ {c}
    /\ <<state, state'>> \in {<<"closed", "closed">>, <<"closed", "open">>,
                              <<"open", "open">>,
                              <<"half_open", "half_open">>,
                              <<"half_open", "open">>,
                              <<"half_open", "closed">>}

Operator == state' \in {"closed", "open"} /\ UNCHANGED inflight

Next == Operator \/ \E c \in Calls : Admit(c) \/ Probe(c) \/ Settle(c)

Spec == Init /\ [][Next]_vars
=============================================================================
