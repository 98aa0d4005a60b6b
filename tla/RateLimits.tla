------------------------------ MODULE RateLimits ------------------------------
(***************************************************************************)
(* The three middlewares that limit requests, around the handler of the     *)
(* application: "unified" (src/metamcp/utils/rate_limiter.py) and "security" *)
(* (src/metamcp/security/middleware.py), whose counter of a client is a key  *)
(* in Redis shared by all worker processes, and "strategy"                   *)
(* (src/metamcp/security/rate_limiting.py), whose verdict is RateLimiter's.   *)
(* The lock of the unified limiter is per process; INCR, EXPIRE and TTL are   *)
(* separate commands, and the process or Redis may fail between them.         *)
(***************************************************************************)
EXTENDS Integers, FiniteSets

CONSTANTS
    Requests,       \* the requests of one client
    Limit,          \* rate_limit_requests
    Window,         \* rate_limit_window, in ticks
    MaxWindows      \* bound: windows of the clock

VARIABLES
    variant,        \* which middleware is installed
    clock,          \* ticks
    counter,        \* the client's key: value, ttl (Forever: none), name
    request,        \* per request: where it is and what INCR answered
    handled,        \* how often the handler ran for a request
    \* observers
    passed,        \* requests let through by this counter
    lost            \* an EXPIRE was never sent

vars == <<variant, clock, counter, request, handled, passed, lost>>

Forever == -1
Variants == {"unified", "security", "strategy"}
Over == {"denied", "answered", "raised", "gone"}

TypeOK ==
    /\ variant \in Variants
    /\ clock \in 0..(MaxWindows * Window)
    /\ counter \in [value : 0..Cardinality(Requests), ttl : {Forever} \cup 1..Window,
                    name : 0..(MaxWindows * Window)]
    /\ request \in [Requests ->
            [pc : {"new", "first", "counted", "calling", "again"} \cup Over,
             count : 0..Cardinality(Requests), key : 0..(MaxWindows * Window)]]
    /\ handled \in [Requests -> 0..2]
    /\ passed \in 0..Cardinality(Requests)
    /\ lost \in BOOLEAN

(* no key; a name is the number of keys before it *)
Unset(name) == [value |-> 0, ttl |-> Forever, name |-> name]

Init ==
    /\ variant \in Variants
    /\ clock = 0
    /\ counter = Unset(0)
    /\ request = [r \in Requests |-> [pc |-> "new", count |-> 0, key |-> 0]]
    /\ handled = [r \in Requests |-> 0]
    /\ passed = 0
    /\ lost = FALSE

At(r, pc) == request[r].pc = pc
Goes(r, pc) == request' = [request EXCEPT ![r].pc = pc]

(* mutant: the first request of a window is taken to be number 0 *)
FirstOfWindow_zero(n) == n = 0

FirstOfWindow(n) == n = 1

(* INCR *)
Counts(r) ==
    LET n == counter.value + 1
    IN  /\ At(r, "new") /\ variant # "strategy"
        /\ counter' = [counter EXCEPT !.value = n]
        /\ request' = [request EXCEPT
                ![r] = [pc |-> IF FirstOfWindow(n) THEN "first" ELSE "counted",
                        count |-> n, key |-> counter.name]]
        /\ UNCHANGED <<variant, clock, handled, passed, lost>>

(* EXPIRE, of the key that was counted *)
Expires(r) ==
    /\ At(r, "first")
    /\ counter' = IF request[r].key = counter.name
                  THEN [counter EXCEPT !.ttl = Window] ELSE counter
    /\ Goes(r, "counted")
    /\ UNCHANGED <<variant, clock, handled, passed, lost>>

(* mutant: one too many *)
Allowed_plusOne(n) == n <= Limit + 1

Allowed(n) == n <= Limit

(* TTL does not change the verdict *)
Decides(r) ==
    /\ At(r, "counted")
    /\ Goes(r, IF Allowed(request[r].count) THEN "calling" ELSE "denied")
    /\ passed' = IF Allowed(request[r].count) /\ request[r].key = counter.name
                  THEN passed + 1 ELSE passed
    /\ UNCHANGED <<variant, clock, counter, handled, lost>>

(* check_rate_limit of a RateLimiter, without an await *)
DecidesAlone(r) ==
    /\ At(r, "new") /\ variant = "strategy"
    /\ \E verdict \in {"calling", "denied"} : Goes(r, verdict)
    /\ UNCHANGED <<variant, clock, counter, handled, passed, lost>>

(* Redis fails: the unified middleware calls the handler all the same, the   *)
(* other counts for itself and may refuse                                    *)
RedisFails(r) ==
    /\ request[r].pc \in {"new", "first", "counted"} /\ variant # "strategy"
    /\ \/ Goes(r, "calling")
       \/ variant = "security" /\ Goes(r, "denied")
    /\ lost' = (lost \/ At(r, "first"))
    /\ UNCHANGED <<variant, clock, counter, handled, passed>>

Handles(r) == handled' = [handled EXCEPT ![r] = @ + 1]

(* status["remaining"] raises KeyError after the handler has returned *)
HandlerReturns(r) ==
    /\ request[r].pc \in {"calling", "again"}
    /\ Goes(r, IF variant = "strategy" /\ At(r, "calling") THEN "again" ELSE "answered")
    /\ Handles(r)
    /\ UNCHANGED <<variant, clock, counter, passed, lost>>

(* mutant: the security middleware swallows the exception, too *)
Retries_all(r) == TRUE

Retries(r) == variant # "security"

(* except Exception: return await call_next(request), outside the try *)
HandlerRaises(r) ==
    /\ request[r].pc \in {"calling", "again"}
    /\ Goes(r, IF Retries(r) /\ At(r, "calling") THEN "again" ELSE "raised")
    /\ Handles(r)
    /\ UNCHANGED <<variant, clock, counter, passed, lost>>

(* the worker process ends, and the request with it *)
Crashes(r) ==
    /\ request[r].pc \notin Over \cup {"new"}
    /\ Goes(r, "gone")
    /\ lost' = (lost \/ At(r, "first"))
    /\ UNCHANGED <<variant, clock, counter, handled, passed>>

(* Redis removes a key whose time is up; the key of the security middleware   *)
(* holds the start of the window, so that a new window has a new key         *)
Tick ==
    LET ended == \/ counter.ttl = 1
                 \/ variant = "security" /\ (clock + 1) % Window = 0
    IN  /\ clock < MaxWindows * Window
        /\ clock' = clock + 1
        /\ counter' = IF ended THEN Unset(counter.name + 1)
                      ELSE IF counter.ttl = Forever THEN counter
                      ELSE [counter EXCEPT !.ttl = @ - 1]
        /\ passed' = IF ended THEN 0 ELSE passed
        /\ UNCHANGED <<variant, request, handled, lost>>

Checks(r) == Expires(r) \/ Decides(r) \/ RedisFails(r)

Next ==
    \/ \E r \in Requests :
        \/ Counts(r) \/ DecidesAlone(r) \/ Checks(r)
        \/ HandlerReturns(r) \/ HandlerRaises(r) \/ Crashes(r)
    \/ Tick

Spec == Init /\ [][Next]_vars

-----------------------------------------------------------------------------
(* Properties.                                                               *)

(* Whatever processes count it, and however their commands interleave, one    *)
(* life of the counter lets no more than the limit through.                   *)
SharedLimit == passed <= Limit

(* A counter that is in use runs out, unless a process or Redis failed before  *)
(* EXPIRE: then the unified limiter counts this client for ever.              *)
CounterRunsOut ==
    counter.value > 0 /\ counter.ttl = Forever =>
        \/ lost
        \/ variant = "security"
        \/ \E r \in Requests : At(r, "first")

(* What is denied is not handled, and what is handled twice has a reason: an  *)
(* exception of the handler, or the header the strategy middleware reads in    *)
(* vain.  The security middleware never repeats a request.                    *)
HandledAsAllowed ==
    \A r \in Requests :
        /\ At(r, "denied") => handled[r] = 0
        /\ handled[r] = 2 => variant # "security"
        /\ At(r, "answered") => handled[r] = IF variant = "strategy" THEN 2
                                             ELSE handled[r]
=============================================================================
