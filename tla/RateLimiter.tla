----------------------------- MODULE RateLimiter -----------------------------
(***************************************************************************)
(* One key of the rate limiters: the four strategies of RateLimiter in      *)
(* src/metamcp/security/rate_limiting.py, and the log of request times of   *)
(* MemoryRateLimiter in src/metamcp/utils/rate_limiter.py (strategy "log",  *)
(* cost 1).  A check runs without an await; time passes between checks.      *)
(*                                                                         *)
(* Token counts are rational in the code; here they are multiplied by       *)
(* Window: a token is Window units, and a tick adds or leaks Limit units.   *)
(***************************************************************************)
EXTENDS Integers, FiniteSets

CONSTANTS
    Limit,      \* config.limit
    Window,     \* config.window_seconds, in ticks
    Minute,     \* the length of a minute, in ticks
    Costs,      \* the costs of requests
    MaxTime     \* bound: when the clock stops

VARIABLES
    strategy,       \* config.strategy
    now,            \* the clock
    count,          \* state.current_count
    windowStart,    \* state.window_start
    lastRequest,    \* state.last_request
    tokens,         \* state.tokens, times Window
    log,            \* MemoryRateLimiter._requests: <<time, place in the list>>
    \* observers, for the properties only
    granted,        \* cost of what was allowed up to each time
    asked,          \* the times at which requests came, allowed or not
    since,          \* when the key was made, reset or given a new strategy
    answer          \* the last answer at this time

state == <<count, windowStart, lastRequest, tokens, log>>
vars  == <<strategy, now, state, granted, asked, since, answer>>

Buckets    == {"token", "leaky"}
Strategies == {"fixed", "sliding", "log"} \cup Buckets
Times      == 0..MaxTime
Full       == Limit * Window

TypeOK ==
    /\ strategy \in Strategies
    /\ now \in Times
    /\ count \in 0..Limit
    /\ {windowStart, lastRequest, since} \subseteq 0..now
    /\ tokens \in 0..Full
    /\ log \subseteq (0..now) \X (0..Limit)
    /\ Cardinality(log) <= Limit
    /\ granted \in [Times -> Nat]
    /\ asked \subseteq 0..now
    /\ answer \in {"none", "allowed", "denied"}

Never == [t \in Times |-> 0]

Initially(new) == IF new = "token" THEN Full ELSE 0

Forget == /\ granted' = Never /\ asked' = {}
          /\ since' = now /\ answer' = "none"

(* the key is made at any second of a minute *)
Init ==
    /\ strategy \in Strategies
    /\ now \in 0..(Minute - 1)
    /\ count = 0 /\ windowStart = now /\ lastRequest = now
    /\ tokens = Initially(strategy)
    /\ log = {}
    /\ granted = Never /\ asked = {} /\ since = now /\ answer = "none"

-----------------------------------------------------------------------------
(* check_rate_limit, by strategy.                                            *)

MinuteStart == now - (now % Minute)

(* MUTANT: the window is reset a minute late *)
WindowEnded_late == windowStart + Minute < MinuteStart
WindowEnded == windowStart < MinuteStart

FixedWindow(cost) ==
    LET used == IF WindowEnded THEN 0 ELSE count
    IN  /\ strategy = "fixed"
        /\ answer' = IF used + cost <= Limit THEN "allowed" ELSE "denied"
        /\ count' = IF answer' = "allowed" THEN used + cost ELSE used
        /\ windowStart' = IF WindowEnded THEN MinuteStart ELSE windowStart
        /\ UNCHANGED <<tokens, log>>

(* the count starts anew after a window without any request *)
SlidingWindow(cost) ==
    LET used == IF lastRequest < now - Window THEN 0 ELSE count
    IN  /\ strategy = "sliding"
        /\ answer' = IF used + cost <= Limit THEN "allowed" ELSE "denied"
        /\ count' = IF answer' = "allowed" THEN used + cost ELSE used
        /\ UNCHANGED <<windowStart, tokens, log>>

Elapsed == (now - lastRequest) * Limit

Refilled_unbounded == tokens + Elapsed      \* MUTANT: min is missing
Refilled == IF tokens + Elapsed < Full THEN tokens + Elapsed ELSE Full

TokenBucket(cost) ==
    /\ strategy = "token"
    /\ answer' = IF Refilled >= cost * Window THEN "allowed" ELSE "denied"
    /\ tokens' = IF answer' = "allowed" THEN Refilled - cost * Window
                                        ELSE Refilled
    /\ UNCHANGED <<count, windowStart, log>>

Leaked == IF tokens > Elapsed THEN tokens - Elapsed ELSE 0

LeakyBucket(cost) ==
    /\ strategy = "leaky"
    /\ answer' = IF Leaked + cost * Window <= Full THEN "allowed" ELSE "denied"
    /\ tokens' = IF answer' = "allowed" THEN Leaked + cost * Window ELSE Leaked
    /\ UNCHANGED <<count, windowStart, log>>

(* is_allowed of MemoryRateLimiter *)
RequestLog(cost) ==
    LET kept == {e \in log : e[1] > now - Window}
        size == Cardinality(kept)
    IN  /\ strategy = "log" /\ cost = 1
        /\ answer' = IF size < Limit THEN "allowed" ELSE "denied"
        /\ log' = IF answer' = "allowed" THEN kept \cup {<<now, size>>} ELSE kept
        /\ UNCHANGED <<count, windowStart, tokens>>

(* MUTANT: the time is noted only when a request is allowed *)
LastRequest_allowed == IF answer' = "allowed" THEN now ELSE lastRequest
LastRequest == now

CheckRateLimit(cost) ==
    /\ \/ FixedWindow(cost) \/ SlidingWindow(cost)
       \/ TokenBucket(cost) \/ LeakyBucket(cost) \/ RequestLog(cost)
    /\ lastRequest' = LastRequest
    /\ asked' = asked \cup {now}
    /\ granted' = IF answer' = "allowed"
                  THEN [t \in Times |-> granted[t] + IF t >= now THEN cost ELSE 0]
                  ELSE granted
    /\ UNCHANGED <<strategy, now, since>>

-----------------------------------------------------------------------------
(* reset_rate_limit: also empties a token bucket *)
ResetRateLimit ==
    /\ strategy # "log"
    /\ count' = 0 /\ tokens' = 0
    /\ windowStart' = now /\ lastRequest' = now
    /\ Forget
    /\ UNCHANGED <<strategy, now, log>>

(* add_rate_limit for a key that has a state: the state is kept *)
AddRateLimit(new) ==
    /\ strategy # "log" /\ new # "log" /\ new # strategy
    /\ strategy' = new
    /\ Forget
    /\ UNCHANGED <<now, state>>

(* remove_rate_limit, by the caller or the cleanup after a day without a      *)
(* request, and the next use of the key, which makes it again                *)
RemoveRateLimit(new) ==
    /\ strategy # "log" /\ new # "log"
    /\ strategy' = new
    /\ count' = 0 /\ tokens' = Initially(new)
    /\ windowStart' = now /\ lastRequest' = now
    /\ Forget
    /\ UNCHANGED <<now, log>>

Tick ==
    /\ now < MaxTime
    /\ now' = now + 1
    /\ answer' = "none"
    /\ UNCHANGED <<strategy, state, granted, asked, since>>

Next ==
    \/ \E cost \in Costs : CheckRateLimit(cost)
    \/ ResetRateLimit
    \/ \E new \in Strategies : (AddRateLimit(new) \/ RemoveRateLimit(new))
    \/ Tick

Spec == Init /\ [][Next]_vars

-----------------------------------------------------------------------------
(* Properties.                                                               *)

(* what was allowed from time a to time b *)
Got(a, b) == granted[b] - IF a = 0 THEN 0 ELSE granted[a - 1]

(* What each strategy allows in any interval of time: the fixed window its   *)
(* limit per minute of the clock (whatever window_seconds says), the sliding *)
(* window and the log their limit per window, the buckets a burst of the     *)
(* limit on top of the steady rate.                                          *)
WindowBound ==
    \A a, b \in Times :
        LET got == Got(a, b)
        IN  a <= b =>
            /\ strategy = "fixed" /\ b < a - (a % Minute) + Minute
                   => got <= Limit
            /\ strategy = "sliding" /\ b - a <= Window => got <= Limit
            /\ strategy = "log" /\ b - a < Window => got <= Limit
            /\ strategy \in Buckets => got * Window <= Limit * (Window + b - a)

(* Nobody is denied for what lies longer ago than a window: a denial needs   *)
(* something allowed within it, or a change of the configuration.  Only for  *)
(* the sliding window a denied request is reason enough, so that a client    *)
(* who keeps asking stays denied.                                            *)
NotStarved ==
    [][answer' = "denied" =>
          LET span == CASE strategy = "fixed" -> Minute
                        [] strategy = "sliding" -> Window + 1
                        [] OTHER -> Window
              recent(t) == t > now - span
          IN  \/ recent(since)
              \/ \E t \in 0..now : recent(t) /\ Got(t, t) > 0
              \/ strategy = "sliding" /\ \E t \in asked : recent(t)]_vars
=============================================================================
