---------------------------- MODULE Runtime_proofs ----------------------------
(***************************************************************************)
(* What holds of the resource limits, of the rate limiter and of the         *)
(* middlewares, for any number of executions, users, requests and any        *)
(* limits, and of the runtime they are part of with the task manager of      *)
(* BackgroundTasks_proofs.                                                   *)
(***************************************************************************)
EXTENDS MCRuntime, BackgroundTasks_proofs, FiniteSetTheorems

-----------------------------------------------------------------------------
(* The resource limits of security/resource_limits.py.                       *)

(* The executions that were archived are those that are started and no       *)
(* longer active.  SweepSettles is inductive with the types: what was spared *)
(* stays within its limits because interruptions only lower the counts.      *)
ResourcesIInv == Resources!TypeOK /\ Resources!OneRecord /\ Resources!SweepSettles

(* The executions of one user among the active ones can be counted, and      *)
(* there are no more of them when another execution leaves.                  *)
LEMMA FewerRivals ==
    ASSUME NEW S, IsFiniteSet(S), NEW T \in SUBSET S
    PROVE  /\ Cardinality(T) \in Nat /\ Cardinality(S) \in Nat
           /\ Cardinality(T) <= Cardinality(S)
<1>1. IsFiniteSet(T) /\ Cardinality(T) <= Cardinality(S)
  BY FS_Subset
<1> QED
  BY <1>1, FS_CardinalityType

(* The cardinality of the instance is that of FiniteSets.                    *)
LEMMA ResourcesCount == \A S : Resources!Cardinality(S) = Cardinality(S)
  BY DEF Cardinality, Resources!Cardinality

(* The dictionary of active executions is finite.                            *)
LEMMA ActiveFinite == Resources!TypeOK => IsFiniteSet(DOMAIN active)
<1> SUFFICES ASSUME Resources!TypeOK PROVE IsFiniteSet(DOMAIN active)
  OBVIOUS
<1>1. started \in Int /\ 1 \in Int
  BY ExecutionsAssumption DEF Resources!TypeOK
<1>2. IsFiniteSet(1..started)
  BY <1>1, FS_Interval
<1> QED
  BY <1>2, FS_Subset DEF Resources!TypeOK

(* The inductive invariant holds initially.                                  *)
LEMMA ResourcesInit == Resources!Init => ResourcesIInv
  BY ExecutionsAssumption
  DEF Resources!Init, ResourcesIInv, Resources!TypeOK, Resources!OneRecord,
    Resources!SweepSettles, Resources!Ids

(* Ending an active execution keeps the types of the records and archives it *)
(* once.                                                                     *)
LEMMA EndKeepsRecords ==
    ASSUME ResourcesIInv, NEW e \in Resources!Ids, Resources!EndExecution(e),
           UNCHANGED started
    PROVE  /\ DOMAIN active' = DOMAIN active \ {e}
           /\ \A d \in DOMAIN active' : active'[d] = active[d]
           /\ active' \in [DOMAIN active' -> Resources!ExecutionContext]
           /\ history' \in [Resources!Ids -> Nat]
           /\ Resources!OneRecord'
  BY
  DEF ResourcesIInv, Resources!TypeOK, Resources!OneRecord, Resources!EndExecution,
      Resources!Without, Resources!Ids

(* Every step keeps the invariant.                                           *)
LEMMA ResourcesStep == ResourcesIInv /\ [Resources!Next]_resourceVars => ResourcesIInv'
<1> SUFFICES ASSUME ResourcesIInv, [Resources!Next]_resourceVars PROVE ResourcesIInv'
  OBVIOUS
<1> USE ExecutionsAssumption
<1>1. CASE Resources!Request
  <2>1. ASSUME NEW u \in Users, NEW n \in Limits,
               NEW null \in {"none", "soft", "hard"}, Resources!StartExecution(u, n,
               null)
        PROVE  ResourcesIInv'
    <3>1. Resources!TypeOK'
      BY <1>1, <2>1
      DEF ResourcesIInv, Resources!TypeOK, Resources!Request, Resources!Idle,
          Resources!StartExecution,
                        Resources!ExecutionContext, Resources!Ids
    <3>2. Resources!OneRecord'
      BY <2>1
      DEF ResourcesIInv, Resources!TypeOK, Resources!OneRecord,
          Resources!StartExecution, Resources!Ids
    <3>3. Resources!SweepSettles'
      BY <1>1, <2>1
      DEF Resources!Request, Resources!Idle, Resources!StartExecution,
          Resources!SweepSettles
    <3> QED
      BY <3>1, <3>2, <3>3 DEF ResourcesIInv
  <2>2. ASSUME NEW e \in Resources!Ids, Resources!EndExecution(e), UNCHANGED <<started,
               monitor, sweep>>
        PROVE  ResourcesIInv'
    <3>1. Resources!TypeOK'
      BY <1>1, <2>2, EndKeepsRecords
      DEF ResourcesIInv, Resources!TypeOK, Resources!Request, Resources!Idle
    <3>2. Resources!SweepSettles'
      BY <1>1, <2>2 DEF Resources!Request, Resources!Idle, Resources!SweepSettles
    <3> QED
      BY <2>2, <3>1, <3>2, EndKeepsRecords DEF ResourcesIInv
  <2>3. ASSUME NEW e \in Resources!Ids, Resources!UpdateMetrics(e) PROVE ResourcesIInv'
    BY <1>1, <2>3
    DEF ResourcesIInv, Resources!TypeOK, Resources!OneRecord, Resources!SweepSettles,
        Resources!Request, Resources!Idle,
                      Resources!UpdateMetrics, Resources!ExecutionContext, Resources!Ids
  <2> QED
    BY <1>1, <2>1, <2>2, <2>3 DEF Resources!Request
<1>2. CASE Resources!Initialize
  BY <1>2
  DEF Resources!Initialize, ResourcesIInv, Resources!TypeOK, Resources!OneRecord,
      Resources!SweepSettles
<1>3. CASE Resources!BeginSweep
  BY <1>3
  DEF Resources!BeginSweep, ResourcesIInv, Resources!TypeOK, Resources!OneRecord,
      Resources!SweepSettles
<1>4. CASE Resources!EndSweep
  BY <1>4
  DEF Resources!EndSweep, ResourcesIInv, Resources!TypeOK, Resources!OneRecord,
      Resources!SweepSettles
<1>5. ASSUME NEW e \in Resources!Ids, Resources!Oldest(e),
             Resources!Interrupt(e) PROVE ResourcesIInv'
  <2>1. Resources!TypeOK'
    BY <1>5, EndKeepsRecords
    DEF ResourcesIInv, Resources!TypeOK, Resources!Interrupt, Resources!StillToCheck
  <2>2. Resources!SweepSettles'
    <3> SUFFICES ASSUME monitor' = "sweeping",
                        NEW d \in DOMAIN active' \ sweep'
                 PROVE  /\ ~active'[d].over
                        /\ Resources!Cardinality({c \in DOMAIN active' :
                                           active'[c].user = active'[d].user})
                             <= active'[d].limit
      BY DEF Resources!SweepSettles
    <3> DEFINE before == {c \in DOMAIN active : active[c].user = active[d].user}
               after  == {c \in DOMAIN active' :
                             active'[c].user = active'[d].user}
    <3>1. /\ monitor = "sweeping"
          /\ d \in DOMAIN active \ sweep
          /\ active'[d] = active[d]
      BY <1>5, EndKeepsRecords DEF Resources!Interrupt, Resources!StillToCheck
    <3>2. ~active[d].over /\ Resources!Cardinality(before) <= active[d].limit
      BY <3>1 DEF ResourcesIInv, Resources!SweepSettles
    <3>3. after \in SUBSET before
      BY <1>5, <3>1, EndKeepsRecords DEF Resources!Interrupt
    <3>4. IsFiniteSet(before)
      BY ActiveFinite, FS_Subset DEF ResourcesIInv
    <3>5. /\ Resources!Cardinality(after) \in Nat /\ Resources!Cardinality(before) \in Nat
          /\ Resources!Cardinality(after) <= Resources!Cardinality(before)
      BY <3>3, <3>4, FewerRivals, ResourcesCount
    <3>6. active[d].limit \in Nat
      BY <3>1 DEF ResourcesIInv, Resources!TypeOK, Resources!ExecutionContext
    <3> QED
      BY <3>1, <3>2, <3>5, <3>6
  <2> QED
    BY <1>5, <2>1, <2>2, EndKeepsRecords DEF ResourcesIInv, Resources!Interrupt
<1>6. ASSUME NEW e \in Resources!Ids, Resources!Oldest(e),
             Resources!Spare(e) PROVE ResourcesIInv'
  <2>1. Resources!TypeOK' /\ Resources!OneRecord'
    BY <1>6
    DEF ResourcesIInv, Resources!TypeOK, Resources!OneRecord, Resources!Spare,
        Resources!StillToCheck
  <2>2. /\ e \in DOMAIN active
        /\ active[e].limit \in Nat
        /\ Resources!Cardinality(Resources!Rivals(e)) \in Nat
    <3>1. e \in DOMAIN active
      BY <1>6 DEF ResourcesIInv, Resources!TypeOK, Resources!Oldest
    <3>2. IsFiniteSet(Resources!Rivals(e))
      BY ActiveFinite, FS_Subset DEF ResourcesIInv, Resources!Rivals
    <3> QED
      BY <3>1, <3>2, FS_CardinalityType, ResourcesCount
      DEF ResourcesIInv, Resources!TypeOK, Resources!ExecutionContext
  <2>3. ~active[e].over /\ Resources!Cardinality(Resources!Rivals(e)) <= active[e].limit
    <3>1. active[e].null # "hard" /\ ~active[e].over /\ ~Resources!TooMany(e)
      BY <1>6 DEF Resources!Spare, Resources!Exceeds, Resources!Raises
    <3> QED
      BY <2>2, <3>1 DEF Resources!TooMany
  <2>4. Resources!SweepSettles'
    BY <1>6, <2>3
    DEF ResourcesIInv, Resources!SweepSettles, Resources!Spare, Resources!StillToCheck,
        Resources!Rivals
  <2> QED
    BY <2>1, <2>4 DEF ResourcesIInv
<1>7. ASSUME NEW e \in Resources!Ids, Resources!SweepRaises(e) PROVE ResourcesIInv'
  BY <1>7
  DEF Resources!SweepRaises, ResourcesIInv, Resources!TypeOK, Resources!OneRecord,
      Resources!SweepSettles
<1>8. CASE Resources!Shutdown
  BY <1>8
  DEF Resources!Shutdown, ResourcesIInv, Resources!TypeOK, Resources!OneRecord,
      Resources!SweepSettles
<1>9. CASE Resources!ShutdownEnds
  BY <1>9
  DEF Resources!ShutdownEnds, ResourcesIInv, Resources!TypeOK, Resources!OneRecord,
      Resources!SweepSettles
<1>10. CASE UNCHANGED resourceVars
  BY <1>10
  DEF resourceVars, ResourcesIInv, Resources!TypeOK, Resources!OneRecord,
      Resources!SweepSettles
<1> QED
  BY <1>1, <1>2, <1>3, <1>4, <1>5, <1>6, <1>7, <1>8, <1>9, <1>10
  DEF Resources!Next, Resources!MonitorStep

(* Resource limits alone: the invariant holds of every reachable state.      *)
THEOREM ResourcesInvariant == Resources!Spec => []ResourcesIInv
<1>1. Resources!Init => ResourcesIInv
  BY ResourcesInit
<1>2. ResourcesIInv /\ [Resources!Next]_Resources!vars => ResourcesIInv'
  BY ResourcesStep DEF resourceVars, Resources!vars
<1> QED
  BY <1>1, <1>2, PTL DEF Resources!Spec

-----------------------------------------------------------------------------
(* The middlewares that count requests.                                      *)

(* the requests that will be let through by the counter as it is: INCR gave  *)
(* them a number within the limit, and they have still to act on it          *)
Pending ==
    {r \in Requests : /\ request[r].pc \in {"first", "counted"}
                      /\ request[r].key = counter.name
                      /\ request[r].count <= RateLimitRequests}

Arrived == {r \in Requests : request[r].pc # "new"}

(* Those let through and those pending are among the first the counter has   *)
(* numbered; the request that started the counter still has to limit its     *)
(* life; a request is handled as its place tells.                            *)
CounterBooks ==
    /\ counter.name <= clock
    /\ \A r \in Requests : request[r].key <= counter.name
    /\ counter.value <= Cardinality(Arrived)
    /\ passed + Cardinality(Pending) <= counter.value
    /\ passed + Cardinality(Pending) <= RateLimitRequests

LifeLimited ==
    counter.value > 0 /\ counter.ttl = Middleware!Forever =>
        \/ lost
        \/ variant = "security"
        \/ \E r \in Requests : request[r].pc = "first" /\ request[r].key = counter.name

HandledInPlace ==
    \A r \in Requests :
        /\ request[r].pc \in {"new", "first", "counted", "calling", "denied"}
              => handled[r] = 0
        /\ request[r].pc = "again" => handled[r] = 1 /\ variant # "security"
        /\ handled[r] = 2 => variant # "security"
        /\ request[r].pc = "gone" => handled[r] <= 1
        /\ request[r].pc = "answered" /\ variant = "strategy" => handled[r] = 2

MiddlewareIInv ==
    /\ Middleware!TypeOK /\ CounterBooks /\ LifeLimited /\ HandledInPlace

(* The cardinality of the instance is that of FiniteSets.                    *)
LEMMA MiddlewareCount == \A S : Middleware!Cardinality(S) = Cardinality(S)
  BY DEF Cardinality, Middleware!Cardinality

(* Requests can be counted; a set of them that gains one element counts one  *)
(* more, and one that loses an element one less.                             *)
LEMMA CountRequests ==
    ASSUME NEW S \in SUBSET Requests
    PROVE  /\ Cardinality(S) \in Nat
           /\ Cardinality(S) <= Cardinality(Requests)
           /\ \A r \in Requests \ S : Cardinality(S \cup {r}) = Cardinality(S) + 1
           /\ \A r \in S : Cardinality(S \ {r}) = Cardinality(S) - 1
           /\ \A T \in SUBSET S : Cardinality(T) <= Cardinality(S)
           /\ \A r \in Requests \ S : Cardinality(S) + 1 <= Cardinality(Requests)
<1>1. IsFiniteSet(Requests) /\ IsFiniteSet(S)
  BY RequestsAssumption, FS_Subset
<1>2. /\ Cardinality(S) \in Nat
      /\ Cardinality(S) <= Cardinality(Requests)
      /\ \A T \in SUBSET S : Cardinality(T) <= Cardinality(S)
  BY <1>1, FS_CardinalityType, FS_Subset
<1>3. \A r \in Requests \ S : Cardinality(S \cup {r}) = Cardinality(S) + 1
  BY <1>1, FS_AddElement
<1>4. \A r \in S : Cardinality(S \ {r}) = Cardinality(S) - 1
  BY <1>1, FS_RemoveElement
<1>5. ASSUME NEW r \in Requests \ S PROVE Cardinality(S) + 1 <= Cardinality(Requests)
  <2>1. S \cup {r} \in SUBSET Requests
    OBVIOUS
  <2>2. Cardinality(S \cup {r}) <= Cardinality(Requests)
    BY <1>1, <2>1, FS_Subset
  <2> QED
    BY <1>3, <2>2
<1> QED
  BY <1>2, <1>3, <1>4, <1>5

(* The clock has a last tick.                                                *)
LEMMA ClockEnds == MaxWindows * Window \in Nat
  BY ClockAssumption, RequestsAssumption

LEMMA MiddlewareInit == Middleware!Init => MiddlewareIInv
<1> SUFFICES ASSUME Middleware!Init PROVE MiddlewareIInv
  OBVIOUS
<1>1. Arrived = {} /\ Pending = {}
  BY DEF Middleware!Init, Arrived, Pending
<1>2. Cardinality(Arrived) = 0 /\ Cardinality(Pending) = 0
  BY <1>1, FS_EmptySet
<1>3. Middleware!Cardinality(Requests) \in Nat
  BY CountRequests, MiddlewareCount
<1>4. Middleware!TypeOK
  <2>1. 0 \in 0..(MaxWindows * Window) /\ 0 \in 0..Middleware!Cardinality(Requests)
    BY <1>3, ClockEnds
  <2>2. /\ counter \in [value : 0..Middleware!Cardinality(Requests),
                         ttl : {Middleware!Forever} \cup 1..Window,
                         name : 0..(MaxWindows * Window)]
        /\ clock \in 0..(MaxWindows * Window)
        /\ passed \in 0..Middleware!Cardinality(Requests)
    BY <2>1 DEF Middleware!Init, Middleware!Unset
  <2>3. /\ request \in [Requests ->
              [pc : {"new", "first", "counted", "calling", "again"} \cup Middleware!Over,
               count : 0..Middleware!Cardinality(Requests), key : 0..(MaxWindows * Window)]]
        /\ handled \in [Requests -> 0..2]
    BY <2>1 DEF Middleware!Init
  <2> QED
    BY <2>2, <2>3 DEF Middleware!Init, Middleware!TypeOK
<1> QED
  BY <1>2, <1>4, RequestsAssumption
  DEF Middleware!Init, Middleware!Unset, MiddlewareIInv, CounterBooks, LifeLimited,
      HandledInPlace

(* INCR numbers a request.                                                   *)
LEMMA CountsStep ==
    ASSUME MiddlewareIInv, NEW r \in Requests, Middleware!Counts(r)
    PROVE  MiddlewareIInv'
<1> USE DEF MiddlewareIInv
<1> DEFINE n == counter.value + 1
<1>1. /\ request' \in [Requests -> [pc : {"first", "counted", "new"}
                                          \cup {request[q].pc : q \in Requests},
                                    count : Int, key : Int]]
      /\ request[r].pc = "new"
      /\ request'[r].pc \in {"first", "counted"}
      /\ request'[r].count = n /\ request'[r].key = counter.name
      /\ \A q \in Requests \ {r} : request'[q] = request[q]
      /\ counter' = [counter EXCEPT !.value = n]
  BY ClockEnds DEF Middleware!Counts, Middleware!TypeOK, Middleware!At
<1>2. Arrived' = Arrived \cup {r} /\ r \notin Arrived
  BY <1>1 DEF Arrived
<1>3. Arrived \in SUBSET Requests /\ Pending \in SUBSET Requests
  BY DEF Arrived, Pending
<1>4. /\ Cardinality(Arrived) \in Nat /\ Cardinality(Pending) \in Nat
      /\ Cardinality(Arrived') = Cardinality(Arrived) + 1
      /\ Cardinality(Arrived) + 1 <= Cardinality(Requests)
      /\ Cardinality(Requests) \in Nat
  BY <1>2, <1>3, CountRequests
<1>5. counter.value \in Nat /\ n <= Cardinality(Requests)
  BY <1>4, MiddlewareCount DEF CounterBooks, Middleware!TypeOK
<1>6. Middleware!TypeOK'
  BY <1>4, <1>5, ClockEnds, MiddlewareCount
  DEF Middleware!TypeOK, Middleware!Counts, Middleware!FirstOfWindow
<1>7. /\ n <= RateLimitRequests =>
            Pending' = Pending \cup {r} /\ r \notin Pending
      /\ ~(n <= RateLimitRequests) => Pending' = Pending
  BY <1>1 DEF Pending, Middleware!TypeOK
<1>8. /\ Cardinality(Pending') \in Nat
      /\ n <= RateLimitRequests => Cardinality(Pending') = Cardinality(Pending) + 1
      /\ ~(n <= RateLimitRequests) => Cardinality(Pending') = Cardinality(Pending)
  BY <1>3, <1>4, <1>7, CountRequests
<1>9. CounterBooks'
  BY <1>1, <1>4, <1>5, <1>8, ClockEnds, RequestsAssumption
  DEF CounterBooks, Middleware!TypeOK, Middleware!Counts
<1>10. LifeLimited'
  BY <1>1, <1>5 DEF LifeLimited, Middleware!Counts, Middleware!TypeOK, Middleware!FirstOfWindow
<1>11. HandledInPlace'
  BY <1>1 DEF HandledInPlace, Middleware!Counts
<1> QED
  BY <1>6, <1>9, <1>10, <1>11

(* A step of a request that leaves the counter's numbers alone keeps the     *)
(* books, if the request does not become pending.                            *)
LEMMA RequestStep ==
    ASSUME Middleware!TypeOK, CounterBooks, NEW r \in Requests,
           NEW at \in {"counted", "calling", "again"} \cup Middleware!Over,
           request' = [request EXCEPT ![r].pc = at],
           at = "counted" => request[r].pc = "first",
           UNCHANGED clock,
           counter'.name = counter.name /\ counter'.value = counter.value,
           passed' = passed \/ /\ passed' = passed + 1
                               /\ r \in Pending /\ at = "calling"
    PROVE  /\ CounterBooks'
           /\ passed' \in 0..Cardinality(Requests)
           /\ request' \in [Requests ->
                [pc : {"new", "first", "counted", "calling", "again"} \cup Middleware!Over,
                 count : 0..Cardinality(Requests), key : 0..(MaxWindows * Window)]]
           /\ request'[r].pc = at
           /\ \A q \in Requests \ {r} : request'[q] = request[q]
<1>1. /\ request'[r] = [request[r] EXCEPT !.pc = at] /\ request'[r].pc = at
      /\ request'[r].key = request[r].key /\ request'[r].count = request[r].count
      /\ \A q \in Requests \ {r} : request'[q] = request[q]
  BY DEF Middleware!TypeOK
<1>2. request' \in [Requests ->
        [pc : {"new", "first", "counted", "calling", "again"} \cup Middleware!Over,
         count : 0..Cardinality(Requests), key : 0..(MaxWindows * Window)]]
  BY MiddlewareCount DEF Middleware!TypeOK
<1>3. Arrived \in SUBSET Arrived' /\ Arrived' \in SUBSET Requests
  BY <1>1 DEF Arrived, Middleware!Over
<1>4. Pending' \in SUBSET Pending /\ Pending \in SUBSET Requests
  BY <1>1 DEF Pending, Middleware!Over
<1>5. /\ Cardinality(Arrived) <= Cardinality(Arrived')
      /\ Cardinality(Pending') <= Cardinality(Pending)
      /\ Cardinality(Pending) \in Nat /\ Cardinality(Pending') \in Nat
      /\ Cardinality(Arrived) \in Nat /\ Cardinality(Arrived') \in Nat
      /\ Cardinality(Requests) \in Nat /\ Cardinality(Arrived') <= Cardinality(Requests)
  BY <1>3, <1>4, CountRequests
<1>6. passed' = passed + 1 => Cardinality(Pending') <= Cardinality(Pending) - 1
  <2> SUFFICES ASSUME r \in Pending, at = "calling"
               PROVE  Cardinality(Pending') <= Cardinality(Pending) - 1
    BY MiddlewareCount, <1>5 DEF Middleware!TypeOK
  <2>1. Pending' \in SUBSET (Pending \ {r})
    BY <1>1, <1>4 DEF Pending
  <2>2. Pending \ {r} \in SUBSET Requests
    BY <1>4
  <2> QED
    BY <1>4, <2>1, <2>2, CountRequests
<1>7. passed \in Nat /\ passed' \in Nat
  BY <1>5, MiddlewareCount DEF Middleware!TypeOK
<1>8. CounterBooks'
  BY <1>1, <1>5, <1>6, <1>7, RequestsAssumption, ClockEnds, MiddlewareCount
  DEF CounterBooks, Middleware!TypeOK
<1>9. passed' \in 0..Cardinality(Requests)
  BY <1>5, <1>7, <1>8, MiddlewareCount DEF CounterBooks, Middleware!TypeOK
<1> QED
  BY <1>1, <1>2, <1>8, <1>9

(* Redis removes the key, or the time of the key goes on.                     *)
LEMMA ClockStep ==
    ASSUME MiddlewareIInv, Middleware!Tick
    PROVE  MiddlewareIInv'
<1> USE DEF MiddlewareIInv
<1> DEFINE last == MaxWindows * Window
<1>1. last \in Nat /\ Window \in Nat \ {0} /\ Middleware!Cardinality(Requests) \in Nat
  BY ClockEnds, ClockAssumption, CountRequests, MiddlewareCount
<1>2. /\ clock \in 0..last /\ clock' = clock + 1 /\ clock' \in 0..last
      /\ UNCHANGED <<variant, request, handled, lost>>
  BY <1>1 DEF Middleware!Tick, Middleware!TypeOK
<1>3. CASE counter' = Middleware!Unset(counter.name + 1) /\ passed' = 0
  <2>1. /\ counter'.value = 0 /\ counter'.ttl = Middleware!Forever
        /\ counter'.name = counter.name + 1 /\ counter'.name \in 0..last
        /\ counter' = [value |-> 0, ttl |-> Middleware!Forever, name |-> counter'.name]
    BY <1>1, <1>2, <1>3 DEF Middleware!Unset, CounterBooks, Middleware!TypeOK
  <2>2. Pending' = {}
    BY <1>1, <1>2, <2>1 DEF Pending, CounterBooks, Middleware!TypeOK
  <2>3. Cardinality(Pending') = 0
    BY <2>2, FS_EmptySet
  <2>4. Arrived' = Arrived /\ Cardinality(Arrived) \in Nat
    BY <1>2, CountRequests DEF Arrived
  <2>5. Middleware!TypeOK'
    BY <1>1, <1>2, <1>3, <2>1 DEF Middleware!TypeOK
  <2>6. CounterBooks'
    BY <1>1, <1>2, <1>3, <2>1, <2>3, <2>4, RequestsAssumption
    DEF CounterBooks, Middleware!TypeOK
  <2> QED
    BY <1>2, <2>1, <2>5, <2>6 DEF LifeLimited, HandledInPlace
<1>4. CASE /\ counter.ttl # 1
           /\ passed' = passed
           /\ counter' = IF counter.ttl = Middleware!Forever THEN counter
                         ELSE [counter EXCEPT !.ttl = @ - 1]
  <2>1. /\ counter'.value = counter.value /\ counter'.name = counter.name
        /\ counter'.ttl = Middleware!Forever => counter.ttl = Middleware!Forever
        /\ counter' \in [value : 0..Middleware!Cardinality(Requests),
                         ttl : {Middleware!Forever} \cup 1..Window, name : 0..last]
    BY <1>1, <1>4 DEF Middleware!TypeOK, Middleware!Forever
  <2>2. Arrived' = Arrived /\ Pending' = Pending
    BY <1>2, <2>1 DEF Arrived, Pending
  <2>3. Middleware!TypeOK'
    BY <1>2, <1>4, <2>1 DEF Middleware!TypeOK
  <2>4. CounterBooks'
    BY <1>1, <1>2, <1>4, <2>1, <2>2 DEF CounterBooks, Middleware!TypeOK
  <2> QED
    BY <1>2, <2>1, <2>3, <2>4 DEF LifeLimited, HandledInPlace
<1> QED
  BY <1>3, <1>4 DEF Middleware!Tick

(* Every step of the middlewares keeps the invariant.                        *)
LEMMA MiddlewareKept ==
    ASSUME MiddlewareIInv, Middleware!Next \/ UNCHANGED middlewareVars
    PROVE  MiddlewareIInv'
<1> USE DEF MiddlewareIInv
<1>1. ASSUME NEW r \in Requests, Middleware!Expires(r) PROVE MiddlewareIInv'
  <2>1. /\ request' = [request EXCEPT ![r].pc = "counted"]
        /\ request[r].pc = "first" /\ passed' = passed
        /\ UNCHANGED <<variant, clock, handled, passed, lost>>
        /\ counter'.name = counter.name /\ counter'.value = counter.value
        /\ counter' = IF request[r].key = counter.name
                      THEN [counter EXCEPT !.ttl = Window] ELSE counter
    BY <1>1 DEF Middleware!Expires, Middleware!At, Middleware!Goes, Middleware!TypeOK
  <2>2. /\ CounterBooks' /\ request'[r].pc = "counted"
        /\ \A q \in Requests \ {r} : request'[q] = request[q]
        /\ request' \in [Requests ->
                [pc : {"new", "first", "counted", "calling", "again"} \cup Middleware!Over,
                 count : 0..Cardinality(Requests), key : 0..(MaxWindows * Window)]]
    BY <2>1, RequestStep
  <2>3. Middleware!TypeOK'
    BY <2>1, <2>2, MiddlewareCount, ClockAssumption DEF Middleware!TypeOK
  <2>4. LifeLimited'
    BY <2>1, <2>2, ClockAssumption
    DEF LifeLimited, Middleware!TypeOK, Middleware!Forever
  <2>5. HandledInPlace'
    BY <2>1, <2>2 DEF HandledInPlace
  <2> QED
    BY <2>2, <2>3, <2>4, <2>5
<1>2. ASSUME NEW r \in Requests, Middleware!Decides(r) PROVE MiddlewareIInv'
  <2> DEFINE at == IF Middleware!Allowed(request[r].count) THEN "calling" ELSE "denied"
  <2>1. /\ request' = [request EXCEPT ![r].pc = at] /\ request[r].pc = "counted"
        /\ passed' = passed \/ (passed' = passed + 1 /\ r \in Pending /\ at = "calling")
        /\ UNCHANGED <<variant, clock, counter, handled, lost>>
    BY <1>2
    DEF Middleware!Decides, Middleware!At, Middleware!Goes, Middleware!Allowed, Pending
  <2>2. /\ CounterBooks' /\ request'[r].pc = at
        /\ \A q \in Requests \ {r} : request'[q] = request[q]
        /\ passed' \in 0..Cardinality(Requests)
        /\ request' \in [Requests ->
                [pc : {"new", "first", "counted", "calling", "again"} \cup Middleware!Over,
                 count : 0..Cardinality(Requests), key : 0..(MaxWindows * Window)]]
    BY <2>1, RequestStep DEF Middleware!Over
  <2>3. Middleware!TypeOK'
    BY <2>1, <2>2, MiddlewareCount DEF Middleware!TypeOK
  <2>4. LifeLimited'
    BY <2>1, <2>2 DEF LifeLimited
  <2>5. HandledInPlace'
    BY <2>1, <2>2 DEF HandledInPlace
  <2> QED
    BY <2>2, <2>3, <2>4, <2>5
<1>3. ASSUME NEW r \in Requests,
             Middleware!DecidesAlone(r) \/ Middleware!RedisFails(r)
      PROVE  MiddlewareIInv'
  <2>1. PICK at \in {"calling", "denied"} : request' = [request EXCEPT ![r].pc = at]
    BY <1>3 DEF Middleware!DecidesAlone, Middleware!RedisFails, Middleware!Goes
  <2>2. /\ request[r].pc \in {"new", "first", "counted"}
        /\ UNCHANGED <<variant, clock, counter, handled, passed>>
        /\ lost' = (lost \/ request[r].pc = "first")
    BY <1>3
    DEF Middleware!DecidesAlone, Middleware!RedisFails, Middleware!At, Middleware!TypeOK
  <2>3. /\ CounterBooks' /\ request'[r].pc = at
        /\ \A q \in Requests \ {r} : request'[q] = request[q]
        /\ request' \in [Requests ->
                [pc : {"new", "first", "counted", "calling", "again"} \cup Middleware!Over,
                 count : 0..Cardinality(Requests), key : 0..(MaxWindows * Window)]]
    BY <2>1, <2>2, RequestStep DEF Middleware!Over
  <2>4. Middleware!TypeOK'
    <3>1. lost' \in BOOLEAN
      BY <2>2
    <3> QED
      BY <2>2, <2>3, <3>1, MiddlewareCount DEF Middleware!TypeOK
  <2>5. LifeLimited'
    BY <2>2, <2>3, Zenon DEF LifeLimited
  <2>6. HandledInPlace'
    BY <2>2, <2>3 DEF HandledInPlace
  <2> QED
    BY <2>3, <2>4, <2>5, <2>6
<1>4. ASSUME NEW r \in Requests,
             Middleware!HandlerReturns(r) \/ Middleware!HandlerRaises(r)
      PROVE  MiddlewareIInv'
  <2>1. PICK at \in {"again", "answered", "raised"} :
            /\ request' = [request EXCEPT ![r].pc = at]
            /\ at = "again" => request[r].pc = "calling" /\ variant # "security"
            /\ at = "answered" /\ variant = "strategy" => request[r].pc = "again"
    BY <1>4
    DEF Middleware!HandlerReturns, Middleware!HandlerRaises, Middleware!Goes,
        Middleware!At, Middleware!Retries, Middleware!TypeOK, Middleware!Variants
  <2>2. /\ request[r].pc \in {"calling", "again"}
        /\ handled' = [handled EXCEPT ![r] = @ + 1]
        /\ UNCHANGED <<variant, clock, counter, passed, lost>>
    BY <1>4
    DEF Middleware!HandlerReturns, Middleware!HandlerRaises, Middleware!Handles
  <2>3. /\ CounterBooks' /\ request'[r].pc = at
        /\ \A q \in Requests \ {r} : request'[q] = request[q]
        /\ request' \in [Requests ->
                [pc : {"new", "first", "counted", "calling", "again"} \cup Middleware!Over,
                 count : 0..Cardinality(Requests), key : 0..(MaxWindows * Window)]]
    BY <2>1, <2>2, RequestStep DEF Middleware!Over
  <2>4. /\ handled[r] = IF request[r].pc = "calling" THEN 0 ELSE 1
        /\ request[r].pc = "again" => variant # "security"
    BY <2>2 DEF HandledInPlace
  <2>5. handled' \in [Requests -> 0..2] /\ handled'[r] = handled[r] + 1
    BY <2>2, <2>4 DEF Middleware!TypeOK
  <2>6. Middleware!TypeOK'
    BY <2>2, <2>3, <2>5, MiddlewareCount DEF Middleware!TypeOK
  <2>7. LifeLimited'
    BY <2>2, <2>3 DEF LifeLimited
  <2>8. HandledInPlace'
    BY <2>1, <2>2, <2>3, <2>4, <2>5 DEF HandledInPlace, Middleware!TypeOK
  <2> QED
    BY <2>3, <2>6, <2>7, <2>8
<1>5. ASSUME NEW r \in Requests, Middleware!Crashes(r) PROVE MiddlewareIInv'
  <2>1. /\ request' = [request EXCEPT ![r].pc = "gone"]
        /\ request[r].pc \in {"first", "counted", "calling", "again"}
        /\ UNCHANGED <<variant, clock, counter, handled, passed>>
        /\ lost' = (lost \/ request[r].pc = "first")
    BY <1>5 DEF Middleware!Crashes, Middleware!At, Middleware!Goes, Middleware!TypeOK
  <2>2. /\ CounterBooks' /\ request'[r].pc = "gone"
        /\ \A q \in Requests \ {r} : request'[q] = request[q]
        /\ request' \in [Requests ->
                [pc : {"new", "first", "counted", "calling", "again"} \cup Middleware!Over,
                 count : 0..Cardinality(Requests), key : 0..(MaxWindows * Window)]]
    BY <2>1, RequestStep DEF Middleware!Over
  <2>3. Middleware!TypeOK'
    <3>1. lost' \in BOOLEAN
      BY <2>1
    <3> QED
      BY <2>1, <2>2, <3>1, MiddlewareCount DEF Middleware!TypeOK
  <2>4. LifeLimited'
    BY <2>1, <2>2, Zenon DEF LifeLimited
  <2>5. HandledInPlace'
    BY <2>1, <2>2 DEF HandledInPlace
  <2> QED
    BY <2>2, <2>3, <2>4, <2>5
<1>6. CASE UNCHANGED middlewareVars
  BY <1>6
  DEF middlewareVars, Middleware!TypeOK, CounterBooks, Arrived, Pending, LifeLimited,
      HandledInPlace
<1> QED
  BY <1>1, <1>2, <1>3, <1>4, <1>5, <1>6, CountsStep, ClockStep
  DEF Middleware!Next, Middleware!Checks

(* Those let through are among those within the limit.                       *)
LEMMA CounterShared == MiddlewareIInv => Middleware!SharedLimit
<1>1. Pending \in SUBSET Requests
  BY DEF Pending
<1>2. Cardinality(Pending) \in Nat /\ Middleware!Cardinality(Requests) \in Nat
  BY <1>1, CountRequests, MiddlewareCount
<1> QED
  BY <1>2, RequestsAssumption
  DEF MiddlewareIInv, CounterBooks, Middleware!SharedLimit, Middleware!TypeOK

-----------------------------------------------------------------------------
(* The rate limiter of one key.                                              *)

(* Grants add up, and none is later than the last request.                   *)
GrantsAddUp ==
    /\ \A s, t \in Limiter!Times : s <= t => granted[s] <= granted[t]
    /\ \A t \in Limiter!Times : lastRequest <= t => granted[t] = granted[lastRequest]

(* What the state of each strategy knows of what it has allowed: the count   *)
(* of a minute of the clock, of the requests no more than a window apart, of *)
(* the entries of the log, and the tokens or the level of a bucket.          *)
FixedKnows ==
    IF windowStart < Limiter!MinuteStart
    THEN Limiter!Got(Limiter!MinuteStart, now) = 0
    ELSE Limiter!Got(Limiter!MinuteStart, now) <= count

SlidingKnows ==
    \A a \in 0..now : lastRequest - Window <= a => Limiter!Got(a, now) <= count

LogKnows ==
    /\ \A a \in 0..now :
          now - Window < a => Limiter!Got(a, now) <= Cardinality({e \in log : e[1] >= a})
    /\ \A e \in log :
          e[1] = now => e[2] < Cardinality({d \in log : d[1] > now - Window})

TokensKnow ==
    \A a \in 0..lastRequest :
        Limiter!Got(a, lastRequest) * Window + tokens <= Limit * (Window + lastRequest - a)

LevelKnows ==
    \A a \in 0..lastRequest :
        Limiter!Got(a, lastRequest) * Window <= tokens + Limit * (lastRequest - a)

LimiterIInv ==
    /\ Limiter!TypeOK /\ GrantsAddUp /\ Limiter!WindowBound
    /\ strategy = "fixed" => FixedKnows
    /\ strategy = "sliding" => SlidingKnows
    /\ strategy = "log" => LogKnows
    /\ strategy = "token" => TokensKnow
    /\ strategy = "leaky" => LevelKnows
(* The cardinality of the instance is that of FiniteSets.                    *)
LEMMA LimiterCount == \A S : Limiter!Cardinality(S) = Cardinality(S)
  BY DEF Cardinality, Limiter!Cardinality

(* Times within one minute of the clock have the same minute before them.    *)
LEMMA MinuteOfClock ==
    ASSUME NEW n \in Nat
    PROVE  /\ n - (n % Minute) \in 0..n
           /\ n < n - (n % Minute) + Minute
           /\ \A a \in 0..n : n < a - (a % Minute) + Minute => n - (n % Minute) <= a
           /\ (n + 1) - ((n + 1) % Minute) \in {n - (n % Minute), n + 1}
<1> DEFINE q(m) == m \div Minute
           start(m) == m - (m % Minute)
<1>1. Minute \in Nat \ {0}
  BY ClockAssumption
<1>2. ASSUME NEW m \in Nat
      PROVE  /\ m % Minute \in 0..(Minute - 1) /\ q(m) \in Nat
             /\ start(m) = Minute * q(m) /\ start(m) \in 0..m
             /\ m < Minute * q(m) + Minute
  <2>1. /\ m % Minute \in 0..(Minute - 1) /\ q(m) \in Nat
        /\ m = Minute * q(m) + (m % Minute)
    BY <1>1
  <2> QED
    BY <1>1, <2>1
<1>3. ASSUME NEW i \in Nat, NEW j \in Nat, Minute * i < Minute * j + Minute
      PROVE  i <= j
  <2> SUFFICES ASSUME i >= j + 1 PROVE FALSE
    BY <1>3
  <2>1. Minute * (i - (j + 1)) >= 0
    BY <1>1
  <2>2. Minute * (i - (j + 1)) = Minute * i - (Minute * j + Minute)
    BY <1>1
  <2>3. Minute * i \in Nat /\ Minute * j \in Nat
    BY <1>1
  <2> QED
    BY <1>1, <1>3, <2>1, <2>2, <2>3
<1>4. ASSUME NEW a \in 0..n, n < start(a) + Minute
      PROVE  start(n) <= a
  <2>1. a \in Nat
    OBVIOUS
  <2>2. start(a) = Minute * q(a) /\ start(n) = Minute * q(n) /\ q(a) \in Nat /\ q(n) \in Nat
    BY <1>2, <2>1
  <2>3. start(n) \in 0..n /\ start(a) \in 0..a
    BY <1>2, <2>1
  <2>4. q(n) <= q(a)
    BY <1>1, <1>3, <1>4, <2>2, <2>3
  <2>5. q(a) <= q(n)
    <3>1. n < Minute * q(n) + Minute
      BY <1>2
    <3>2. Minute * q(a) < Minute * q(n) + Minute
      BY <1>1, <2>1, <2>2, <2>3, <3>1
    <3> QED
      BY <1>3, <2>2, <3>2
  <2>6. q(a) = q(n)
    BY <2>2, <2>4, <2>5
  <2> QED
    BY <2>2, <2>3, <2>6
<1>5. start(n + 1) \in {start(n), n + 1}
  <2> DEFINE p == n + 1
  <2>1. p \in Nat /\ p = n + 1
    OBVIOUS
  <2>2. /\ start(p) = Minute * q(p) /\ start(n) = Minute * q(n)
        /\ q(p) \in Nat /\ q(n) \in Nat
        /\ start(p) \in 0..p /\ start(n) \in 0..n
        /\ n < Minute * q(n) + Minute /\ p < Minute * q(p) + Minute
    BY <1>2, <2>1
  <2> HIDE DEF q, start, p
  <2>3. q(n) <= q(p)
    <3>1. Minute * q(n) < Minute * q(p) + Minute
      BY <1>1, <2>1, <2>2
    <3> QED
      BY <1>3, <2>2, <3>1
  <2>4. CASE start(p) = p
    BY <2>1, <2>4
  <2>5. CASE start(p) # p
    <3>1. start(p) <= n
      BY <2>1, <2>2, <2>5
    <3>2. q(p) <= q(n)
      BY <1>1, <1>3, <2>2, <3>1
    <3>3. q(p) = q(n)
      BY <2>2, <2>3, <3>2
    <3> QED
      BY <2>1, <2>2, <3>3
  <2> QED
    BY <2>1, <2>4, <2>5
<1> QED
  BY <1>1, <1>2, <1>4, <1>5

(* What was allowed in an interval is a number, nothing after the last       *)
(* request and what was allowed up to it from then on.                       *)
LEMMA GotFacts ==
    ASSUME Limiter!TypeOK, GrantsAddUp, NEW a \in Limiter!Times, NEW b \in Limiter!Times,
           a <= b
    PROVE  /\ Limiter!Got(a, b) \in Nat
           /\ lastRequest < a => Limiter!Got(a, b) = 0
           /\ a <= lastRequest /\ lastRequest <= b
                 => Limiter!Got(a, b) = Limiter!Got(a, lastRequest)
           /\ \A c \in Limiter!Times :
                 /\ a <= c /\ c <= b => Limiter!Got(c, b) <= Limiter!Got(a, b)
                 /\ a <= c /\ c <= b => Limiter!Got(a, c) <= Limiter!Got(a, b)
<1>1. /\ MaxTime \in Nat /\ lastRequest \in 0..now /\ now \in 0..MaxTime
      /\ granted \in [0..MaxTime -> Nat] /\ a \in 0..MaxTime /\ b \in 0..MaxTime
  BY ClockAssumption DEF Limiter!TypeOK, Limiter!Times
<1>2. \A s, t \in 0..MaxTime : s <= t => granted[s] <= granted[t]
  BY DEF GrantsAddUp, Limiter!Times
<1>3. \A t \in 0..MaxTime : lastRequest <= t => granted[t] = granted[lastRequest]
  BY DEF GrantsAddUp, Limiter!Times
<1>4. \A c \in 0..MaxTime : c # 0 => c - 1 \in 0..MaxTime
  BY <1>1
<1>5. Limiter!Got(a, b) \in Nat
  BY <1>1, <1>2, <1>4 DEF Limiter!Got
<1>6. lastRequest < a => Limiter!Got(a, b) = 0
  BY <1>1, <1>3, <1>4 DEF Limiter!Got
<1>7. a <= lastRequest /\ lastRequest <= b => Limiter!Got(a, b) = Limiter!Got(a, lastRequest)
  BY <1>1, <1>3 DEF Limiter!Got
<1>8. ASSUME NEW c \in 0..MaxTime, a <= c, c <= b
      PROVE  Limiter!Got(c, b) <= Limiter!Got(a, b) /\ Limiter!Got(a, c) <= Limiter!Got(a, b)
  <2>1. granted[c] <= granted[b]
    BY <1>1, <1>2, <1>8
  <2>2. a # 0 => c # 0 /\ granted[a - 1] <= granted[c - 1]
    BY <1>1, <1>2, <1>4, <1>8
  <2>3. c # 0 => granted[c - 1] \in Nat
    BY <1>1, <1>4
  <2>4. a # 0 => granted[a - 1] \in Nat
    BY <1>1, <1>4
  <2>5. granted[b] \in Nat /\ granted[c] \in Nat
    BY <1>1
  <2> QED
    BY <2>1, <2>2, <2>3, <2>4, <2>5 DEF Limiter!Got
<1> QED
  BY <1>5, <1>6, <1>7, <1>8 DEF Limiter!Times

(* What WindowBound says of one interval.                                    *)
Within(a, b) ==
    /\ strategy = "fixed" /\ b < a - (a % Minute) + Minute => Limiter!Got(a, b) <= Limit
    /\ strategy = "sliding" /\ b - a <= Window => Limiter!Got(a, b) <= Limit
    /\ strategy = "log" /\ b - a < Window => Limiter!Got(a, b) <= Limit
    /\ strategy \in Limiter!Buckets =>
            Limiter!Got(a, b) * Window <= Limit * (Window + b - a)

LEMMA EveryInterval ==
    Limiter!WindowBound <=> \A a, b \in Limiter!Times : a <= b => Within(a, b)
  BY DEF Limiter!WindowBound, Within

(* A key without grants knows of them what there is to know.                 *)
LEMMA FreshKey ==
    ASSUME Limiter!TypeOK, granted = Limiter!Never, strategy = "log" => log = {}
    PROVE  LimiterIInv
<1> USE ClockAssumption
<1>1. /\ MaxTime \in Nat /\ now \in 0..MaxTime /\ lastRequest \in 0..now
      /\ count \in Nat /\ tokens \in 0..(Limit * Window)
      /\ Window \in Nat /\ Limit \in Nat
  BY DEF Limiter!TypeOK, Limiter!Times, Limiter!Full
<1>2. \A a, b \in Limiter!Times : Limiter!Got(a, b) = 0
  BY <1>1 DEF Limiter!Never, Limiter!Times, Limiter!Got
<1>3. GrantsAddUp
  BY <1>1 DEF GrantsAddUp, Limiter!Never, Limiter!Times
<1>4. \A k \in Nat : Limit * (Window + k) >= Limit * Window /\ Limit * k >= 0
  BY <1>1
<1>5. Limit * Window >= 0
  BY <1>1
<1>6. Limiter!WindowBound
  <2> SUFFICES ASSUME NEW a \in Limiter!Times, NEW b \in Limiter!Times, a <= b
               PROVE  Within(a, b)
    BY EveryInterval
  <2>1. b - a \in Nat /\ Window + (b - a) = Window + b - a
    BY <1>1 DEF Limiter!Times
  <2>2. Limit * (Window + b - a) >= 0
    BY <1>4, <1>5, <1>1, <2>1
  <2>3. Limiter!Got(a, b) = 0
    BY <1>2
  <2> QED
    BY <1>1, <2>2, <2>3 DEF Within
<1>7. FixedKnows
  BY <1>1, <1>2, MinuteOfClock DEF FixedKnows, Limiter!MinuteStart, Limiter!Times
<1>8. SlidingKnows
  BY <1>1, <1>2 DEF SlidingKnows, Limiter!Times
<1>9. TokensKnow
  <2> SUFFICES ASSUME NEW a \in 0..lastRequest
               PROVE  Limiter!Got(a, lastRequest) * Window + tokens
                         <= Limit * (Window + lastRequest - a)
    BY DEF TokensKnow
  <2>1. Limiter!Got(a, lastRequest) = 0
    BY <1>1, <1>2 DEF Limiter!Times
  <2>2. lastRequest - a \in Nat /\ Window + (lastRequest - a) = Window + lastRequest - a
    BY <1>1
  <2>3. Limit * (Window + lastRequest - a) >= Limit * Window
    BY <1>4, <2>2
  <2> QED
    BY <1>1, <2>1, <2>3
<1>10. LevelKnows
  <2> SUFFICES ASSUME NEW a \in 0..lastRequest
               PROVE  Limiter!Got(a, lastRequest) * Window <= tokens + Limit * (lastRequest - a)
    BY DEF LevelKnows
  <2>1. Limiter!Got(a, lastRequest) = 0
    BY <1>1, <1>2 DEF Limiter!Times
  <2>2. Limit * (lastRequest - a) >= 0 /\ Limit * (lastRequest - a) \in Int
    BY <1>1, <1>4
  <2> QED
    BY <1>1, <2>1, <2>2
<1>11. strategy = "log" => LogKnows
  <2> SUFFICES ASSUME log = {} PROVE LogKnows
    OBVIOUS
  <2>1. ASSUME NEW a \in 0..now
        PROVE  Limiter!Got(a, now) <= Cardinality({e \in log : e[1] >= a})
    <3>1. {e \in log : e[1] >= a} = {}
      OBVIOUS
    <3>2. Cardinality({e \in log : e[1] >= a}) = 0
      BY <3>1, FS_EmptySet
    <3>3. Limiter!Got(a, now) = 0
      BY <1>1, <1>2 DEF Limiter!Times
    <3> QED
      BY <3>2, <3>3
  <2> QED
    BY <2>1 DEF LogKnows
<1> QED
  BY <1>3, <1>6, <1>7, <1>8, <1>9, <1>10, <1>11 DEF LimiterIInv

LEMMA LimiterInit == Limiter!Init => LimiterIInv
<1> SUFFICES ASSUME Limiter!Init PROVE LimiterIInv
  OBVIOUS
<1>1. Minute - 1 <= MaxTime /\ MaxTime \in Nat /\ now \in 0..(Minute - 1) /\ now \in 0..MaxTime
  BY ClockAssumption DEF Limiter!Init
<1>2. Limit * Window \in Nat /\ Limit \in Nat
  BY ClockAssumption
<1>3. tokens \in 0..(Limit * Window)
  BY <1>2 DEF Limiter!Init, Limiter!Initially, Limiter!Full
<1>4. Limiter!Cardinality(log) = 0
  BY LimiterCount, FS_EmptySet DEF Limiter!Init
<1>5. Limiter!TypeOK
  BY <1>1, <1>2, <1>3, <1>4
  DEF Limiter!Init, Limiter!TypeOK, Limiter!Times, Limiter!Full, Limiter!Never
<1> QED
  BY <1>5, FreshKey DEF Limiter!Init

(* A check adds its cost to what was allowed up to now, if it is allowed.    *)
LEMMA GrantStep ==
    ASSUME LimiterIInv, NEW cost \in Nat, UNCHANGED now,
           lastRequest' = now,
           granted' = IF verdict' = "allowed"
                      THEN [t \in Limiter!Times |-> granted[t] + IF t >= now THEN cost ELSE 0]
                      ELSE granted
    PROVE  /\ granted' \in [Limiter!Times -> Nat]
           /\ GrantsAddUp'
           /\ \A a \in 0..now, b \in Limiter!Times :
                 now <= b => Limiter!Got(a, b)' =
                                 Limiter!Got(a, now) + IF verdict' = "allowed" THEN cost ELSE 0
           /\ \A a, b \in Limiter!Times :
                 a <= b /\ ~(a <= now /\ now <= b) => Limiter!Got(a, b)' = Limiter!Got(a, b)
<1> DEFINE more == IF verdict' = "allowed" THEN cost ELSE 0
<1>1. /\ MaxTime \in Nat /\ lastRequest \in 0..now /\ now \in 0..MaxTime
      /\ granted \in [0..MaxTime -> Nat] /\ more \in Nat
  BY ClockAssumption DEF LimiterIInv, Limiter!TypeOK, Limiter!Times
<1>2. granted' = [t \in 0..MaxTime |-> granted[t] + IF t >= now THEN more ELSE 0]
  <2>1. CASE verdict' = "allowed"
    BY <2>1 DEF Limiter!Times
  <2>2. CASE verdict' # "allowed"
    <3>1. more = 0 /\ granted' = granted
      BY <2>2
    <3>2. \A t \in 0..MaxTime : granted[t] = granted[t] + IF t >= now THEN more ELSE 0
      BY <1>1, <3>1
    <3>3. granted = [t \in 0..MaxTime |-> granted[t]]
      BY <1>1
    <3> QED
      BY <3>1, <3>2, <3>3
  <2> QED
    BY <2>1, <2>2
<1> HIDE DEF more
<1>3. granted' \in [0..MaxTime -> Nat]
  BY <1>1, <1>2
<1>4. /\ \A s, t \in 0..MaxTime : s <= t => granted[s] <= granted[t]
      /\ \A t \in 0..MaxTime : now <= t => granted[t] = granted[now]
  BY <1>1 DEF LimiterIInv, GrantsAddUp, Limiter!Times
<1>5. GrantsAddUp'
  <2>1. ASSUME NEW s \in 0..MaxTime, NEW t \in 0..MaxTime, s <= t
        PROVE  granted'[s] <= granted'[t]
    BY <1>1, <1>2, <1>4, <2>1
  <2>2. ASSUME NEW t \in 0..MaxTime, now <= t PROVE granted'[t] = granted'[now]
    BY <1>1, <1>2, <1>4, <2>2
  <2> QED
    BY <2>1, <2>2 DEF GrantsAddUp, Limiter!Times
<1>6. ASSUME NEW a \in 0..now, NEW b \in 0..MaxTime, now <= b
      PROVE  Limiter!Got(a, b)' = Limiter!Got(a, now) + more
  <2>1. granted'[b] = granted[now] + more /\ granted[now] \in Nat
    BY <1>1, <1>2, <1>4, <1>6
  <2>2. a # 0 => granted'[a - 1] = granted[a - 1] /\ granted[a - 1] \in Nat
    BY <1>1, <1>2
  <2> QED
    BY <1>1, <2>1, <2>2 DEF Limiter!Got
<1>7. ASSUME NEW a \in 0..MaxTime, NEW b \in 0..MaxTime, a <= b, ~(a <= now /\ now <= b)
      PROVE  Limiter!Got(a, b)' = Limiter!Got(a, b)
  <2>1. granted[b] \in Nat /\ (a # 0 => a - 1 \in 0..MaxTime /\ granted[a - 1] \in Nat)
    BY <1>1
  <2>2. CASE b < now
    BY <1>1, <1>2, <1>7, <2>1, <2>2 DEF Limiter!Got
  <2>3. CASE now < a
    <3>1. /\ granted'[b] = granted[b] + more /\ a # 0
          /\ granted'[a - 1] = granted[a - 1] + more
      BY <1>1, <1>2, <1>7, <2>3
    <3> QED
      BY <1>1, <2>1, <3>1 DEF Limiter!Got
  <2> QED
    BY <1>1, <1>7, <2>2, <2>3
<1> QED
  BY <1>3, <1>5, <1>6, <1>7 DEF Limiter!Times, more

(* An interval that ends before now, or begins later, was within bounds; the *)
(* others have to be shown to be.                                            *)
LEMMA StillWithin ==
    ASSUME LimiterIInv, NEW cost \in Nat, UNCHANGED <<now, strategy>>,
           lastRequest' = now,
           granted' = IF verdict' = "allowed"
                      THEN [t \in Limiter!Times |-> granted[t] + IF t >= now THEN cost ELSE 0]
                      ELSE granted,
           \A a \in 0..now, b \in Limiter!Times : now <= b => Within(a, b)'
    PROVE  Limiter!WindowBound'
<1> SUFFICES ASSUME NEW a \in Limiter!Times, NEW b \in Limiter!Times, a <= b
             PROVE  Within(a, b)'
  BY DEF Limiter!WindowBound, Within
<1>1. MaxTime \in Nat /\ now \in 0..MaxTime
  BY ClockAssumption DEF LimiterIInv, Limiter!TypeOK, Limiter!Times
<1>2. CASE a <= now /\ now <= b
  BY <1>1, <1>2 DEF Limiter!Times
<1>3. CASE ~(a <= now /\ now <= b)
  <2>1. Limiter!Got(a, b)' = Limiter!Got(a, b)
    BY <1>3, GrantStep
  <2>2. Within(a, b)
    BY EveryInterval DEF LimiterIInv
  <2> QED
    BY <2>1, <2>2 DEF Within
<1> QED
  BY <1>2, <1>3

(* What the strategies have in common in a check.                            *)
LEMMA CheckStep ==
    ASSUME LimiterIInv, NEW cost \in Costs, Limiter!CheckRateLimit(cost)
    PROVE  /\ UNCHANGED <<strategy, now, since>> /\ lastRequest' = now
           /\ cost \in Nat /\ verdict' \in {"allowed", "denied"}
           /\ GrantsAddUp'
           /\ \A a \in 0..now, b \in Limiter!Times :
                 now <= b => Limiter!Got(a, b)' =
                                 Limiter!Got(a, now) + IF verdict' = "allowed" THEN cost ELSE 0
           /\ (\A a \in 0..now, b \in Limiter!Times : now <= b => Within(a, b)')
                 => Limiter!WindowBound'
           /\ /\ count' \in 0..Limit /\ windowStart' \in 0..now
              /\ tokens' \in 0..Limiter!Full
              /\ log' \subseteq (0..now) \X (0..Limit) /\ Cardinality(log') <= Limit
              => Limiter!TypeOK'
<1>1. cost \in Nat
  BY ClockAssumption
<1>2. /\ UNCHANGED <<strategy, now, since>> /\ lastRequest' = now
      /\ verdict' \in {"allowed", "denied"}
      /\ asked' = asked \cup {now}
      /\ granted' = IF verdict' = "allowed"
                    THEN [t \in Limiter!Times |-> granted[t] + IF t >= now THEN cost ELSE 0]
                    ELSE granted
  BY DEF Limiter!CheckRateLimit, Limiter!LastRequest, Limiter!FixedWindow,
         Limiter!SlidingWindow, Limiter!TokenBucket, Limiter!LeakyBucket, Limiter!RequestLog
<1>3. /\ granted' \in [Limiter!Times -> Nat]
      /\ GrantsAddUp'
      /\ \A a \in 0..now, b \in Limiter!Times :
            now <= b => Limiter!Got(a, b)' =
                            Limiter!Got(a, now) + IF verdict' = "allowed" THEN cost ELSE 0
  BY <1>1, <1>2, GrantStep
<1>4. (\A a \in 0..now, b \in Limiter!Times : now <= b => Within(a, b)')
          => Limiter!WindowBound'
  BY <1>1, <1>2, StillWithin
<1>5. ASSUME count' \in 0..Limit, windowStart' \in 0..now, tokens' \in 0..Limiter!Full,
             log' \subseteq (0..now) \X (0..Limit), Cardinality(log') <= Limit
      PROVE  Limiter!TypeOK'
  <2>1. Limiter!Cardinality(log') <= Limit
    BY <1>5, LimiterCount
  <2>2. now \in 0..now
    BY ClockAssumption DEF LimiterIInv, Limiter!TypeOK, Limiter!Times
  <2> QED
    BY <1>2, <1>3, <1>5, <2>1, <2>2
    DEF LimiterIInv, Limiter!TypeOK, Limiter!Times, Limiter!Full
<1> QED
  BY <1>1, <1>2, <1>3, <1>4, <1>5

(* _check_fixed_window: the count is of this minute, which holds every       *)
(* interval within a minute that ends now or later.                          *)
LEMMA FixedStep ==
    ASSUME LimiterIInv, NEW cost \in Costs, Limiter!CheckRateLimit(cost), strategy = "fixed"
    PROVE  LimiterIInv'
<1> DEFINE used == IF Limiter!WindowEnded THEN 0 ELSE count
           more == IF verdict' = "allowed" THEN cost ELSE 0
           start == Limiter!MinuteStart
<1>1. /\ MaxTime \in Nat /\ now \in 0..MaxTime /\ count \in 0..Limit /\ windowStart \in 0..now
      /\ Limit \in Nat /\ lastRequest \in 0..now
      /\ Limiter!TypeOK /\ GrantsAddUp /\ FixedKnows
  BY ClockAssumption DEF LimiterIInv, Limiter!TypeOK, Limiter!Times
<1>2. cost \in Nat /\ more \in Nat
  BY CheckStep
<1>3. /\ count' = used + more /\ used \in 0..Limit
      /\ count' \in 0..Limit
      /\ windowStart' = IF Limiter!WindowEnded THEN start ELSE windowStart
      /\ UNCHANGED <<tokens, log>>
  BY <1>1, <1>2 DEF Limiter!CheckRateLimit, Limiter!FixedWindow, Limiter!SlidingWindow,
     Limiter!TokenBucket, Limiter!LeakyBucket, Limiter!RequestLog
<1>4. start \in 0..now /\ start' = start
  BY <1>1, MinuteOfClock, CheckStep DEF Limiter!MinuteStart
<1>5. ~(windowStart' < start')
  BY <1>1, <1>3, <1>4 DEF Limiter!WindowEnded
<1>6. Limiter!Got(start, now) <= used
  BY <1>1, <1>4 DEF FixedKnows, Limiter!WindowEnded
<1>7. ASSUME NEW a \in 0..now, start <= a, NEW b \in Limiter!Times, now <= b
      PROVE  Limiter!Got(a, b)' <= count'
  <2>1. Limiter!Got(a, now) <= Limiter!Got(start, now) /\ Limiter!Got(a, now) \in Nat
    BY <1>1, <1>4, <1>7, GotFacts DEF Limiter!Times
  <2>2. Limiter!Got(start, now) \in Nat
    BY <1>1, <1>4, GotFacts DEF Limiter!Times
  <2>3. Limiter!Got(a, b)' = Limiter!Got(a, now) + more
    BY <1>7, CheckStep
  <2> QED
    BY <1>1, <1>2, <1>3, <1>6, <2>1, <2>2, <2>3
<1>8. FixedKnows'
  <2>1. PICK a \in 0..now, b \in Limiter!Times : a = start /\ b = now
    BY <1>1, <1>4 DEF Limiter!Times
  <2>2. a = start' /\ b = now'
    BY <1>4, <2>1, CheckStep
  <2>3. Limiter!Got(a, b)' <= count'
    BY <1>1, <1>4, <1>7, <2>1
  <2>4. Limiter!Got(start, now)' = Limiter!Got(a, b)'
    BY <2>2 DEF Limiter!Got
  <2> QED
    BY <1>5, <2>3, <2>4 DEF FixedKnows
<1>9. Limiter!WindowBound'
  <2>1. ASSUME NEW a \in 0..now, NEW b \in Limiter!Times, now <= b
        PROVE  Within(a, b)'
    <3> SUFFICES ASSUME b < a - (a % Minute) + Minute
                 PROVE  Limiter!Got(a, b)' <= Limit
      BY CheckStep DEF Within, Limiter!Buckets
    <3>1. a - (a % Minute) \in Int
      BY <1>1, ClockAssumption
    <3>2. now < a - (a % Minute) + Minute
      BY <1>1, <2>1, <3>1, ClockAssumption DEF Limiter!Times
    <3>3. start <= a
      BY <1>1, <3>2, MinuteOfClock DEF Limiter!MinuteStart
    <3>4. Limiter!Got(a, b)' \in Nat
      <4>1. Limiter!Got(a, now) \in Nat
        BY <1>1, GotFacts DEF Limiter!Times
      <4> QED
        BY <1>2, <2>1, <4>1, CheckStep
    <3> QED
      BY <1>1, <1>3, <1>7, <2>1, <3>3, <3>4
  <2> QED
    BY <2>1, CheckStep
<1>10. Limiter!TypeOK'
  <2>1. windowStart' \in 0..now
    BY <1>1, <1>3, <1>4
  <2>2. /\ tokens' \in 0..Limiter!Full /\ log' \subseteq (0..now) \X (0..Limit)
        /\ Cardinality(log') <= Limit
    BY <1>1, <1>3, LimiterCount DEF Limiter!TypeOK
  <2> QED
    BY <1>3, <2>1, <2>2, CheckStep
<1> QED
  BY <1>8, <1>9, <1>10, CheckStep DEF LimiterIInv

(* _check_sliding_window: the count is of everything since a pause of more   *)
(* than a window.                                                            *)
LEMMA SlidingStep ==
    ASSUME LimiterIInv, NEW cost \in Costs, Limiter!CheckRateLimit(cost),
           strategy = "sliding"
    PROVE  LimiterIInv'
<1> DEFINE used == IF lastRequest < now - Window THEN 0 ELSE count
           more == IF verdict' = "allowed" THEN cost ELSE 0
<1>1. /\ MaxTime \in Nat /\ now \in 0..MaxTime /\ count \in 0..Limit /\ windowStart \in 0..now
      /\ Limit \in Nat /\ lastRequest \in 0..now /\ Window \in Nat
      /\ Limiter!TypeOK /\ GrantsAddUp /\ SlidingKnows
  BY ClockAssumption DEF LimiterIInv, Limiter!TypeOK, Limiter!Times
<1>2. cost \in Nat /\ more \in Nat
  BY CheckStep
<1>3. /\ count' = used + more /\ used \in 0..Limit
      /\ count' \in 0..Limit
      /\ UNCHANGED <<windowStart, tokens, log>>
  BY <1>1, <1>2 DEF Limiter!CheckRateLimit, Limiter!FixedWindow, Limiter!SlidingWindow,
     Limiter!TokenBucket, Limiter!LeakyBucket, Limiter!RequestLog
<1>4. ASSUME NEW a \in 0..now, now - Window <= a, NEW b \in Limiter!Times, now <= b
      PROVE  Limiter!Got(a, b)' <= count'
  <2>1. Limiter!Got(a, now) <= used
    <3>1. CASE lastRequest < now - Window
      BY <1>1, <1>4, <3>1, GotFacts DEF Limiter!Times
    <3>2. CASE ~(lastRequest < now - Window)
      <4>1. lastRequest - Window <= a
        BY <1>1, <1>4, <3>2
      <4> QED
        BY <1>1, <3>2, <4>1 DEF SlidingKnows
    <3> QED
      BY <3>1, <3>2
  <2>2. Limiter!Got(a, now) \in Nat
    BY <1>1, GotFacts DEF Limiter!Times
  <2>3. Limiter!Got(a, b)' = Limiter!Got(a, now) + more
    BY <1>4, CheckStep
  <2> QED
    BY <1>1, <1>2, <1>3, <2>1, <2>2, <2>3
<1>5. SlidingKnows'
  BY <1>1, <1>4, CheckStep DEF SlidingKnows, Limiter!Times
<1>6. Limiter!WindowBound'
  <2>1. ASSUME NEW a \in 0..now, NEW b \in Limiter!Times, now <= b
        PROVE  Within(a, b)'
    <3> SUFFICES ASSUME b - a <= Window
                 PROVE  Limiter!Got(a, b)' <= Limit
      BY CheckStep DEF Within, Limiter!Buckets
    <3>1. now - Window <= a
      BY <1>1, <2>1 DEF Limiter!Times
    <3>2. Limiter!Got(a, b)' \in Nat
      <4>1. Limiter!Got(a, now) \in Nat
        BY <1>1, GotFacts DEF Limiter!Times
      <4> QED
        BY <1>2, <2>1, <4>1, CheckStep
    <3> QED
      BY <1>1, <1>3, <1>4, <2>1, <3>1, <3>2
  <2> QED
    BY <2>1, CheckStep
<1>7. Limiter!TypeOK'
  <2>1. /\ tokens' \in 0..Limiter!Full /\ log' \subseteq (0..now) \X (0..Limit)
        /\ Cardinality(log') <= Limit
    BY <1>1, <1>3, LimiterCount DEF Limiter!TypeOK
  <2> QED
    BY <1>1, <1>3, <2>1, CheckStep
<1> QED
  BY <1>5, <1>6, <1>7, CheckStep DEF LimiterIInv

(* _check_token_bucket: every token given out was there or has come since.   *)
LEMMA TokenStep ==
    ASSUME LimiterIInv, NEW cost \in Costs, Limiter!CheckRateLimit(cost), strategy = "token"
    PROVE  LimiterIInv'
<1> DEFINE more == IF verdict' = "allowed" THEN cost ELSE 0
           have == Limiter!Refilled
<1>1. /\ MaxTime \in Nat /\ now \in 0..MaxTime /\ tokens \in 0..(Limit * Window)
      /\ Limit \in Nat /\ lastRequest \in 0..now /\ Window \in Nat
      /\ Limit * Window \in Nat
      /\ Limiter!TypeOK /\ GrantsAddUp /\ TokensKnow
  BY ClockAssumption DEF LimiterIInv, Limiter!TypeOK, Limiter!Times, Limiter!Full
<1>2. cost \in Nat /\ more \in Nat /\ cost * Window \in Nat /\ more * Window \in Nat
  BY <1>1, CheckStep
<1>3. (now - lastRequest) * Limit \in Nat
  BY <1>1
<1>4. /\ have \in 0..(Limit * Window)
      /\ have <= tokens + (now - lastRequest) * Limit
  BY <1>1, <1>3 DEF Limiter!Refilled, Limiter!Elapsed, Limiter!Full
<1>5. /\ tokens' = have - more * Window
      /\ tokens' \in 0..(Limit * Window)
      /\ UNCHANGED <<count, windowStart, log>>
  <2>1. /\ verdict' = IF have >= cost * Window THEN "allowed" ELSE "denied"
        /\ tokens' = IF verdict' = "allowed" THEN have - cost * Window ELSE have
        /\ UNCHANGED <<count, windowStart, log>>
    BY DEF Limiter!CheckRateLimit, Limiter!FixedWindow, Limiter!SlidingWindow,
           Limiter!TokenBucket, Limiter!LeakyBucket, Limiter!RequestLog
  <2>2. CASE verdict' = "allowed"
    BY <1>1, <1>2, <1>4, <2>1, <2>2
  <2>3. CASE verdict' # "allowed"
    <3>1. more * Window = 0
      BY <1>1, <2>3
    <3> QED
      BY <1>4, <2>1, <2>3, <3>1
  <2> QED
    BY <2>2, <2>3
<1>6. ASSUME NEW a \in 0..now, NEW b \in Limiter!Times, now <= b
      PROVE  /\ Limiter!Got(a, b)' \in Nat
             /\ Limiter!Got(a, b)' * Window + tokens' <= Limit * (Window + now - a)
  <2>1. Limiter!Got(a, now) \in Nat
    BY <1>1, GotFacts DEF Limiter!Times
  <2>2. Limiter!Got(a, b)' = Limiter!Got(a, now) + more
    BY <1>6, CheckStep
  <2>3. Limiter!Got(a, now) * Window + have <= Limit * (Window + now - a)
    <3>1. CASE a <= lastRequest
      <4>1. Limiter!Got(a, now) = Limiter!Got(a, lastRequest)
        BY <1>1, <3>1, GotFacts DEF Limiter!Times
      <4>2. Limiter!Got(a, now) * Window + tokens <= Limit * (Window + lastRequest - a)
        BY <1>1, <3>1, <4>1 DEF TokensKnow
      <4>3. Limit * (Window + lastRequest - a) + (now - lastRequest) * Limit
              = Limit * (Window + now - a)
        BY <1>1
      <4>4. Limiter!Got(a, now) * Window \in Nat
        BY <1>1, <2>1
      <4>5. /\ Limit * (Window + lastRequest - a) \in Int
            /\ Limit * (Window + now - a) \in Int
        BY <1>1
      <4> QED
        BY <1>1, <1>3, <1>4, <4>2, <4>3, <4>4, <4>5
    <3>2. CASE lastRequest < a
      <4>1. Limiter!Got(a, now) = 0
        BY <1>1, <3>2, GotFacts DEF Limiter!Times
      <4>2. Limit * (Window + now - a) = Limit * Window + Limit * (now - a)
        BY <1>1
      <4>3. Limit * (now - a) \in Nat /\ 0 * Window = 0
        BY <1>1, <1>6
      <4> QED
        BY <1>1, <1>4, <4>1, <4>2, <4>3
    <3> QED
      BY <1>1, <3>1, <3>2
  <2>4. (Limiter!Got(a, now) + more) * Window = Limiter!Got(a, now) * Window + more * Window
    BY <1>1, <1>2, <2>1
  <2>5. Limiter!Got(a, now) * Window \in Nat /\ Limit * (Window + now - a) \in Int
    BY <1>1, <2>1
  <2> QED
    BY <1>1, <1>2, <1>4, <1>5, <2>1, <2>2, <2>3, <2>4, <2>5
<1>7. TokensKnow'
  BY <1>1, <1>6, CheckStep DEF TokensKnow, Limiter!Times
<1>8. Limiter!WindowBound'
  <2>1. ASSUME NEW a \in 0..now, NEW b \in Limiter!Times, now <= b
        PROVE  Within(a, b)'
    <3>1. Limiter!Got(a, b)' * Window + tokens' <= Limit * (Window + now - a)
      BY <2>1, <1>6
    <3>2. Limiter!Got(a, b)' * Window \in Nat
      BY <1>1, <1>6, <2>1
    <3>3. Limit * (Window + b - a) = Limit * (Window + now - a) + Limit * (b - now)
      BY <1>1 DEF Limiter!Times
    <3>4. Limit * (b - now) \in Nat /\ Limit * (Window + now - a) \in Int
      BY <1>1, <2>1 DEF Limiter!Times
    <3>5. Limiter!Got(a, b)' * Window <= Limit * (Window + b - a)
      BY <1>5, <3>1, <3>2, <3>3, <3>4
    <3> QED
      BY <3>5, CheckStep DEF Within
  <2> QED
    BY <2>1, CheckStep
<1>9. Limiter!TypeOK'
  <2>1. /\ count' \in 0..Limit /\ windowStart' \in 0..now
        /\ log' \subseteq (0..now) \X (0..Limit)
        /\ Cardinality(log') <= Limit /\ tokens' \in 0..Limiter!Full
    BY <1>1, <1>5, LimiterCount DEF Limiter!TypeOK, Limiter!Full
  <2> QED
    BY <2>1, CheckStep
<1> QED
  BY <1>7, <1>8, <1>9, CheckStep DEF LimiterIInv

(* _check_leaky_bucket: what was let in is in the bucket or has leaked.      *)
LEMMA LeakyStep ==
    ASSUME LimiterIInv, NEW cost \in Costs, Limiter!CheckRateLimit(cost), strategy = "leaky"
    PROVE  LimiterIInv'
<1> DEFINE more == IF verdict' = "allowed" THEN cost ELSE 0
           left == Limiter!Leaked
<1>1. /\ MaxTime \in Nat /\ now \in 0..MaxTime /\ tokens \in 0..(Limit * Window)
      /\ Limit \in Nat /\ lastRequest \in 0..now /\ Window \in Nat
      /\ Limit * Window \in Nat
      /\ Limiter!TypeOK /\ GrantsAddUp /\ LevelKnows
  BY ClockAssumption DEF LimiterIInv, Limiter!TypeOK, Limiter!Times, Limiter!Full
<1>2. cost \in Nat /\ more \in Nat /\ cost * Window \in Nat /\ more * Window \in Nat
  BY <1>1, CheckStep
<1>3. (now - lastRequest) * Limit \in Nat
  BY <1>1
<1>4. /\ left \in 0..(Limit * Window)
      /\ tokens <= left + (now - lastRequest) * Limit
  BY <1>1, <1>3 DEF Limiter!Leaked, Limiter!Elapsed
<1>5. /\ tokens' = left + more * Window
      /\ tokens' \in 0..(Limit * Window)
      /\ UNCHANGED <<count, windowStart, log>>
  <2>1. /\ verdict' = IF left + cost * Window <= Limit * Window THEN "allowed" ELSE "denied"
        /\ tokens' = IF verdict' = "allowed" THEN left + cost * Window ELSE left
        /\ UNCHANGED <<count, windowStart, log>>
    BY DEF Limiter!CheckRateLimit, Limiter!FixedWindow, Limiter!SlidingWindow, Limiter!Full,
           Limiter!TokenBucket, Limiter!LeakyBucket, Limiter!RequestLog
  <2>2. CASE verdict' = "allowed"
    BY <1>1, <1>2, <1>4, <2>1, <2>2
  <2>3. CASE verdict' # "allowed"
    <3>1. more * Window = 0
      BY <1>1, <2>3
    <3> QED
      BY <1>4, <2>1, <2>3, <3>1
  <2> QED
    BY <2>2, <2>3
<1>6. ASSUME NEW a \in 0..now, NEW b \in Limiter!Times, now <= b
      PROVE  /\ Limiter!Got(a, b)' \in Nat
             /\ Limiter!Got(a, b)' * Window <= tokens' + Limit * (now - a)
  <2>1. Limiter!Got(a, now) \in Nat
    BY <1>1, GotFacts DEF Limiter!Times
  <2>2. Limiter!Got(a, b)' = Limiter!Got(a, now) + more
    BY <1>6, CheckStep
  <2>3. Limiter!Got(a, now) * Window <= left + Limit * (now - a)
    <3>1. CASE a <= lastRequest
      <4>1. Limiter!Got(a, now) = Limiter!Got(a, lastRequest)
        BY <1>1, <3>1, GotFacts DEF Limiter!Times
      <4>2. Limiter!Got(a, now) * Window <= tokens + Limit * (lastRequest - a)
        BY <1>1, <3>1, <4>1 DEF LevelKnows
      <4>3. Limit * (lastRequest - a) + (now - lastRequest) * Limit = Limit * (now - a)
        BY <1>1
      <4>4. Limiter!Got(a, now) * Window \in Nat
        BY <1>1, <2>1
      <4>5. Limit * (lastRequest - a) \in Int /\ Limit * (now - a) \in Int
        BY <1>1
      <4> QED
        BY <1>1, <1>3, <1>4, <4>2, <4>3, <4>4, <4>5
    <3>2. CASE lastRequest < a
      <4>1. Limiter!Got(a, now) = 0
        BY <1>1, <3>2, GotFacts DEF Limiter!Times
      <4>2. Limit * (now - a) \in Nat /\ 0 * Window = 0
        BY <1>1, <1>6
      <4> QED
        BY <1>1, <1>4, <4>1, <4>2
    <3> QED
      BY <1>1, <3>1, <3>2
  <2>4. (Limiter!Got(a, now) + more) * Window = Limiter!Got(a, now) * Window + more * Window
    BY <1>1, <1>2, <2>1
  <2>5. Limiter!Got(a, now) * Window \in Nat /\ Limit * (now - a) \in Int
    BY <1>1, <2>1
  <2> QED
    BY <1>1, <1>2, <1>4, <1>5, <2>1, <2>2, <2>3, <2>4, <2>5
<1>7. LevelKnows'
  BY <1>1, <1>6, CheckStep DEF LevelKnows, Limiter!Times
<1>8. Limiter!WindowBound'
  <2>1. ASSUME NEW a \in 0..now, NEW b \in Limiter!Times, now <= b
        PROVE  Within(a, b)'
    <3>1. Limiter!Got(a, b)' * Window <= tokens' + Limit * (now - a)
      BY <2>1, <1>6
    <3>2. Limiter!Got(a, b)' * Window \in Nat
      BY <1>1, <1>6, <2>1
    <3>3. Limit * (Window + b - a) = Limit * Window + Limit * (now - a) + Limit * (b - now)
      BY <1>1 DEF Limiter!Times
    <3>4. Limit * (b - now) \in Nat /\ Limit * (now - a) \in Int
      BY <1>1, <2>1 DEF Limiter!Times
    <3>5. Limiter!Got(a, b)' * Window <= Limit * (Window + b - a)
      BY <1>1, <1>5, <3>1, <3>2, <3>3, <3>4
    <3> QED
      BY <3>5, CheckStep DEF Within
  <2> QED
    BY <2>1, CheckStep
<1>9. Limiter!TypeOK'
  <2>1. /\ count' \in 0..Limit /\ windowStart' \in 0..now
        /\ log' \subseteq (0..now) \X (0..Limit)
        /\ Cardinality(log') <= Limit /\ tokens' \in 0..Limiter!Full
    BY <1>1, <1>5, LimiterCount DEF Limiter!TypeOK, Limiter!Full
  <2> QED
    BY <2>1, CheckStep
<1> QED
  BY <1>7, <1>8, <1>9, CheckStep DEF LimiterIInv

(* is_allowed of MemoryRateLimiter: what was allowed less than a window ago  *)
(* is in the log, each grant with an entry of its own.                       *)
LEMMA LogStep ==
    ASSUME LimiterIInv, NEW cost \in Costs, Limiter!CheckRateLimit(cost), strategy = "log"
    PROVE  LimiterIInv'
<1> DEFINE kept == {e \in log : e[1] > now - Window}
           size == Cardinality(kept)
           fresh == <<now, size>>
           since_(a) == {e \in log : e[1] >= a}
           since_next(a) == {e \in log' : e[1] >= a}
<1>1. /\ MaxTime \in Nat /\ now \in 0..MaxTime /\ log \subseteq (0..now) \X (0..Limit)
      /\ Limit \in Nat /\ lastRequest \in 0..now /\ Window \in Nat \ {0}
      /\ Cardinality(log) <= Limit
      /\ Limiter!TypeOK /\ GrantsAddUp /\ LogKnows
  BY ClockAssumption, LimiterCount DEF LimiterIInv, Limiter!TypeOK, Limiter!Times
<1>2. IsFiniteSet(log)
  <2>1. IsFiniteSet(0..now) /\ IsFiniteSet(0..Limit)
    BY <1>1, FS_Interval
  <2>2. IsFiniteSet((0..now) \X (0..Limit))
    BY <2>1, FS_Product
  <2> QED
    BY <1>1, <2>2, FS_Subset
<1>3. /\ kept \in SUBSET log /\ IsFiniteSet(kept) /\ size \in Nat
      /\ size <= Cardinality(log)
  BY <1>2, FS_Subset, FS_CardinalityType
<1>4. /\ verdict' = IF size < Limit THEN "allowed" ELSE "denied"
      /\ log' = IF verdict' = "allowed" THEN kept \cup {fresh} ELSE kept
      /\ cost = 1
      /\ UNCHANGED <<count, windowStart, tokens>>
  BY LimiterCount
  DEF Limiter!CheckRateLimit, Limiter!FixedWindow, Limiter!SlidingWindow,
      Limiter!TokenBucket, Limiter!LeakyBucket, Limiter!RequestLog
<1> DEFINE more == IF verdict' = "allowed" THEN 1 ELSE 0
<1>5. fresh \notin kept
  BY <1>1, <1>3 DEF LogKnows
<1>6. /\ IsFiniteSet(log') /\ Cardinality(log') = size + more
      /\ Cardinality(log') <= Limit
  <2> HIDE DEF kept, size, fresh
  <2>1. CASE verdict' = "allowed"
    <3>1. size < Limit /\ log' = kept \cup {fresh} /\ more = 1
      BY <1>4, <2>1
    <3>2. IsFiniteSet(kept \cup {fresh}) /\ Cardinality(kept \cup {fresh}) = Cardinality(kept) + 1
      BY <1>3, <1>5, FS_AddElement
    <3>3. size = Cardinality(kept)
      BY DEF size
    <3> QED
      BY <1>1, <1>3, <3>1, <3>2, <3>3
  <2>2. CASE verdict' # "allowed"
    <3>1. log' = kept /\ more = 0 /\ size = Cardinality(kept)
      BY <1>4, <2>2 DEF size
    <3>2. size <= Limit
      BY <1>1, <1>2, <1>3, FS_CardinalityType
    <3> QED
      BY <1>3, <3>1, <3>2
  <2> QED
    BY <2>1, <2>2
<1>7. log' \subseteq (0..now) \X (0..Limit)
  <2>1. CASE verdict' = "allowed"
    <3>1. size \in 0..Limit /\ now \in 0..now
      BY <1>1, <1>3, <1>4, <2>1
    <3>2. fresh \in (0..now) \X (0..Limit)
      BY <3>1
    <3> HIDE DEF fresh, size
    <3> QED
      BY <1>1, <1>3, <1>4, <2>1, <3>2
  <2>2. CASE verdict' # "allowed"
    BY <1>1, <1>3, <1>4, <2>2
  <2> QED
    BY <2>1, <2>2
<1>8. ASSUME NEW a \in 0..now, now - Window < a
      PROVE  /\ Cardinality(since_next(a)) = Cardinality(since_(a)) + more
             /\ Cardinality(since_(a)) \in Nat
             /\ Cardinality(since_next(a)) <= Cardinality(log')
  <2>1. since_(a) \subseteq kept /\ fresh \notin since_(a)
    BY <1>1, <1>5, <1>8
  <2>2. since_next(a) = IF verdict' = "allowed" THEN since_(a) \cup {fresh} ELSE since_(a)
    BY <1>1, <1>4, <2>1
  <2>3. IsFiniteSet(since_(a))
    BY <1>2, FS_Subset
  <2>4. Cardinality(since_next(a)) <= Cardinality(log')
    BY <1>6, FS_Subset
  <2>5. Cardinality(since_(a)) \in Nat
    BY <2>3, FS_CardinalityType
  <2> HIDE DEF since_, since_next, fresh, kept, size
  <2>6. Cardinality(since_next(a)) = Cardinality(since_(a)) + more
    <3>1. Cardinality(since_(a) \cup {fresh}) = Cardinality(since_(a)) + 1
      BY <2>1, <2>3, FS_AddElement
    <3> QED
      BY <2>2, <2>5, <3>1
  <2> QED
    BY <2>4, <2>5, <2>6
<1>9. ASSUME NEW a \in 0..now, now - Window < a, NEW b \in Limiter!Times, now <= b
      PROVE  /\ Limiter!Got(a, b)' \in Nat
             /\ Limiter!Got(a, b)' <= Cardinality(since_next(a))
  <2>1. Limiter!Got(a, b)' = Limiter!Got(a, now) + more
    BY <1>4, <1>9, CheckStep
  <2>2. Limiter!Got(a, now) \in Nat
    BY <1>1, GotFacts DEF Limiter!Times
  <2>3. Limiter!Got(a, now) <= Cardinality(since_(a))
    BY <1>1, <1>9 DEF LogKnows
  <2> QED
    BY <1>8, <1>9, <2>1, <2>2, <2>3
<1>10. LogKnows'
  <2>1. now' = now
    BY CheckStep
  <2>2. ASSUME NEW a \in 0..now, now - Window < a
        PROVE  Limiter!Got(a, now)' <= Cardinality(since_next(a))
    <3>1. PICK b \in Limiter!Times : b = now
      BY <1>1 DEF Limiter!Times
    <3>2. Limiter!Got(a, b)' <= Cardinality(since_next(a))
      BY <1>1, <1>9, <2>2, <3>1
    <3> QED
      BY <2>1, <3>1, <3>2 DEF Limiter!Got
  <2>3. ASSUME NEW e \in log', e[1] = now
        PROVE  e[2] < Cardinality({d \in log' : d[1] > now - Window})
    <3>1. {d \in log' : d[1] > now - Window} = log'
      BY <1>1, <1>4
    <3>2. CASE e = fresh
      <4>1. more = 1
        BY <1>3, <1>4, <1>5, <2>3, <3>2
      <4>2. e[2] = size
        BY <3>2
      <4>3. e[2] < Cardinality(log')
        <5> HIDE DEF size, more
        <5> QED
          BY <1>3, <1>6, <4>1, <4>2
      <4> QED
        BY <3>1, <4>3
    <3>3. CASE e \in kept
      <4>1. e[2] < size /\ e[2] \in Int
        BY <1>1, <2>3, <3>3 DEF LogKnows
      <4>2. Cardinality(log') = size + more /\ more \in Nat
        BY <1>6
      <4>3. e[2] < Cardinality(log')
        <5> HIDE DEF size, more
        <5> QED
          BY <1>3, <4>1, <4>2
      <4> QED
        BY <3>1, <4>3
    <3> QED
      BY <1>4, <2>3, <3>2, <3>3
  <2> QED
    BY <2>1, <2>2, <2>3 DEF LogKnows
<1>11. Limiter!WindowBound'
  <2>1. ASSUME NEW a \in 0..now, NEW b \in Limiter!Times, now <= b
        PROVE  Within(a, b)'
    <3> SUFFICES ASSUME b - a < Window
                 PROVE  Limiter!Got(a, b)' <= Limit
      BY CheckStep DEF Within, Limiter!Buckets
    <3>1. now - Window < a
      BY <1>1, <2>1 DEF Limiter!Times
    <3> DEFINE entries == Cardinality(since_next(a))
    <3>2. entries \in Nat /\ entries <= Cardinality(log') /\ Cardinality(log') \in Nat
      <4>1. IsFiniteSet(since_next(a))
        BY <1>6, FS_Subset
      <4> QED
        BY <1>6, <1>8, <3>1, <4>1, FS_CardinalityType
    <3>3. Limiter!Got(a, b)' \in Nat /\ Limiter!Got(a, b)' <= entries
      BY <1>9, <2>1, <3>1
    <3> HIDE DEF entries
    <3> QED
      BY <1>1, <1>6, <3>2, <3>3
  <2> QED
    BY <2>1, CheckStep
<1>12. Limiter!TypeOK'
  <2>1. count' \in 0..Limit /\ windowStart' \in 0..now /\ tokens' \in 0..Limiter!Full
    BY <1>1, <1>4 DEF Limiter!TypeOK
  <2> QED
    BY <1>6, <1>7, <2>1, CheckStep
<1> QED
  BY <1>10, <1>11, <1>12, CheckStep DEF LimiterIInv

(* reset_rate_limit, add_rate_limit and remove_rate_limit: the count of what *)
(* was allowed starts anew with the key.                                     *)
LEMMA ChangeStep ==
    ASSUME LimiterIInv,
           \/ Limiter!ResetRateLimit
           \/ \E new \in Limiter!Strategies :
                  Limiter!AddRateLimit(new) \/ Limiter!RemoveRateLimit(new)
    PROVE  LimiterIInv'
<1>1. /\ MaxTime \in Nat /\ now \in 0..MaxTime /\ Limit \in Nat /\ Limit * Window \in Nat
      /\ Limiter!TypeOK
  BY ClockAssumption DEF LimiterIInv, Limiter!TypeOK, Limiter!Times
<1>2. /\ granted' = Limiter!Never /\ asked' = {} /\ since' = now /\ verdict' = "none"
      /\ now' = now /\ log' = log /\ strategy' \in Limiter!Strategies
      /\ strategy # "log" /\ strategy' # "log"
      /\ count' \in 0..Limit /\ windowStart' \in 0..now /\ lastRequest' \in 0..now
      /\ tokens' \in 0..Limiter!Full
  BY <1>1
  DEF Limiter!ResetRateLimit, Limiter!AddRateLimit, Limiter!RemoveRateLimit, Limiter!Forget,
      Limiter!TypeOK, Limiter!Initially, Limiter!Full, Limiter!state, Limiter!Times
<1>3. Limiter!Never \in [Limiter!Times -> Nat]
  BY DEF Limiter!Never
<1>4. Limiter!TypeOK'
  <2>1. now' \in 0..now'
    BY <1>1, <1>2
  <2> QED
    BY <1>1, <1>2, <1>3, <2>1 DEF Limiter!TypeOK, Limiter!Times, Limiter!Full
<1>5. (Limiter!TypeOK /\ granted = Limiter!Never /\ (strategy = "log" => log = {})
          => LimiterIInv)'
  BY FreshKey, PTL
<1>6. Limiter!Never' = Limiter!Never
  BY DEF Limiter!Never, Limiter!Times
<1> QED
  BY <1>2, <1>4, <1>5, <1>6

(* Time goes on, and what was allowed up to now is all there is.             *)
LEMMA TimeStep ==
    ASSUME LimiterIInv, Limiter!Tick
    PROVE  LimiterIInv'
<1>1. /\ MaxTime \in Nat /\ now \in 0..MaxTime /\ now' = now + 1 /\ now' \in 0..MaxTime
      /\ lastRequest \in 0..now /\ windowStart \in 0..now /\ count \in Nat
      /\ Window \in Nat \ {0}
      /\ Limiter!TypeOK /\ GrantsAddUp
      /\ UNCHANGED <<strategy, count, windowStart, lastRequest, tokens, log, granted, asked,
                     since>>
      /\ verdict' = "none"
  BY ClockAssumption
  DEF LimiterIInv, Limiter!TypeOK, Limiter!Times, Limiter!Tick, Limiter!state
<1>2. \A a, b \in Limiter!Times : Limiter!Got(a, b)' = Limiter!Got(a, b)
  BY <1>1 DEF Limiter!Got
<1>3. Limiter!TypeOK'
  <2>1. 0..now \subseteq 0..now'
    BY <1>1
  <2> QED
    BY <1>1, <2>1 DEF Limiter!TypeOK, Limiter!Times, Limiter!Full
<1>4. GrantsAddUp' /\ Limiter!WindowBound'
  <2>1. GrantsAddUp'
    BY <1>1 DEF GrantsAddUp
  <2>2. \A a, b \in Limiter!Times : a <= b => Within(a, b)
    BY EveryInterval DEF LimiterIInv
  <2>3. \A a, b \in Limiter!Times : a <= b => Within(a, b)'
    BY <1>1, <1>2, <2>2 DEF Within
  <2>4. Limiter!WindowBound'
    BY <2>3 DEF Limiter!WindowBound, Within
  <2> QED
    BY <2>1, <2>4
<1>5. \A a \in 0..now : /\ Limiter!Got(a, now) \in Nat
                        /\ Limiter!Got(a, now)' = Limiter!Got(a, now)
                        /\ Limiter!Got(a, now) = granted[now] - IF a = 0 THEN 0 ELSE granted[a - 1]
  <2> SUFFICES ASSUME NEW a \in 0..now
               PROVE  /\ Limiter!Got(a, now) \in Nat
                      /\ Limiter!Got(a, now)' = Limiter!Got(a, now)
                      /\ Limiter!Got(a, now) =
                            granted[now] - IF a = 0 THEN 0 ELSE granted[a - 1]
    OBVIOUS
  <2>1. granted[now'] = granted[now]
    BY <1>1 DEF GrantsAddUp, Limiter!Times
  <2>2. Limiter!Got(a, now) \in Nat
    BY <1>1, GotFacts DEF Limiter!Times
  <2> QED
    BY <1>1, <2>1, <2>2 DEF Limiter!Got
<1>6. ASSUME NEW a, a = now' PROVE Limiter!Got(a, now)' = 0
  <2>1. granted[now'] = granted[now] /\ granted[now] \in Nat
    BY <1>1 DEF GrantsAddUp, Limiter!Times, Limiter!TypeOK
  <2>2. a # 0 /\ a - 1 = now
    BY <1>1, <1>6
  <2> QED
    BY <1>1, <1>6, <2>1, <2>2 DEF Limiter!Got
<1>7. ASSUME FixedKnows PROVE FixedKnows'
  <2> DEFINE start == Limiter!MinuteStart
  <2>1. start \in 0..now /\ start' \in {start, now'} /\ start' \in 0..now'
    BY <1>1, MinuteOfClock DEF Limiter!MinuteStart
  <2>2. CASE start' = start
    <3>1. Limiter!Got(start, now)' = Limiter!Got(start, now)
      BY <1>1, <1>5, <2>1, <2>2 DEF Limiter!Got
    <3> QED
      BY <1>1, <1>7, <2>2, <3>1 DEF FixedKnows
  <2>3. CASE start' = now'
    <3>1. PICK a : a = now'
      OBVIOUS
    <3>2. Limiter!Got(a, now)' = 0
      BY <1>6, <3>1
    <3>3. Limiter!Got(start, now)' = 0
      BY <2>3, <3>1, <3>2 DEF Limiter!Got
    <3> QED
      BY <1>1, <2>3, <3>3 DEF FixedKnows
  <2> QED
    BY <2>1, <2>2, <2>3
<1>8. ASSUME SlidingKnows PROVE SlidingKnows'
  <2> SUFFICES ASSUME NEW a \in 0..now', lastRequest - Window <= a
               PROVE  Limiter!Got(a, now)' <= count
    BY <1>1 DEF SlidingKnows
  <2>1. CASE a = now'
    BY <1>1, <1>6, <2>1
  <2>2. CASE a # now'
    <3>1. a \in 0..now
      BY <1>1, <2>2
    <3> QED
      BY <1>5, <1>8, <3>1 DEF SlidingKnows
  <2> QED
    BY <2>1, <2>2
<1>9. ASSUME LogKnows PROVE LogKnows'
  <2>1. ASSUME NEW a \in 0..now', now' - Window < a
        PROVE  Limiter!Got(a, now)' <= Cardinality({e \in log : e[1] >= a})
    <3>1. CASE a = now'
      <4>1. \A e \in log : e[1] \in 0..now
        BY <1>1 DEF Limiter!TypeOK
      <4>2. {e \in log : e[1] >= a} = {}
        BY <1>1, <3>1, <4>1
      <4>3. Cardinality({e \in log : e[1] >= a}) = 0
        BY <4>2, FS_EmptySet
      <4> QED
        BY <1>6, <3>1, <4>3
    <3>2. CASE a # now'
      <4>1. a \in 0..now /\ now - Window < a
        BY <1>1, <2>1, <3>2
      <4> QED
        BY <1>5, <1>9, <4>1 DEF LogKnows
    <3> QED
      BY <3>1, <3>2
  <2>2. \A e \in log : e[1] # now'
    BY <1>1 DEF Limiter!TypeOK
  <2> QED
    BY <1>1, <2>1, <2>2 DEF LogKnows
<1>10. ASSUME TokensKnow PROVE TokensKnow'
  BY <1>1, <1>10 DEF TokensKnow, Limiter!Got
<1>11. ASSUME LevelKnows PROVE LevelKnows'
  BY <1>1, <1>11 DEF LevelKnows, Limiter!Got
<1> QED
  BY <1>1, <1>3, <1>4, <1>7, <1>8, <1>9, <1>10, <1>11 DEF LimiterIInv

(* Every step of the limiter keeps the invariant.                            *)
LEMMA LimiterKept ==
    ASSUME LimiterIInv, Limiter!Next \/ UNCHANGED limiterVars
    PROVE  LimiterIInv'
<1>1. ASSUME NEW cost \in Costs, Limiter!CheckRateLimit(cost) PROVE LimiterIInv'
  <2>1. strategy \in {"fixed", "sliding", "token", "leaky", "log"}
    BY <1>1
    DEF Limiter!CheckRateLimit, Limiter!FixedWindow, Limiter!SlidingWindow,
        Limiter!TokenBucket, Limiter!LeakyBucket, Limiter!RequestLog
  <2> QED
    BY <1>1, <2>1, FixedStep, SlidingStep, TokenStep, LeakyStep, LogStep
<1>2. CASE UNCHANGED limiterVars
  BY <1>2
  DEF limiterVars, LimiterIInv, Limiter!TypeOK, GrantsAddUp, Limiter!WindowBound,
      FixedKnows, SlidingKnows, LogKnows, TokensKnow, LevelKnows, Limiter!Got,
      Limiter!MinuteStart, Limiter!Times, Limiter!Full
<1> QED
  BY <1>1, <1>2, ChangeStep, TimeStep DEF Limiter!Next

-----------------------------------------------------------------------------
(* Why a request is denied.                                                  *)

(* Something was allowed at one of the times from a to b.                    *)
Granted(a, b) == \E t \in a..b : Limiter!Got(t, t) > 0

(* Why a strategy may deny: a count of this minute, a last request, an entry *)
(* of the log or a level that has not sunk again are owed to something that  *)
(* was allowed since, or to a change of the configuration.                   *)
FixedReason ==
    count > 0 /\ Limiter!MinuteStart <= windowStart
        => Limiter!MinuteStart <= since \/ Granted(Limiter!MinuteStart, now)

SlidingReason == lastRequest <= since \/ lastRequest \in asked

LogReason == \A e \in log : Limiter!Got(e[1], e[1]) > 0

TokensReason ==
    \A u \in since..lastRequest :
        \/ Granted(u + 1, lastRequest)
        \/ tokens = Limit * Window
        \/ tokens >= Limit * (lastRequest - u)

LevelReason ==
    \A u \in since..lastRequest :
        \/ Granted(u + 1, lastRequest)
        \/ tokens = 0
        \/ tokens + Limit * (lastRequest - u) <= Limit * Window

ReasonIInv ==
    /\ LimiterIInv
    /\ strategy = "fixed" => FixedReason
    /\ strategy = "sliding" => SlidingReason
    /\ strategy = "log" => LogReason
    /\ strategy = "token" => TokensReason
    /\ strategy = "leaky" => LevelReason

(* A check leaves what was allowed before, and adds what it allows now.      *)
LEMMA GrantsStay ==
    ASSUME LimiterIInv, NEW cost \in Costs, Limiter!CheckRateLimit(cost)
    PROVE  /\ UNCHANGED <<strategy, now, since>> /\ lastRequest' = now
           /\ asked' = asked \cup {now}
           /\ cost \in 0..Limit /\ verdict' \in {"allowed", "denied"}
           /\ \A t \in 0..now : Limiter!Got(t, t) > 0 => Limiter!Got(t, t)' > 0
           /\ \A t : t = now /\ verdict' = "allowed" /\ cost > 0 => Limiter!Got(t, t)' > 0
<1>1. cost \in Nat /\ cost \in 0..Limit
  BY ClockAssumption, CostsAssumption
<1>2. /\ UNCHANGED <<strategy, now, since>> /\ lastRequest' = now
      /\ verdict' \in {"allowed", "denied"}
      /\ asked' = asked \cup {now}
      /\ granted' = IF verdict' = "allowed"
                    THEN [t \in Limiter!Times |-> granted[t] + IF t >= now THEN cost ELSE 0]
                    ELSE granted
  BY DEF Limiter!CheckRateLimit, Limiter!LastRequest, Limiter!FixedWindow,
         Limiter!SlidingWindow, Limiter!TokenBucket, Limiter!LeakyBucket, Limiter!RequestLog
<1>3. MaxTime \in Nat /\ now \in 0..MaxTime /\ Limiter!TypeOK /\ GrantsAddUp
  BY ClockAssumption DEF LimiterIInv, Limiter!TypeOK, Limiter!Times
<1>4. /\ \A a \in 0..now, b \in Limiter!Times :
            now <= b => Limiter!Got(a, b)' =
                            Limiter!Got(a, now) + IF verdict' = "allowed" THEN cost ELSE 0
      /\ \A a, b \in Limiter!Times :
            a <= b /\ ~(a <= now /\ now <= b) => Limiter!Got(a, b)' = Limiter!Got(a, b)
  BY <1>1, <1>2, GrantStep
<1>5. ASSUME NEW t \in 0..now, Limiter!Got(t, t) > 0 PROVE Limiter!Got(t, t)' > 0
  <2>1. t \in Limiter!Times
    BY <1>3 DEF Limiter!Times
  <2>2. CASE t = now
    <3>1. Limiter!Got(t, t)' = Limiter!Got(t, t) + IF verdict' = "allowed" THEN cost ELSE 0
      BY <1>4, <2>1, <2>2
    <3>2. Limiter!Got(t, t) \in Nat
      BY <1>3, <2>1, GotFacts DEF Limiter!Times
    <3> QED
      BY <1>1, <1>5, <3>1, <3>2
  <2>3. CASE t # now
    <3>1. Limiter!Got(t, t)' = Limiter!Got(t, t)
      BY <1>3, <1>4, <2>1, <2>3
    <3> QED
      BY <1>5, <3>1
  <2> QED
    BY <2>2, <2>3
<1>6. ASSUME NEW t, t = now, verdict' = "allowed", cost > 0 PROVE Limiter!Got(t, t)' > 0
  <2>1. t \in Limiter!Times /\ t \in 0..now
    BY <1>3, <1>6 DEF Limiter!Times
  <2>2. Limiter!Got(t, t)' = Limiter!Got(t, t) + cost
    BY <1>4, <1>6, <2>1
  <2>3. Limiter!Got(t, t) \in Nat
    BY <1>3, <2>1, GotFacts
  <2> QED
    BY <1>1, <1>6, <2>2, <2>3
<1> QED
  BY <1>1, <1>2, <1>5, <1>6

(* ... so that an interval with something allowed keeps it.                  *)
LEMMA GrantedStays ==
    ASSUME LimiterIInv, NEW cost \in Costs, Limiter!CheckRateLimit(cost), NEW a \in Nat
    PROVE  /\ \A b \in 0..now : Granted(a, b) => \E t \in a..now : Limiter!Got(t, t)' > 0
           /\ a <= now /\ verdict' = "allowed" /\ cost > 0
                 => \E t \in a..now : Limiter!Got(t, t)' > 0
<1>1. MaxTime \in Nat /\ now \in 0..MaxTime
  BY ClockAssumption DEF LimiterIInv, Limiter!TypeOK, Limiter!Times
<1>2. ASSUME NEW b \in 0..now, Granted(a, b)
      PROVE  \E t \in a..now : Limiter!Got(t, t)' > 0
  <2>1. PICK t \in a..b : Limiter!Got(t, t) > 0
    BY <1>2 DEF Granted
  <2>2. t \in 0..now /\ t \in a..now
    BY <1>1, <2>1
  <2>3. Limiter!Got(t, t)' > 0
    BY <2>1, <2>2, GrantsStay
  <2> QED
    BY <2>2, <2>3
<1>3. ASSUME a <= now, verdict' = "allowed", cost > 0
      PROVE  \E t \in a..now : Limiter!Got(t, t)' > 0
  <2>1. PICK t : t = now
    OBVIOUS
  <2>2. Limiter!Got(t, t)' > 0
    BY <1>3, <2>1, GrantsStay
  <2>3. t \in a..now
    BY <1>1, <1>3, <2>1
  <2> QED
    BY <2>2, <2>3
<1> QED
  BY <1>2, <1>3

(* The strategies, one by one.                                               *)
LEMMA FixedReasonKept ==
    ASSUME LimiterIInv, FixedReason, NEW cost \in Costs, Limiter!CheckRateLimit(cost),
           strategy = "fixed"
    PROVE  FixedReason'
<1> DEFINE start == Limiter!MinuteStart
<1>1. /\ now \in Nat /\ windowStart \in 0..now /\ start \in 0..now /\ since \in 0..now
      /\ count \in 0..Limit /\ Limit \in Nat
  BY ClockAssumption, MinuteOfClock
  DEF LimiterIInv, Limiter!TypeOK, Limiter!Times, Limiter!MinuteStart
<1>2. /\ UNCHANGED <<now, since>> /\ cost \in 0..Limit
  BY GrantsStay
<1>3. PICK s : s = start
  OBVIOUS
<1>4. start' = s /\ s \in 0..now
  BY <1>1, <1>2, <1>3 DEF Limiter!MinuteStart
<1>5. ASSUME NEW t \in s..now, Limiter!Got(t, t)' > 0 PROVE FixedReason'
  BY <1>1, <1>2, <1>4, <1>5 DEF FixedReason, Granted
<1>6. count' = (IF windowStart < start THEN 0 ELSE count)
                  + (IF verdict' = "allowed" THEN cost ELSE 0)
  <2>1. /\ windowStart < start
               => count' = IF verdict' = "allowed" THEN 0 + cost ELSE 0
        /\ ~(windowStart < start)
               => count' = IF verdict' = "allowed" THEN count + cost ELSE count
    BY DEF Limiter!CheckRateLimit, Limiter!FixedWindow, Limiter!SlidingWindow,
           Limiter!TokenBucket, Limiter!LeakyBucket, Limiter!RequestLog, Limiter!WindowEnded
  <2> QED
    BY <1>1, <1>2, <2>1
<1>7. CASE verdict' = "allowed" /\ cost > 0
  <2>1. \E t \in s..now : Limiter!Got(t, t)' > 0
    BY <1>1, <1>4, <1>7, GrantedStays
  <2> QED
    BY <1>5, <2>1
<1>8. CASE ~(verdict' = "allowed" /\ cost > 0) /\ count' > 0
  <2>1. count > 0 /\ windowStart >= s
    BY <1>1, <1>2, <1>3, <1>6, <1>8
  <2>2. s <= since \/ Granted(s, now)
    BY <1>3, <2>1 DEF FixedReason
  <2>3. CASE s <= since
    BY <1>2, <1>4, <2>3 DEF FixedReason
  <2>4. CASE Granted(s, now)
    <3>1. \E t \in s..now : Limiter!Got(t, t)' > 0
      BY <1>1, <1>4, <2>4, GrantedStays
    <3> QED
      BY <1>5, <3>1
  <2> QED
    BY <2>2, <2>3, <2>4
<1>9. CASE ~(count' > 0)
  BY <1>9 DEF FixedReason
<1> QED
  BY <1>7, <1>8, <1>9

LEMMA LogReasonKept ==
    ASSUME LimiterIInv, LogReason, NEW cost \in Costs, Limiter!CheckRateLimit(cost),
           strategy = "log"
    PROVE  LogReason'
<1>1. now \in Nat /\ log \subseteq (0..now) \X (0..Limit)
  BY ClockAssumption DEF LimiterIInv, Limiter!TypeOK, Limiter!Times
<1>2. cost = 1
  BY DEF Limiter!CheckRateLimit, Limiter!FixedWindow, Limiter!SlidingWindow,
         Limiter!TokenBucket, Limiter!LeakyBucket, Limiter!RequestLog
<1>3. \A e \in log' : e \in log \/ (verdict' = "allowed" /\ e[1] = now)
  BY DEF Limiter!CheckRateLimit, Limiter!FixedWindow, Limiter!SlidingWindow,
         Limiter!TokenBucket, Limiter!LeakyBucket, Limiter!RequestLog
<1> SUFFICES ASSUME NEW e \in log' PROVE Limiter!Got(e[1], e[1])' > 0
  BY DEF LogReason
<1>4. CASE e \in log
  <2>1. e[1] \in 0..now /\ Limiter!Got(e[1], e[1]) > 0
    BY <1>1, <1>4 DEF LogReason
  <2> QED
    BY <2>1, GrantsStay
<1>5. CASE verdict' = "allowed" /\ e[1] = now
  BY <1>2, <1>5, GrantsStay
<1> QED
  BY <1>3, <1>4, <1>5

LEMMA TokensReasonKept ==
    ASSUME LimiterIInv, TokensReason, NEW cost \in Costs, Limiter!CheckRateLimit(cost),
           strategy = "token"
    PROVE  TokensReason'
<1> DEFINE have == Limiter!Refilled
<1>1. /\ now \in Nat /\ lastRequest \in 0..now /\ since \in 0..now
      /\ Limit \in Nat /\ Window \in Nat /\ tokens \in 0..(Limit * Window)
      /\ Limit * Window \in Nat
  BY ClockAssumption DEF LimiterIInv, Limiter!TypeOK, Limiter!Times, Limiter!Full
<1>2. UNCHANGED <<now, since>> /\ lastRequest' = now /\ cost \in 0..Limit
  BY GrantsStay
<1>3. (now - lastRequest) * Limit \in Nat
  BY <1>1
<1>4. /\ have \in 0..(Limit * Window)
      /\ have = Limit * Window \/ have = tokens + (now - lastRequest) * Limit
      /\ tokens = Limit * Window => have = Limit * Window
  BY <1>1, <1>3 DEF Limiter!Refilled, Limiter!Elapsed, Limiter!Full
<1>5. tokens' = IF verdict' = "allowed" THEN have - cost * Window ELSE have
  BY DEF Limiter!CheckRateLimit, Limiter!FixedWindow, Limiter!SlidingWindow,
         Limiter!TokenBucket, Limiter!LeakyBucket, Limiter!RequestLog
<1>6. tokens' \in Nat
  <2>1. tokens' \in 0..Limiter!Full
    BY <1>1, TokenStep DEF LimiterIInv, Limiter!TypeOK, Limiter!Full
  <2> QED
    BY <1>1, <2>1 DEF Limiter!Full
<1> SUFFICES ASSUME NEW u \in since..now
             PROVE  \/ \E t \in (u + 1)..now : Limiter!Got(t, t)' > 0
                    \/ tokens' = Limit * Window
                    \/ tokens' >= Limit * (now - u)
  BY <1>2 DEF TokensReason, Granted
<1>7. u \in Nat /\ u + 1 \in Nat /\ Limit * (now - u) \in Nat
  BY <1>1
<1>8. CASE u = now
  <2>1. Limit * (now - u) = 0
    BY <1>1, <1>8
  <2> QED
    BY <1>6, <2>1
<1>9. CASE u < now /\ verdict' = "allowed" /\ cost > 0
  <2>1. u + 1 <= now
    BY <1>1, <1>9
  <2> QED
    BY <1>7, <1>9, <2>1, GrantedStays
<1>10. CASE u < now /\ ~(verdict' = "allowed" /\ cost > 0)
  <2>1. tokens' = have
    <3>1. CASE verdict' = "allowed"
      <4>1. cost = 0 /\ cost * Window = 0
        BY <1>1, <1>2, <1>10, <3>1
      <4> QED
        BY <1>4, <1>5, <3>1, <4>1
    <3> QED
      BY <1>5, <3>1
  <2>2. CASE u <= lastRequest
    <3>1. \/ Granted(u + 1, lastRequest)
          \/ tokens = Limit * Window
          \/ tokens >= Limit * (lastRequest - u)
      BY <1>1, <2>2 DEF TokensReason
    <3>2. CASE Granted(u + 1, lastRequest)
      BY <1>1, <1>7, <3>2, GrantedStays
    <3>3. CASE tokens = Limit * Window
      BY <1>4, <2>1, <3>3
    <3>4. CASE tokens >= Limit * (lastRequest - u)
      <4>1. Limit * (lastRequest - u) + (now - lastRequest) * Limit = Limit * (now - u)
        BY <1>1, <1>7
      <4>2. Limit * (lastRequest - u) \in Int
        BY <1>1, <1>7
      <4> QED
        BY <1>1, <1>3, <1>4, <1>7, <2>1, <3>4, <4>1, <4>2
    <3> QED
      BY <3>1, <3>2, <3>3, <3>4
  <2>3. CASE lastRequest < u
    <3>1. (now - lastRequest) * Limit = Limit * (now - u) + Limit * (u - lastRequest)
      BY <1>1, <1>7
    <3>2. Limit * (u - lastRequest) \in Nat
      BY <1>1, <1>7, <2>3
    <3> QED
      BY <1>1, <1>3, <1>4, <1>7, <2>1, <3>1, <3>2
  <2> QED
    BY <1>1, <1>7, <2>2, <2>3
<1> QED
  BY <1>1, <1>7, <1>8, <1>9, <1>10

LEMMA LevelReasonKept ==
    ASSUME LimiterIInv, LevelReason, NEW cost \in Costs, Limiter!CheckRateLimit(cost),
           strategy = "leaky"
    PROVE  LevelReason'
<1> DEFINE left == Limiter!Leaked
<1>1. /\ now \in Nat /\ lastRequest \in 0..now /\ since \in 0..now
      /\ Limit \in Nat /\ Window \in Nat /\ tokens \in 0..(Limit * Window)
      /\ Limit * Window \in Nat
  BY ClockAssumption DEF LimiterIInv, Limiter!TypeOK, Limiter!Times, Limiter!Full
<1>2. UNCHANGED <<now, since>> /\ lastRequest' = now /\ cost \in 0..Limit
  BY GrantsStay
<1>3. (now - lastRequest) * Limit \in Nat
  BY <1>1
<1>4. /\ left \in 0..(Limit * Window)
      /\ left = 0 \/ left + (now - lastRequest) * Limit = tokens
  BY <1>1, <1>3 DEF Limiter!Leaked, Limiter!Elapsed
<1>5. tokens' = IF verdict' = "allowed" THEN left + cost * Window ELSE left
  BY DEF Limiter!CheckRateLimit, Limiter!FixedWindow, Limiter!SlidingWindow,
         Limiter!TokenBucket, Limiter!LeakyBucket, Limiter!RequestLog
<1>6. tokens' \in 0..(Limit * Window)
  <2>1. tokens' \in 0..Limiter!Full
    BY <1>1, LeakyStep DEF LimiterIInv, Limiter!TypeOK, Limiter!Full
  <2> QED
    BY <2>1 DEF Limiter!Full
<1> SUFFICES ASSUME NEW u \in since..now
             PROVE  \/ \E t \in (u + 1)..now : Limiter!Got(t, t)' > 0
                    \/ tokens' = 0
                    \/ tokens' + Limit * (now - u) <= Limit * Window
  BY <1>2 DEF LevelReason, Granted
<1>7. u \in Nat /\ u + 1 \in Nat /\ Limit * (now - u) \in Nat
  BY <1>1
<1>8. CASE u = now
  <2>1. Limit * (now - u) = 0
    BY <1>1, <1>8
  <2>2. tokens' \in Nat /\ tokens' <= Limit * Window
    BY <1>1, <1>6
  <2>3. \A k \in Nat : k + 0 = k
    OBVIOUS
  <2>4. tokens' + Limit * (now - u) <= Limit * Window
    BY <2>1, <2>2, <2>3, Zenon
  <2> QED
    BY <2>4
<1>9. CASE u < now /\ verdict' = "allowed" /\ cost > 0
  <2>1. u + 1 <= now
    BY <1>1, <1>9
  <2> QED
    BY <1>7, <1>9, <2>1, GrantedStays
<1>10. CASE u < now /\ ~(verdict' = "allowed" /\ cost > 0)
  <2>1. tokens' = left
    <3>1. CASE verdict' = "allowed"
      <4>1. cost = 0 /\ cost * Window = 0
        BY <1>1, <1>2, <1>10, <3>1
      <4> QED
        BY <1>4, <1>5, <3>1, <4>1
    <3> QED
      BY <1>5, <3>1
  <2>2. CASE u <= lastRequest
    <3>1. \/ Granted(u + 1, lastRequest)
          \/ tokens = 0
          \/ tokens + Limit * (lastRequest - u) <= Limit * Window
      BY <1>1, <2>2 DEF LevelReason
    <3>2. CASE Granted(u + 1, lastRequest)
      BY <1>1, <1>7, <3>2, GrantedStays
    <3>3. CASE tokens = 0
      BY <1>3, <1>4, <2>1, <3>3
    <3>4. CASE tokens + Limit * (lastRequest - u) <= Limit * Window
      <4>1. Limit * (lastRequest - u) + (now - lastRequest) * Limit = Limit * (now - u)
        BY <1>1, <1>7
      <4>2. Limit * (lastRequest - u) \in Int
        BY <1>1, <1>7
      <4> QED
        BY <1>1, <1>3, <1>4, <1>7, <2>1, <3>4, <4>1, <4>2
    <3> QED
      BY <3>1, <3>2, <3>3, <3>4
  <2>3. CASE lastRequest < u
    <3>1. (now - lastRequest) * Limit = Limit * (now - u) + Limit * (u - lastRequest)
      BY <1>1, <1>7
    <3>2. Limit * (u - lastRequest) \in Nat
      BY <1>1, <1>7, <2>3
    <3> QED
      BY <1>1, <1>3, <1>4, <1>7, <2>1, <3>1, <3>2
  <2> QED
    BY <1>1, <1>7, <2>2, <2>3
<1> QED
  BY <1>1, <1>7, <1>8, <1>9, <1>10

(* A change of the configuration is reason enough for what it leaves.        *)
LEMMA FreshReason ==
    ASSUME Limiter!TypeOK, since = now, strategy = "log" => log = {}
    PROVE  FixedReason /\ SlidingReason /\ TokensReason /\ LevelReason
           /\ (strategy = "log" => LogReason)
<1>1. /\ now \in Nat /\ lastRequest \in 0..now /\ tokens \in 0..(Limit * Window)
      /\ Limit \in Nat /\ Window \in Nat /\ Limit * Window \in Nat
  BY ClockAssumption DEF Limiter!TypeOK, Limiter!Times, Limiter!Full
<1>2. FixedReason
  BY <1>1, MinuteOfClock DEF FixedReason, Limiter!MinuteStart
<1>3. SlidingReason
  BY <1>1 DEF SlidingReason
<1>4. ASSUME NEW u \in since..lastRequest
      PROVE  tokens >= Limit * (lastRequest - u)
             /\ tokens + Limit * (lastRequest - u) <= Limit * Window
  <2>1. lastRequest - u = 0
    BY <1>1
  <2>2. Limit * (lastRequest - u) = 0
    BY <1>1, <2>1
  <2>3. \A k \in Nat : k + 0 = k
    OBVIOUS
  <2>4. tokens \in Nat /\ tokens >= 0 /\ tokens <= Limit * Window
    BY <1>1
  <2>5. tokens + Limit * (lastRequest - u) = tokens
    BY <2>2, <2>3, <2>4, Zenon
  <2> QED
    BY <2>2, <2>4, <2>5, Zenon
<1>5. TokensReason /\ LevelReason
  BY <1>4 DEF TokensReason, LevelReason
<1>6. strategy = "log" => LogReason
  BY DEF LogReason
<1> QED
  BY <1>2, <1>3, <1>5, <1>6

LEMMA ReasonInit == Limiter!Init => ReasonIInv
<1> SUFFICES ASSUME Limiter!Init PROVE ReasonIInv
  OBVIOUS
<1>1. LimiterIInv
  BY LimiterInit
<1>2. since = now /\ log = {}
  BY DEF Limiter!Init
<1> QED
  BY <1>1, <1>2, FreshReason DEF ReasonIInv, LimiterIInv

(* A minute that is over takes its count with it; otherwise time alone        *)
(* changes no reason.                                                        *)
LEMMA TimeKeepsReasons ==
    ASSUME ReasonIInv, Limiter!Tick
    PROVE  /\ strategy' = "fixed" => FixedReason'
           /\ strategy' = "sliding" => SlidingReason'
           /\ strategy' = "log" => LogReason'
           /\ strategy' = "token" => TokensReason'
           /\ strategy' = "leaky" => LevelReason'
<1>1. /\ now \in Nat /\ now' = now + 1 /\ windowStart \in 0..now
      /\ UNCHANGED <<strategy, count, windowStart, lastRequest, tokens, log, granted, asked,
                     since>>
  BY ClockAssumption
  DEF ReasonIInv, LimiterIInv, Limiter!TypeOK, Limiter!Times, Limiter!Tick, Limiter!state
<1>2. \A a, b : Limiter!Got(a, b)' = Limiter!Got(a, b)
  BY <1>1 DEF Limiter!Got
<1>3. ASSUME FixedReason PROVE FixedReason'
  <2>1. PICK s, n : s = Limiter!MinuteStart /\ n = Limiter!MinuteStart'
    OBVIOUS
  <2>2. s \in 0..now /\ n \in {s, now + 1}
    BY <1>1, <2>1, MinuteOfClock DEF Limiter!MinuteStart
  <2>3. CASE n = s
    <3>1. ASSUME NEW t \in s..now, Limiter!Got(t, t) > 0
          PROVE  t \in s..now' /\ Limiter!Got(t, t)' > 0
      BY <1>1, <1>2, <2>2, <3>1
    <3> QED
      BY <1>1, <1>3, <2>1, <2>3, <3>1 DEF FixedReason, Granted
  <2>4. CASE n = now + 1
    BY <1>1, <2>1, <2>4 DEF FixedReason
  <2> QED
    BY <2>2, <2>3, <2>4
<1>4. SlidingReason => SlidingReason'
  BY <1>1 DEF SlidingReason
<1>5. LogReason => LogReason'
  BY <1>1, <1>2 DEF LogReason
<1>6. \A a, b : Granted(a, b) => Granted(a, b)'
  BY <1>2 DEF Granted
<1>7. TokensReason => TokensReason'
  BY <1>1 DEF TokensReason, Granted, Limiter!Got
<1>8. LevelReason => LevelReason'
  BY <1>1 DEF LevelReason, Granted, Limiter!Got
<1> QED
  BY <1>1, <1>3, <1>4, <1>5, <1>7, <1>8 DEF ReasonIInv

LEMMA ReasonKept ==
    ASSUME ReasonIInv, Limiter!Next \/ UNCHANGED limiterVars
    PROVE  ReasonIInv'
<1>1. LimiterIInv /\ LimiterIInv'
  BY LimiterKept DEF ReasonIInv
<1>2. ASSUME NEW cost \in Costs, Limiter!CheckRateLimit(cost) PROVE ReasonIInv'
  <2>1. strategy \in {"fixed", "sliding", "token", "leaky", "log"}
    BY <1>2
    DEF Limiter!CheckRateLimit, Limiter!FixedWindow, Limiter!SlidingWindow,
        Limiter!TokenBucket, Limiter!LeakyBucket, Limiter!RequestLog
  <2>2. strategy' = strategy /\ lastRequest' \in asked'
    BY <1>1, <1>2, GrantsStay
  <2>3. SlidingReason'
    BY <2>2 DEF SlidingReason
  <2> QED
    BY <1>1, <1>2, <2>1, <2>2, <2>3, FixedReasonKept, TokensReasonKept, LevelReasonKept,
       LogReasonKept
    DEF ReasonIInv
<1>3. ASSUME \/ Limiter!ResetRateLimit
             \/ \E new \in Limiter!Strategies :
                    Limiter!AddRateLimit(new) \/ Limiter!RemoveRateLimit(new)
      PROVE  ReasonIInv'
  <2>1. since' = now' /\ strategy' # "log"
    BY <1>3
    DEF Limiter!ResetRateLimit, Limiter!AddRateLimit, Limiter!RemoveRateLimit, Limiter!Forget
  <2>2. (Limiter!TypeOK /\ since = now /\ (strategy = "log" => log = {})
            => FixedReason /\ SlidingReason /\ TokensReason /\ LevelReason)'
    BY FreshReason, PTL
  <2> QED
    BY <1>1, <2>1, <2>2 DEF ReasonIInv, LimiterIInv
<1>4. CASE Limiter!Tick
  BY <1>1, <1>4, TimeKeepsReasons DEF ReasonIInv
<1>5. CASE UNCHANGED limiterVars
  BY <1>1, <1>5
  DEF limiterVars, ReasonIInv, FixedReason, SlidingReason, LogReason, TokensReason,
      LevelReason, Granted, Limiter!Got, Limiter!MinuteStart
<1> QED
  BY <1>2, <1>3, <1>4, <1>5 DEF Limiter!Next

(* A denial finds its reason within the span of its strategy.                *)
LEMMA DenialHasReason ==
    ASSUME ReasonIInv, NEW cost \in Costs, Limiter!CheckRateLimit(cost), verdict' = "denied"
    PROVE  LET span == CASE strategy = "fixed" -> Minute
                         [] strategy = "sliding" -> Window + 1
                         [] OTHER -> Window
               recent(t) == t > now - span
           IN  \/ recent(since)
               \/ \E t \in 0..now : recent(t) /\ Limiter!Got(t, t) > 0
               \/ strategy = "sliding" /\ \E t \in asked : recent(t)
<1> DEFINE span == CASE strategy = "fixed" -> Minute
                     [] strategy = "sliding" -> Window + 1
                     [] OTHER -> Window
           recent(t) == t > now - span
<1>1. /\ now \in Nat /\ lastRequest \in 0..now /\ since \in 0..now /\ windowStart \in 0..now
      /\ Limit \in Nat /\ Window \in Nat \ {0} /\ tokens \in 0..(Limit * Window)
      /\ Limit * Window \in Nat /\ count \in 0..Limit /\ asked \subseteq 0..now
      /\ log \subseteq (0..now) \X (0..Limit) /\ LimiterIInv
  BY ClockAssumption
  DEF ReasonIInv, LimiterIInv, Limiter!TypeOK, Limiter!Times, Limiter!Full
<1>2. cost \in 0..Limit
  BY <1>1, GrantsStay
<1>3. CASE strategy = "fixed"
  <2> DEFINE start == Limiter!MinuteStart
  <2>1. start \in 0..now /\ now < start + Minute /\ Minute \in Nat /\ span = Minute
    BY <1>1, <1>3, MinuteOfClock, ClockAssumption DEF Limiter!MinuteStart
  <2>2. (IF windowStart < start THEN 0 ELSE count) + cost > Limit
    BY <1>1, <1>2, <1>3
    DEF Limiter!CheckRateLimit, Limiter!FixedWindow, Limiter!SlidingWindow,
        Limiter!TokenBucket, Limiter!LeakyBucket, Limiter!RequestLog, Limiter!WindowEnded
  <2>3. count > 0 /\ start <= windowStart
    BY <1>1, <1>2, <2>1, <2>2
  <2>4. start <= since \/ Granted(start, now)
    BY <1>3, <2>3 DEF ReasonIInv, FixedReason
  <2>5. \A t \in start..now : t \in 0..now /\ recent(t)
    BY <1>1, <2>1
  <2> QED
    BY <1>1, <2>1, <2>4, <2>5 DEF Granted
<1>4. CASE strategy = "sliding"
  <2>1. span = Window + 1
    BY <1>4
  <2>2. (IF lastRequest < now - Window THEN 0 ELSE count) + cost > Limit
    BY <1>1, <1>2, <1>4
    DEF Limiter!CheckRateLimit, Limiter!FixedWindow, Limiter!SlidingWindow,
        Limiter!TokenBucket, Limiter!LeakyBucket, Limiter!RequestLog
  <2>3. recent(lastRequest)
    BY <1>1, <1>2, <2>1, <2>2
  <2>4. lastRequest <= since \/ lastRequest \in asked
    BY <1>4 DEF ReasonIInv, SlidingReason
  <2> QED
    BY <1>1, <1>4, <2>1, <2>3, <2>4
<1>5. CASE strategy = "log"
  <2>1. span = Window
    BY <1>5
  <2> DEFINE kept == {e \in log : e[1] > now - Window}
  <2>2. ~(Cardinality(kept) < Limit) /\ cost = 1
    BY <1>5, LimiterCount
    DEF Limiter!CheckRateLimit, Limiter!FixedWindow, Limiter!SlidingWindow,
        Limiter!TokenBucket, Limiter!LeakyBucket, Limiter!RequestLog
  <2>3. kept # {}
    <3>1. kept = {} => Cardinality(kept) = 0
      BY FS_EmptySet
    <3> HIDE DEF kept
    <3> QED
      BY <1>1, <1>2, <2>2, <3>1
  <2>4. PICK e \in log : e[1] > now - Window
    BY <2>3
  <2>5. e[1] \in 0..now /\ Limiter!Got(e[1], e[1]) > 0
    BY <1>1, <1>5 DEF ReasonIInv, LogReason
  <2> QED
    BY <2>1, <2>4, <2>5
<1>6. CASE strategy \in {"token", "leaky"} /\ since <= now - Window
  <2>1. PICK u : u = now - Window
    OBVIOUS
  <2>2. /\ span = Window /\ u \in since..now /\ u \in Nat
        /\ Limit * (now - u) = Limit * Window
    BY <1>1, <1>6, <2>1
  <2>3. ASSUME Granted(u + 1, lastRequest)
        PROVE  \E t \in 0..now : recent(t) /\ Limiter!Got(t, t) > 0
    <3>1. \A t \in (u + 1)..lastRequest : t \in 0..now /\ recent(t)
      BY <1>1, <2>1, <2>2
    <3> QED
      BY <2>3, <3>1 DEF Granted
  <2>4. (now - lastRequest) * Limit \in Nat
    BY <1>1
  <2>5. ASSUME u <= lastRequest
        PROVE  /\ Limit * (lastRequest - u) \in Nat
               /\ Limit * (lastRequest - u) + (now - lastRequest) * Limit = Limit * Window
    BY <1>1, <2>1, <2>2, <2>5
  <2>6. ASSUME ~(u <= lastRequest) PROVE (now - lastRequest) * Limit >= Limit * Window
    <3>1. (now - lastRequest) * Limit = Limit * Window + Limit * (u - lastRequest)
      BY <1>1, <2>1, <2>2
    <3>2. Limit * (u - lastRequest) \in Nat
      BY <1>1, <2>2, <2>6
    <3> QED
      BY <1>1, <2>4, <3>1, <3>2
  <2>7. CASE strategy = "token"
    <3>1. Limiter!Refilled < cost * Window /\ cost * Window <= Limit * Window
      <4>1. ~(Limiter!Refilled >= cost * Window)
        BY <2>7
        DEF Limiter!CheckRateLimit, Limiter!FixedWindow, Limiter!SlidingWindow,
            Limiter!TokenBucket, Limiter!LeakyBucket, Limiter!RequestLog
      <4>2. Limiter!Refilled \in Nat
        BY <1>1, <2>4 DEF Limiter!Refilled, Limiter!Elapsed, Limiter!Full
      <4>3. cost * Window \in Nat /\ (Limit - cost) * Window \in Nat
        BY <1>1, <1>2
      <4>4. (Limit - cost) * Window = Limit * Window - cost * Window
        BY <1>1, <1>2
      <4> QED
        BY <1>1, <4>1, <4>2, <4>3, <4>4
    <3>2. tokens + (now - lastRequest) * Limit < Limit * Window
      BY <1>1, <1>2, <2>4, <3>1 DEF Limiter!Refilled, Limiter!Elapsed, Limiter!Full
    <3>3. u <= lastRequest
      BY <1>1, <2>4, <2>6, <3>2
    <3>4. \/ Granted(u + 1, lastRequest)
          \/ tokens = Limit * Window
          \/ tokens >= Limit * (lastRequest - u)
      BY <1>1, <2>2, <2>7, <3>3 DEF ReasonIInv, TokensReason
    <3>5. Granted(u + 1, lastRequest)
      BY <1>1, <2>4, <2>5, <3>2, <3>3, <3>4
    <3> QED
      BY <2>3, <3>5
  <2>8. CASE strategy = "leaky"
    <3>1. Limiter!Leaked > 0
      <4>1. ~(Limiter!Leaked + cost * Window <= Limit * Window)
        BY <2>8
        DEF Limiter!CheckRateLimit, Limiter!FixedWindow, Limiter!SlidingWindow,
            Limiter!TokenBucket, Limiter!LeakyBucket, Limiter!RequestLog, Limiter!Full
      <4>2. Limiter!Leaked \in Nat
        BY <1>1, <2>4 DEF Limiter!Leaked, Limiter!Elapsed
      <4>3. cost * Window \in Nat /\ (Limit - cost) * Window \in Nat
        BY <1>1, <1>2
      <4>4. (Limit - cost) * Window = Limit * Window - cost * Window
        BY <1>1, <1>2
      <4> QED
        BY <1>1, <4>1, <4>2, <4>3, <4>4
    <3>2. tokens > (now - lastRequest) * Limit
      BY <1>1, <2>4, <3>1 DEF Limiter!Leaked, Limiter!Elapsed
    <3>3. u <= lastRequest
      BY <1>1, <2>4, <2>6, <3>2
    <3>4. \/ Granted(u + 1, lastRequest)
          \/ tokens = 0
          \/ tokens + Limit * (lastRequest - u) <= Limit * Window
      BY <1>1, <2>2, <2>8, <3>3 DEF ReasonIInv, LevelReason
    <3>5. Granted(u + 1, lastRequest)
      BY <1>1, <2>4, <2>5, <3>2, <3>3, <3>4
    <3> QED
      BY <2>3, <3>5
  <2> QED
    BY <1>6, <2>7, <2>8
<1>7. CASE strategy \in {"token", "leaky"} /\ ~(since <= now - Window)
  BY <1>1, <1>7
<1>8. strategy \in {"fixed", "sliding", "token", "leaky", "log"}
  BY DEF Limiter!CheckRateLimit, Limiter!FixedWindow, Limiter!SlidingWindow,
         Limiter!TokenBucket, Limiter!LeakyBucket, Limiter!RequestLog
<1> QED
  BY <1>3, <1>4, <1>5, <1>6, <1>7, <1>8

-----------------------------------------------------------------------------
(* The theorems of the parts.                                                *)

(* Whatever a sweep of _monitor_executions has spared is within its limits,  *)
(* and end_execution, by whomever it is called, archives an execution once.  *)
THEOREM BooksKept == Resources!Spec => []Resources!ExecutionsAccounted
<1>1. ResourcesIInv => Resources!ExecutionsAccounted
  BY DEF ResourcesIInv, Resources!ExecutionsAccounted
<1> QED
  BY <1>1, ResourcesInvariant, PTL

(* The shared counter of a client lets no more than rate_limit_requests      *)
(* through in one life, however the commands of several processes            *)
(* interleave, and whatever fails between them.                              *)
THEOREM OneCounter == Middleware!Spec => []Middleware!SharedLimit
<1>1. Middleware!Init => MiddlewareIInv
  BY MiddlewareInit
<1>2. MiddlewareIInv /\ [Middleware!Next]_Middleware!vars => MiddlewareIInv'
  BY MiddlewareKept DEF middlewareVars, Middleware!vars
<1> QED
  BY <1>1, <1>2, CounterShared, PTL DEF Middleware!Spec

(* check_rate_limit allows in any interval what its strategy promises: for   *)
(* every limit, window and cost, whatever changes the configuration.         *)
THEOREM LimiterPromise == Limiter!Spec => []Limiter!WindowBound
<1>1. Limiter!Init => LimiterIInv
  BY LimiterInit
<1>2. LimiterIInv /\ [Limiter!Next]_Limiter!vars => LimiterIInv'
  BY LimiterKept DEF limiterVars, Limiter!vars, Limiter!state
<1>3. LimiterIInv => Limiter!WindowBound
  BY DEF LimiterIInv
<1> QED
  BY <1>1, <1>2, <1>3, PTL DEF Limiter!Spec

-----------------------------------------------------------------------------
(* The runtime: each step is one of the subject, and leaves the others.      *)

RuntimeIInv == IInv /\ ResourcesIInv /\ LimiterIInv /\ MiddlewareIInv

LEMMA RuntimeStarts == RuntimeInit => RuntimeIInv
  BY InitIInv, ResourcesInit, LimiterInit, MiddlewareInit DEF RuntimeInit, RuntimeIInv

LEMMA RuntimeStep == RuntimeIInv /\ [RuntimeNext]_runtimeVars => RuntimeIInv'
<1> SUFFICES ASSUME RuntimeIInv, [RuntimeNext]_runtimeVars PROVE RuntimeIInv'
  OBVIOUS
<1>1. /\ [Next]_vars
      /\ [Resources!Next]_resourceVars
      /\ Limiter!Next \/ UNCHANGED limiterVars
      /\ Middleware!Next \/ UNCHANGED middlewareVars
  BY DEF RuntimeNext, TasksMove, ResourcesMove, LimiterStep, MiddlewareStep, runtimeVars
<1>2. IInv'
  BY <1>1, TypeStep, BooksStep, PlaceStep, LostStep, AnswersStep, SubmittedStep
  DEF RuntimeIInv, IInv
<1> QED
  BY <1>1, <1>2, ResourcesStep, LimiterKept, MiddlewareKept DEF RuntimeIInv

THEOREM RuntimeInvariant == RuntimeSpec => []RuntimeIInv
  BY RuntimeStarts, RuntimeStep, PTL DEF RuntimeSpec

(* Type correctness of all parts.                                            *)
THEOREM RuntimeTypes == RuntimeSpec => []TypesOK
<1>1. RuntimeIInv => TypesOK
  BY DEF RuntimeIInv, IInv, ResourcesIInv, LimiterIInv, MiddlewareIInv, TypesOK
<1> QED
  BY <1>1, RuntimeInvariant, PTL

(* The monitor, its operators and the callers keep the books of executions.  *)
THEOREM ExecutionsKept == RuntimeSpec => []ExecutionsAccounted
<1>1. RuntimeIInv => ExecutionsAccounted
  BY DEF RuntimeIInv, ResourcesIInv, ExecutionsAccounted, Resources!ExecutionsAccounted
<1> QED
  BY <1>1, RuntimeInvariant, PTL

(* The limiter's strategies keep their promises; the middlewares let no more *)
(* than the limit through, handle nothing they deny, repeat a request only   *)
(* for a reason, and limit the life of every counter they use.               *)
THEOREM LimitsKept == RuntimeSpec => []LimitsHold
<1>1. RuntimeIInv => Limiter!WindowBound
  BY DEF RuntimeIInv, LimiterIInv
<1>2. RuntimeIInv => Middleware!SharedLimit
  BY CounterShared DEF RuntimeIInv
<1>3. RuntimeIInv => Middleware!HandledAsAllowed
  BY DEF RuntimeIInv, MiddlewareIInv, HandledInPlace, Middleware!HandledAsAllowed,
         Middleware!At
<1>4. RuntimeIInv => Middleware!CounterRunsOut
  BY DEF RuntimeIInv, MiddlewareIInv, LifeLimited, Middleware!CounterRunsOut, Middleware!At
<1>5. RuntimeIInv => LimitsHold
  BY <1>1, <1>2, <1>3, <1>4 DEF LimitsHold
<1> QED
  BY <1>5, RuntimeInvariant, PTL

(* A denial of check_rate_limit or is_allowed is owed to something allowed    *)
(* within the last window, to a request within it for the sliding window, or  *)
(* to a change of the configuration within it.                               *)
THEOREM DenialsAreDeserved == RuntimeSpec => NotStarved
<1> DEFINE Deserved ==
              verdict' = "denied" =>
                  LET span == CASE strategy = "fixed" -> Minute
                                [] strategy = "sliding" -> Window + 1
                                [] OTHER -> Window
                      recent(t) == t > now - span
                  IN  \/ recent(since)
                      \/ \E t \in 0..now : recent(t) /\ Limiter!Got(t, t) > 0
                      \/ strategy = "sliding" /\ \E t \in asked : recent(t)
<1>1. RuntimeInit => ReasonIInv
  BY ReasonInit DEF RuntimeInit
<1>2. ReasonIInv /\ [RuntimeNext]_runtimeVars => ReasonIInv' /\ [Deserved]_Limiter!vars
  <2> SUFFICES ASSUME ReasonIInv, [RuntimeNext]_runtimeVars
               PROVE  ReasonIInv' /\ [Deserved]_Limiter!vars
    OBVIOUS
  <2>1. Limiter!Next \/ UNCHANGED limiterVars
    BY DEF RuntimeNext, TasksMove, ResourcesMove, LimiterStep, MiddlewareStep, runtimeVars
  <2>2. ReasonIInv'
    BY <2>1, ReasonKept
  <2>3. CASE UNCHANGED limiterVars
    BY <2>2, <2>3 DEF limiterVars, Limiter!vars, Limiter!state
  <2>4. ASSUME NEW cost \in Costs, Limiter!CheckRateLimit(cost) PROVE Deserved
    BY <2>4, DenialHasReason
  <2>5. CASE Limiter!Next
    <3>1. (\E cost \in Costs : Limiter!CheckRateLimit(cost)) \/ verdict' = "none"
      BY <2>5
      DEF Limiter!Next, Limiter!ResetRateLimit, Limiter!AddRateLimit,
          Limiter!RemoveRateLimit, Limiter!Forget, Limiter!Tick
    <3>2. Deserved
      BY <2>4, <3>1
    <3> QED
      BY <2>2, <3>2
  <2> QED
    BY <2>1, <2>3, <2>5
<1> QED
  BY <1>1, <1>2, PTL DEF RuntimeSpec, NotStarved, Limiter!NotStarved
=============================================================================
