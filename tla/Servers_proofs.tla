---------------------------- MODULE Servers_proofs ----------------------------
(***************************************************************************)
(* What holds of the callers of servers, for any number of callers, servers *)
(* and services, any thresholds and any weights.                            *)
(***************************************************************************)
EXTENDS MCServers, FiniteSetTheorems, WellFoundedInduction, TLAPS

(* While the circuit is half open, success_count is the number of successes  *)
(* of this trial; while it is closed, failure_count is at most the number of *)
(* failures since the last success; while it is open, its last failure is    *)
(* not older than its opening, unless an operator forced it open.            *)
CountersTrackStreaks ==
    /\ state = "half_open" => successes = trial
    /\ state = "closed" => failures <= streak
    /\ state = "open" /\ forced = 0 => sinceFailure <= sinceOpen

PerfIInv == TypeOK /\ CountersTrackStreaks

(* A counter stays in range and grows by at most one.                        *)
LEMMA BumpBounds ==
    ASSUME NEW n \in 0..CountBound
    PROVE  /\ Bump(n) \in 0..CountBound
           /\ Bump(n) <= n + 1
           /\ \A m \in 0..CountBound : m <= n => Bump(m) <= Bump(n)
  BY ThresholdAssumption DEF Bump

(* The inductive invariant holds initially.                                  *)
LEMMA PerfInit == Init => PerfIInv
  BY ThresholdAssumption DEF Init, PerfIInv, TypeOK, States, CountersTrackStreaks

(* Every step of the breaker and of its environment keeps the invariant.     *)
LEMMA PerfStep == PerfIInv /\ [Next]_vars => PerfIInv'
<1> SUFFICES ASSUME PerfIInv, [Next]_vars PROVE PerfIInv'
  OBVIOUS
<1> USE ThresholdAssumption, BumpBounds
     DEF PerfIInv, TypeOK, States, CountersTrackStreaks, observers
<1>1. ASSUME NEW c \in Calls, Admit(c) PROVE PerfIInv'
  BY <1>1 DEF Admit
<1>2. ASSUME NEW c \in Calls, Probe(c) PROVE PerfIInv'
  BY <1>2 DEF Probe, TransitionToHalfOpen
<1>3. ASSUME NEW c \in Calls, OnSuccess(c) PROVE PerfIInv'
  BY <1>3 DEF OnSuccess, OnTrial, Counted, Forgiven, TransitionToClosed
<1>4. ASSUME NEW c \in Calls, OnFailure(c) PROVE PerfIInv'
  BY <1>4 DEF OnFailure, TransitionToOpen
<1>5. ASSUME NEW c \in Calls, Escape(c) PROVE PerfIInv'
  BY <1>5 DEF Escape
<1>6. CASE Reset
  BY <1>6 DEF Reset, TransitionToClosed
<1>7. CASE ForceOpen
  BY <1>7 DEF ForceOpen, TransitionToOpen
<1>8. CASE Tick
  BY <1>8 DEF Tick
<1>9. CASE ServiceChanges
  BY <1>9 DEF ServiceChanges
<1>10. CASE UNCHANGED vars
  BY <1>10 DEF vars
<1> QED
  BY <1>1, <1>2, <1>3, <1>4, <1>5, <1>6, <1>7, <1>8, <1>9, <1>10 DEF Next

(* The invariant holds of every reachable state.                             *)
THEOREM PerfInvariant == Spec => []PerfIInv
  BY PerfInit, PerfStep, PTL DEF Spec

(* Types: the state is one of CircuitState, counters and clocks are in range.*)
THEOREM PerfTypes == Spec => []TypeOK
<1>1. PerfIInv => TypeOK
  BY DEF PerfIInv
<1> QED
  BY <1>1, PerfInvariant, PTL

(* success_threshold successes of the trial are needed to close the circuit, *)
(* in spite of late answers to calls of earlier phases.                      *)
THEOREM ClosingNeedsTrial == Spec => ClosesAfterTrial
<1>1. PerfIInv /\ [Next]_vars =>
        [state = "half_open" /\ state' = "closed" /\ forced' = forced
            => trial + 1 >= SuccessThreshold]_vars
  <2> SUFFICES ASSUME PerfIInv, Next,
                      state = "half_open", state' = "closed", forced' = forced
               PROVE  trial + 1 >= SuccessThreshold
    BY DEF vars
  <2>1. PICK c \in Calls : OnSuccess(c)
    BY DEF Next, Admit, Probe, OnFailure, Escape, Reset, ForceOpen, Tick,
           ServiceChanges, TransitionToHalfOpen, TransitionToOpen,
           TransitionToClosed, PerfIInv, TypeOK
  <2>2. Bump(successes) >= SuccessThreshold
    BY <2>1 DEF OnSuccess, OnTrial, Counted, Forgiven
  <2> QED
    BY <2>2, BumpBounds, ThresholdAssumption
       DEF PerfIInv, TypeOK, CountersTrackStreaks
<1> QED
  BY <1>1, PerfInvariant, PTL DEF Spec, ClosesAfterTrial

(* failure_threshold failures without a success in between are needed to     *)
(* open a closed circuit.                                                    *)
THEOREM PerfOpening == Spec => OpensAfterFailures
<1>1. PerfIInv /\ [Next]_vars =>
        [state = "closed" /\ state' = "open" /\ forced' = forced
            => streak' >= FailureThreshold]_vars
  <2> SUFFICES ASSUME PerfIInv, Next,
                      state = "closed", state' = "open", forced' = forced
               PROVE  streak' >= FailureThreshold
    BY DEF vars
  <2>1. PICK c \in Calls : OnFailure(c)
    BY DEF Next, Admit, Probe, OnSuccess, Escape, Reset, ForceOpen, Tick,
           ServiceChanges, TransitionToHalfOpen, TransitionToOpen,
           TransitionToClosed, PerfIInv, TypeOK
  <2>2. Bump(failures) >= FailureThreshold /\ streak' = Bump(streak)
    BY <2>1 DEF OnFailure
  <2>3. Bump(failures) <= Bump(streak)
    BY BumpBounds DEF PerfIInv, TypeOK, CountersTrackStreaks
  <2> QED
    BY <2>2, <2>3, BumpBounds, ThresholdAssumption DEF PerfIInv, TypeOK
<1> QED
  BY <1>1, PerfInvariant, PTL DEF Spec, OpensAfterFailures

(* No change of state without the calls that earn it.                        *)
THEOREM PerfChangesEarned == Spec => TransitionsAreEarned
  BY ClosingNeedsTrial, PerfOpening, PTL DEF TransitionsAreEarned

(* An OPEN circuit rejects every call for recovery_timeout after it opened:  *)
(* late failures only prolong this.                                          *)
THEOREM OpenCircuitRejects == Spec => OpenRejects
<1>1. PerfIInv /\ [Next]_vars =>
        [state = "open" /\ forced = 0 /\ inflight' \ inflight # {}
            => sinceOpen >= RecoveryTimeout]_vars
  <2> SUFFICES ASSUME PerfIInv, Next, state = "open", forced = 0,
                      inflight' \ inflight # {}
               PROVE  sinceOpen >= RecoveryTimeout
    BY DEF vars
  <2>1. PICK c \in Calls : Admit(c) \/ Probe(c)
    BY DEF Next, OnSuccess, OnFailure, Escape, Reset, ForceOpen, Tick,
           ServiceChanges
  <2>2. sinceFailure >= RecoveryTimeout
    BY <2>1 DEF Admit, Probe, ShouldAttemptReset
  <2> QED
    BY <2>2, ThresholdAssumption DEF PerfIInv, TypeOK, CountersTrackStreaks
<1> QED
  BY <1>1, PerfInvariant, PTL DEF Spec, OpenRejects

(* The breaker implements CircuitBreaker: no admission while OPEN, and late  *)
(* answers never change an OPEN circuit.                                     *)
THEOREM PerfKeepsPromise == Spec => KeepsPromise
<1>1. Init => Promise!Init
  BY DEF Init, Promise!Init
<1>2. PerfIInv /\ [Next]_vars => [Promise!Next]_(Promise!vars)
  <2> SUFFICES ASSUME PerfIInv, [Next]_vars, ~UNCHANGED Promise!vars
               PROVE  Promise!Next
    OBVIOUS
  <2> USE DEF PerfIInv, TypeOK, States, Promise!vars
  <2>1. ASSUME NEW c \in Calls, Admit(c) PROVE Promise!Admit(c)
    BY <2>1 DEF Admit, Promise!Admit
  <2>2. ASSUME NEW c \in Calls, Probe(c) PROVE Promise!Probe(c)
    BY <2>2 DEF Probe, TransitionToHalfOpen, ShouldAttemptReset, Promise!Probe
  <2>3. ASSUME NEW c \in Calls, OnSuccess(c) PROVE Promise!Settle(c)
    BY <2>3
    DEF OnSuccess, OnTrial, Counted, Forgiven, TransitionToClosed, Promise!Settle
  <2>4. ASSUME NEW c \in Calls, OnFailure(c) PROVE Promise!Settle(c)
    BY <2>4 DEF OnFailure, TransitionToOpen, Promise!Settle
  <2>5. ASSUME NEW c \in Calls, Escape(c) PROVE Promise!Settle(c)
    BY <2>5 DEF Escape, Promise!Settle
  <2>6. CASE Reset \/ ForceOpen
    BY <2>6 DEF Reset, ForceOpen, TransitionToClosed, TransitionToOpen,
                Promise!Next, Promise!Operator
  <2>7. CASE Tick \/ ServiceChanges \/ UNCHANGED vars
    BY <2>7 DEF Tick, ServiceChanges, vars
  <2> QED
    BY <2>1, <2>2, <2>3, <2>4, <2>5, <2>6, <2>7 DEF Next, Promise!Next
<1> QED
  BY <1>1, <1>2, PerfInvariant, PTL DEF Spec, KeepsPromise, Promise!Spec


(* failure_count never exceeds the failures since the last success: a        *)
(* success clears both, a reset only the former.                             *)
UtilsIInv ==
    /\ Utils!TypeOK
    /\ Utils!OpenHasFailureTime
    /\ uFailures <= uStreak

LEMMA UtilsBumpBounds ==
    ASSUME NEW n \in 0..CountBound
    PROVE  /\ Utils!Bump(n) \in 0..CountBound
           /\ \A m \in 0..CountBound : m <= n => Utils!Bump(m) <= Utils!Bump(n)
  BY ThresholdAssumption DEF Utils!Bump

LEMMA UtilsInit == Utils!Init => UtilsIInv
  BY ThresholdAssumption
  DEF Utils!Init, UtilsIInv, Utils!TypeOK, Utils!OpenHasFailureTime, Utils!NoFailure

(* Every step of the breaker and of its environment keeps the invariant.     *)
LEMMA UtilsStep == UtilsIInv /\ [Utils!Next]_Utils!vars => UtilsIInv'
<1> SUFFICES ASSUME UtilsIInv, [Utils!Next]_Utils!vars PROVE UtilsIInv'
  OBVIOUS
<1> USE ThresholdAssumption, UtilsBumpBounds
     DEF UtilsIInv, Utils!TypeOK, Utils!OpenHasFailureTime, Utils!NoFailure,
       Utils!observers
<1>1. ASSUME NEW c \in Calls, Utils!Admit(c) PROVE UtilsIInv'
  BY <1>1 DEF Utils!Admit
<1>2. ASSUME NEW c \in Calls, Utils!Probe(c) PROVE UtilsIInv'
  BY <1>2 DEF Utils!Probe
<1>3. ASSUME NEW c \in Calls, Utils!OnSuccess(c) PROVE UtilsIInv'
  BY <1>3 DEF Utils!OnSuccess, Utils!OnTrial, Utils!Forgiven
<1>4. ASSUME NEW c \in Calls, Utils!OnFailure(c) PROVE UtilsIInv'
  BY <1>4 DEF Utils!OnFailure, Utils!Stamp, Utils!Tripped
<1>5. ASSUME NEW c \in Calls, Utils!Escape(c) PROVE UtilsIInv'
  BY <1>5 DEF Utils!Escape
<1>6. CASE Utils!Reset
  BY <1>6 DEF Utils!Reset
<1>7. CASE Utils!Tick
  BY <1>7 DEF Utils!Tick
<1>8. CASE Utils!ServiceChanges
  BY <1>8 DEF Utils!ServiceChanges
<1>9. CASE UNCHANGED Utils!vars
  BY <1>9 DEF Utils!vars
<1> QED
  BY <1>1, <1>2, <1>3, <1>4, <1>5, <1>6, <1>7, <1>8, <1>9 DEF Utils!Next

(* The invariant holds of every reachable state.                             *)
THEOREM UtilsInvariant == Utils!Spec => []UtilsIInv
  BY UtilsInit, UtilsStep, PTL DEF Utils!Spec

(* Types: the state is one of CircuitState, counters and clocks are in range.*)
THEOREM UtilsTypes == Utils!Spec => []Utils!TypeOK
<1>1. UtilsIInv => Utils!TypeOK
  BY DEF UtilsIInv
<1> QED
  BY <1>1, UtilsInvariant, PTL

(* Whatever the interleaving of late answers and resets, an OPEN circuit has *)
(* a last failure time, from which its recovery can be awaited.              *)
THEOREM UtilsOpenIsTimed == Utils!Spec => []Utils!OpenHasFailureTime
<1>1. UtilsIInv => Utils!OpenHasFailureTime
  BY DEF UtilsIInv
<1> QED
  BY <1>1, UtilsInvariant, PTL

(* failure_threshold failures without a success in between are needed to     *)
(* open the circuit, from CLOSED and from HALF_OPEN.                         *)
THEOREM UtilsOpening == Utils!Spec => Utils!OpensAfterFailures
<1>1. UtilsIInv /\ [Utils!Next]_Utils!vars =>
        [uState # "open" /\ uState' = "open" => uStreak' >= FailureThreshold]_Utils!vars
  <2> SUFFICES ASSUME UtilsIInv, Utils!Next, uState # "open", uState' = "open"
               PROVE  uStreak' >= FailureThreshold
    BY DEF Utils!vars
  <2>1. PICK c \in Calls : Utils!OnFailure(c)
    BY
    DEF Utils!Next, Utils!Admit, Utils!Probe, Utils!OnSuccess, Utils!Escape,
        Utils!Reset, Utils!Tick, Utils!ServiceChanges,
           UtilsIInv, Utils!TypeOK
  <2>2. Utils!Bump(uFailures) >= FailureThreshold /\ uStreak' = Utils!Bump(uStreak)
    BY <2>1 DEF Utils!OnFailure, Utils!Stamp, Utils!Tripped
  <2>3. Utils!Bump(uFailures) <= Utils!Bump(uStreak)
    BY UtilsBumpBounds DEF UtilsIInv, Utils!TypeOK
  <2> QED
    BY <2>2, <2>3, UtilsBumpBounds, ThresholdAssumption DEF UtilsIInv, Utils!TypeOK
<1> QED
  BY <1>1, UtilsInvariant, PTL DEF Utils!Spec, Utils!OpensAfterFailures

(* The breaker implements CircuitBreaker: no admission while OPEN, and late  *)
(* answers never change an OPEN circuit.                                     *)
THEOREM UtilsKeepsPromise == Utils!Spec => Utils!KeepsPromise
<1>1. Utils!Init => Utils!Promise!Init
  BY DEF Utils!Init, Utils!Promise!Init
<1>2. UtilsIInv /\ [Utils!Next]_Utils!vars => [Utils!Promise!Next]_Utils!Promise!vars
  <2> SUFFICES ASSUME UtilsIInv, [Utils!Next]_Utils!vars, ~UNCHANGED Utils!Promise!vars
               PROVE  Utils!Promise!Next
    OBVIOUS
  <2> USE DEF UtilsIInv, Utils!TypeOK, Utils!Promise!vars
  <2>1. ASSUME NEW c \in Calls, Utils!Admit(c) PROVE Utils!Promise!Admit(c)
    BY <2>1 DEF Utils!Admit, Utils!Promise!Admit
  <2>2. ASSUME NEW c \in Calls, Utils!Probe(c) PROVE Utils!Promise!Probe(c)
    BY <2>2 DEF Utils!Probe, Utils!ShouldAttemptReset, Utils!Promise!Probe
  <2>3. ASSUME NEW c \in Calls, Utils!OnSuccess(c) PROVE Utils!Promise!Settle(c)
    BY <2>3 DEF Utils!OnSuccess, Utils!OnTrial, Utils!Forgiven, Utils!Promise!Settle
  <2>4. ASSUME NEW c \in Calls, Utils!OnFailure(c) PROVE Utils!Promise!Settle(c)
    BY <2>4 DEF Utils!OnFailure, Utils!Stamp, Utils!Tripped, Utils!Promise!Settle
  <2>5. ASSUME NEW c \in Calls, Utils!Escape(c) PROVE Utils!Promise!Settle(c)
    BY <2>5 DEF Utils!Escape, Utils!Promise!Settle
  <2>6. CASE Utils!Reset
    BY <2>6 DEF Utils!Reset, Utils!Promise!Next, Utils!Promise!Operator
  <2>7. CASE Utils!Tick \/ Utils!ServiceChanges \/ UNCHANGED Utils!vars
    BY <2>7 DEF Utils!Tick, Utils!ServiceChanges, Utils!vars
  <2> QED
    BY <2>1, <2>2, <2>3, <2>4, <2>5, <2>6, <2>7 DEF Utils!Next, Utils!Promise!Next
<1> QED
  BY <1>1, <1>2, UtilsInvariant, PTL
  DEF Utils!Spec, Utils!KeepsPromise, Utils!Promise!Spec

-----------------------------------------------------------------------------
(* The load balancer.  Dictionaries and checkers agree: a server has an entry *)
(* with a checker of its own, which was made before; a checker that was not   *)
(* made has done nothing.                                                    *)
EntriesAgree ==
    /\ made \in 0..MaxAdds
    /\ servers \subseteq Balancer!Registered \ leaving
    /\ leaving \subseteq Balancer!Registered
    /\ \A i \in leaving :
        /\ leaving = {i}
        /\ (~disturbed => checker[Balancer!Of(i)].task = "none")
    /\ \A i \in Balancer!Registered :
        Balancer!Of(i) \in 1..made /\ entry[i].place \in 1..made
    /\ \A i, j \in Balancer!Registered : Balancer!Of(i) = Balancer!Of(j) => i = j
    /\ \A c \in Balancer!Checkers : c > made =>
        checker[c] = Balancer!NoChecker /\ outcomes[c] = [ok |-> TRUE, length |-> 0]

(* The counters of a checker are those of its last outcomes in a row.        *)
CountersTrackOutcomes ==
    /\ outcomes \in [Balancer!Checkers -> [ok : BOOLEAN, length : Nat]]
    /\ \A c \in Balancer!Checkers :
        /\ outcomes[c].ok =>
            checker[c].successes = outcomes[c].length /\ checker[c].failures = 0
        /\ ~outcomes[c].ok =>
            checker[c].failures = outcomes[c].length /\ checker[c].successes = 0

(* While a stop that nothing disturbs goes on, the checkers up to where it    *)
(* walks are halted, and the dictionary keeps its size.                      *)
StopHalts ==
    /\ balancing \in BOOLEAN /\ disturbed \in BOOLEAN
    /\ stopping \in [on : BOOLEAN, place : 0..MaxAdds, size : Nat]
    /\ stopping.on /\ ~disturbed =>
        /\ ~balancing
        /\ Balancer!Cardinality(Balancer!Registered) = stopping.size
        /\ \A i \in Balancer!Registered :
            entry[i].place <= stopping.place => checker[Balancer!Of(i)].task = "none"

BalancerIInv ==
    /\ Balancer!TypeOK
    /\ EntriesAgree
    /\ CountersTrackOutcomes
    /\ StopHalts
    /\ Balancer!ChecksFollowRunning

LEMMA BalancerCounts ==
    /\ \A S : Balancer!Cardinality(S) = Cardinality(S)
    /\ \A S : Balancer!IsFiniteSet(S) = IsFiniteSet(S)
<1>1. ASSUME NEW S PROVE Balancer!IsFiniteSet(S) = IsFiniteSet(S)
  BY DEF IsFiniteSet, Balancer!IsFiniteSet
<1>2. ASSUME NEW S PROVE Balancer!Cardinality(S) = Cardinality(S)
  BY <1>1 DEF Cardinality, Balancer!Cardinality
<1> QED
  BY <1>1, <1>2

(* Every nonempty set of numbers has a least one.                            *)
LEMMA LeastNumber ==
    ASSUME NEW S \in SUBSET Nat, S # {}
    PROVE  \E x \in S : \A y \in S : x <= y
<1>1. IsWellFoundedOn(OpToRel(<, Nat), Nat)
  BY NatLessThanWellFounded
<1>2. PICK x \in S : \A y \in S : ~ (<<y, x>> \in OpToRel(<, Nat))
  BY <1>1, WFMin
<1>3. ASSUME NEW y \in S PROVE ~(y < x)
  <2>1. <<y, x>> \notin OpToRel(<, Nat)
    BY <1>2
  <2>2. <<y, x>> \in {ss \in Nat \X Nat : ss[1] < ss[2]} <=> y < x
    OBVIOUS
  <2> QED
    BY <2>1, <2>2 DEF OpToRel
<1> QED
  BY <1>3

LEMMA BalancerInit == Balancer!Init => BalancerIInv
<1> SUFFICES ASSUME Balancer!Init PROVE BalancerIInv
  OBVIOUS
<1> USE BalancerAssumption
     DEF Balancer!Init, Balancer!NoEntry, Balancer!NoChecker, Balancer!NoStop, Balancer!Checkers,
         Balancer!Registered, Balancer!Of
<1>1. Balancer!TypeOK
  BY DEF Balancer!TypeOK
<1>2. EntriesAgree
  BY DEF EntriesAgree
<1>3. CountersTrackOutcomes
  BY DEF CountersTrackOutcomes
<1>4. StopHalts
  <2>1. stopping = [on |-> FALSE, place |-> 0, size |-> 0] /\ ~stopping.on
    OBVIOUS
  <2>2. stopping \in [on : BOOLEAN, place : 0..MaxAdds, size : Nat]
    BY <2>1
  <2> QED
    BY <2>1, <2>2 DEF StopHalts
<1>5. Balancer!ChecksFollowRunning
  BY DEF Balancer!ChecksFollowRunning
<1> QED
  BY <1>1, <1>2, <1>3, <1>4, <1>5 DEF BalancerIInv

(* What a part of stop's walk does: checkers are halted and nothing else of   *)
(* them changes, and all registered ones are up to where the walk is now.    *)
LEMMA WalkHalts ==
    ASSUME BalancerIInv, NEW place \in 0..MaxAdds, NEW size, Balancer!Walk(place, size)
    PROVE  /\ \E C \in SUBSET Balancer!Checkers :
                /\ checker' = Balancer!Halted(C) /\ dying' = Balancer!Dying(C)
                /\ \A i \in Balancer!Registered :
                    /\ ~stopping'.on /\ place < entry[i].place => Balancer!Of(i) \in C
                    /\ stopping'.on /\ place < entry[i].place /\ entry[i].place <= stopping'.place
                        => Balancer!Of(i) \in C
           /\ \/ stopping' = Balancer!NoStop
              \/ /\ stopping'.place \in 0..MaxAdds
                 /\ stopping' = [on |-> TRUE, place |-> stopping'.place, size |-> size]
<1> DEFINE ahead == {i \in Balancer!Registered : entry[i].place > place}
           held == {entry[i].place : i \in {j \in ahead : Balancer!Busy(Balancer!Of(j))}}
           upto == IF held = {} THEN MaxAdds ELSE Balancer!Min(held)
           C == {Balancer!Of(i) : i \in {j \in ahead : entry[j].place <= upto}}
<1>1. /\ checker' = Balancer!Halted(C) /\ dying' = Balancer!Dying(C)
      /\ stopping' = IF held = {} THEN Balancer!NoStop
                     ELSE [on |-> TRUE, place |-> upto, size |-> size]
  BY DEF Balancer!Walk
<1>2. \A i \in Balancer!Registered :
        Balancer!Of(i) \in 1..MaxAdds /\ entry[i].place \in 1..MaxAdds
  BY BalancerAssumption DEF BalancerIInv, EntriesAgree
<1>3. held \in SUBSET (1..MaxAdds)
  BY <1>2
<1>4. ahead \subseteq Balancer!Registered /\ \A i \in Balancer!Registered : i \in ahead <=> place < entry[i].place
  BY <1>2
<1> HIDE DEF held, ahead
<1>5. held # {} => Balancer!Min(held) \in held
  <2>1. held # {} => \E x \in held : \A y \in held : x <= y
    BY <1>3, LeastNumber, BalancerAssumption
  <2> QED
    BY <2>1 DEF Balancer!Min
<1>6. upto \in 0..MaxAdds
  <2>1. CASE held = {}
    BY <2>1, BalancerAssumption
  <2>2. CASE held # {}
    <3>1. Balancer!Min(held) \in 1..MaxAdds
      BY <1>3, <1>5, <2>2
    <3> QED
      BY <2>2, <3>1
  <2> QED
    BY <2>1, <2>2
<1> HIDE DEF upto
<1>7. C \in SUBSET Balancer!Checkers
  BY <1>2, <1>4 DEF Balancer!Checkers
<1>8. ASSUME NEW i \in Balancer!Registered, place < entry[i].place, entry[i].place <= upto
      PROVE  Balancer!Of(i) \in C
  BY <1>4, <1>8
<1>9. held = {} => upto = MaxAdds
  BY DEF upto
<1> HIDE DEF C
<1>10. CASE held = {}
  <2>1. stopping' = Balancer!NoStop
    BY <1>1, <1>10
  <2>2. \A i \in Balancer!Registered : place < entry[i].place => Balancer!Of(i) \in C
    BY <1>2, <1>8, <1>9, <1>10
  <2>3. ~stopping'.on
    BY <2>1 DEF Balancer!NoStop
  <2> QED
    BY <1>1, <1>7, <2>1, <2>2, <2>3
<1>11. CASE held # {}
  <2>1. stopping' = [on |-> TRUE, place |-> upto, size |-> size]
    BY <1>1, <1>11
  <2>2. stopping'.place = upto /\ stopping'.on
    BY <2>1
  <2> QED
    BY <1>1, <1>6, <1>7, <1>8, <2>1, <2>2
<1> QED
  BY <1>10, <1>11

(* What halting and starting checkers leaves of them.                        *)
LEMMA HaltedCheckers ==
    ASSUME BalancerIInv, NEW C \in SUBSET Balancer!Checkers
    PROVE  /\ Balancer!Halted(C) \in [Balancer!Checkers -> [task : {"none", "running"},
                  status : {"offline", "healthy", "unhealthy"},
                  failures : 0..FailoverThreshold, successes : 0..RecoveryThreshold]]
           /\ \A c \in Balancer!Checkers :
                /\ Balancer!Halted(C)[c].status = checker[c].status
                /\ Balancer!Halted(C)[c].failures = checker[c].failures
                /\ Balancer!Halted(C)[c].successes = checker[c].successes
                /\ c \in C => Balancer!Halted(C)[c].task = "none"
                /\ c \notin C => Balancer!Halted(C)[c] = checker[c]
                /\ checker[c].task = "none" => Balancer!Halted(C)[c] = checker[c]
           /\ Balancer!Dying(C) \subseteq Balancer!Checkers
  BY DEF BalancerIInv, Balancer!TypeOK, Balancer!Halted, Balancer!Dying

LEMMA StartedCheckers ==
    ASSUME BalancerIInv, NEW C \in SUBSET Balancer!Checkers
    PROVE  /\ Balancer!Started(C) \in [Balancer!Checkers -> [task : {"none", "running"},
                  status : {"offline", "healthy", "unhealthy"},
                  failures : 0..FailoverThreshold, successes : 0..RecoveryThreshold]]
           /\ \A c \in Balancer!Checkers :
                /\ Balancer!Started(C)[c].status = checker[c].status
                /\ Balancer!Started(C)[c].failures = checker[c].failures
                /\ Balancer!Started(C)[c].successes = checker[c].successes
                /\ c \in C => Balancer!Started(C)[c].task = "running"
                /\ c \notin C => Balancer!Started(C)[c] = checker[c]
  BY DEF BalancerIInv, Balancer!TypeOK, Balancer!Started

(* Every entry is that of a checker that was made.                           *)
LEMMA EntriesMade ==
    ASSUME BalancerIInv
    PROVE  /\ Balancer!Registered \subseteq Ids
           /\ \A i \in Balancer!Registered :
                /\ Balancer!Of(i) \in Balancer!Checkers /\ Balancer!Of(i) \in 1..made
                /\ entry[i].place \in 1..made
           /\ \A i \in Ids : entry[i] \in [checker : 0..MaxAdds, place : 0..MaxAdds]
           /\ made \in 0..MaxAdds
  BY BalancerAssumption
     DEF BalancerIInv, Balancer!TypeOK, EntriesAgree, Balancer!Registered, Balancer!Checkers

LEMMA AddServerKeeps ==
    ASSUME BalancerIInv, NEW i \in Ids, Balancer!AddServer(i)
    PROVE  BalancerIInv'
<1> USE BalancerAssumption
<1>1. made' = made + 1 /\ made' \in Balancer!Checkers /\ made \in 0..MaxAdds
  BY EntriesMade DEF Balancer!AddServer, Balancer!Checkers
<1>2. /\ entry' \in [Ids -> [checker : 0..MaxAdds, place : 0..MaxAdds]]
      /\ entry'[i].checker = made' /\ entry'[i].place \in 1..made'
      /\ \A j \in Ids \ {i} : entry'[j] = entry[j]
  BY <1>1, EntriesMade
     DEF Balancer!AddServer, BalancerIInv, Balancer!TypeOK, Balancer!Registered, Balancer!Checkers
<1>3. /\ checker'[made'] = [Balancer!NoChecker EXCEPT !.task = Balancer!Added(made')]
      /\ \A c \in Balancer!Checkers \ {made'} : checker'[c] = checker[c]
  BY <1>1 DEF Balancer!AddServer, BalancerIInv, Balancer!TypeOK
<1>4. Balancer!Registered' = Balancer!Registered \cup {i}
  BY <1>1, <1>2 DEF Balancer!Registered
<1>5. /\ balancing \in BOOLEAN
      /\ checker'[made'].task = (IF balancing THEN "running" ELSE "none")
      /\ checker'[made'].status = "offline"
      /\ checker'[made'].failures = 0 /\ checker'[made'].successes = 0
  BY <1>3 DEF Balancer!NoChecker, Balancer!Added, BalancerIInv, StopHalts
<1>6. /\ servers' = servers \cup {i} /\ leaving = {} /\ leaving' = {}
      /\ UNCHANGED <<balancing, dying, stopping, outcomes>>
  BY DEF Balancer!AddServer
<1>7. (~disturbed' => ~disturbed /\ ~stopping.on) /\ disturbed' \in BOOLEAN
  BY DEF Balancer!AddServer, BalancerIInv, StopHalts
<1>8. Balancer!TypeOK'
  <2>1. checker' \in [Balancer!Checkers -> [task : {"none", "running"},
          status : {"offline", "healthy", "unhealthy"},
          failures : 0..FailoverThreshold, successes : 0..RecoveryThreshold]]
    BY <1>1, <1>3, <1>5
       DEF Balancer!AddServer, BalancerIInv, Balancer!TypeOK, Balancer!NoChecker, Balancer!Added
  <2> QED
    BY <1>2, <1>6, <2>1 DEF BalancerIInv, Balancer!TypeOK, Balancer!Checkers
<1>9. EntriesAgree'
  <2>1. made' \in 0..MaxAdds
    BY <1>1 DEF Balancer!Checkers
  <2>2. \A j \in Balancer!Registered' : Balancer!Of(j)' \in 1..made' /\ entry'[j].place \in 1..made'
    BY <1>1, <1>2, <1>4, EntriesMade DEF Balancer!Of
  <2>3. \A j \in Balancer!Registered \ {i} : Balancer!Of(j)' \in 1..made
    BY <1>2, EntriesMade DEF Balancer!Of
  <2>4. \A j, k \in Balancer!Registered' : Balancer!Of(j)' = Balancer!Of(k)' => j = k
    BY <1>1, <1>2, <1>4, <2>3, EntriesMade DEF Balancer!Of, BalancerIInv, EntriesAgree
  <2>5. \A c \in Balancer!Checkers : c > made' =>
          checker'[c] = Balancer!NoChecker /\ outcomes'[c] = [ok |-> TRUE, length |-> 0]
    BY <1>1, <1>3, <1>6 DEF BalancerIInv, EntriesAgree, Balancer!Checkers
  <2> QED
    BY <1>4, <1>6, <2>1, <2>2, <2>4, <2>5
       DEF BalancerIInv, EntriesAgree, Balancer!Checkers, Balancer!NoChecker
<1>10. CountersTrackOutcomes'
  <2>1. outcomes[made'] = [ok |-> TRUE, length |-> 0]
    BY <1>1 DEF BalancerIInv, EntriesAgree, Balancer!Checkers
  <2>2. ASSUME NEW c \in Balancer!Checkers
        PROVE  /\ outcomes[c].ok =>
                    checker'[c].successes = outcomes[c].length /\ checker'[c].failures = 0
               /\ ~outcomes[c].ok =>
                    checker'[c].failures = outcomes[c].length /\ checker'[c].successes = 0
    <3>1. CASE c = made'
      BY <1>5, <2>1, <3>1
    <3>2. CASE c # made'
      BY <1>3, <3>2 DEF BalancerIInv, CountersTrackOutcomes
    <3> QED
      BY <3>1, <3>2
  <2> QED
    BY <1>6, <2>2 DEF BalancerIInv, CountersTrackOutcomes, Balancer!Checkers
<1>11. StopHalts'
  BY <1>6, <1>7 DEF BalancerIInv, StopHalts
<1>12. Balancer!ChecksFollowRunning'
  <2> SUFFICES ASSUME ~disturbed', ~stopping'.on, NEW j \in Balancer!Registered' \ leaving'
               PROVE  (checker'[Balancer!Of(j)'].task # "none") = balancing'
    BY DEF Balancer!ChecksFollowRunning
  <2>1. CASE j = i
    BY <1>2, <1>5, <1>6, <2>1 DEF Balancer!Of
  <2>2. CASE j # i
    <3>1. j \in Balancer!Registered \ leaving
      BY <1>4, <1>6, <2>2
    <3>2. Balancer!Of(j)' = Balancer!Of(j) /\ Balancer!Of(j) \in Balancer!Checkers \ {made'}
      BY <1>1, <1>2, <2>2, <3>1, EntriesMade DEF Balancer!Of
    <3>3. (checker[Balancer!Of(j)].task # "none") = balancing
      BY <1>6, <1>7, <3>1 DEF BalancerIInv, Balancer!ChecksFollowRunning
    <3> QED
      BY <1>3, <1>6, <3>2, <3>3
  <2> QED
    BY <2>1, <2>2
<1> QED
  BY <1>8, <1>9, <1>10, <1>11, <1>12 DEF BalancerIInv

(* Checkers that are halted, while the dictionary stays or loses one entry.  *)
LEMMA HaltingKeeps ==
    ASSUME BalancerIInv, NEW C \in SUBSET Balancer!Checkers,
           checker' = Balancer!Halted(C), dying' = Balancer!Dying(C),
           UNCHANGED <<made, outcomes>>,
           entry' \in [Ids -> [checker : 0..MaxAdds, place : 0..MaxAdds]],
           Balancer!Registered' \subseteq Balancer!Registered,
           \A i \in Balancer!Registered' : entry'[i] = entry[i],
           servers' \subseteq Balancer!Registered' \ leaving',
           leaving' \subseteq Balancer!Registered',
           \A i \in leaving' : leaving' = {i} /\ (Balancer!Of(i) \in C \/ leaving' = leaving),
           disturbed => disturbed'
    PROVE  /\ Balancer!TypeOK' /\ EntriesAgree' /\ CountersTrackOutcomes'
           /\ \A i \in Balancer!Registered' : Balancer!Of(i)' = Balancer!Of(i)
           /\ \A c \in Balancer!Checkers :
                /\ c \in C => checker'[c].task = "none"
                /\ checker[c].task = "none" => checker'[c].task = "none"
                /\ c \notin C => checker'[c] = checker[c]
<1> USE BalancerAssumption
<1>1. \A i \in Balancer!Registered' : Balancer!Of(i)' = Balancer!Of(i)
  BY DEF Balancer!Of
<1>2. \A c \in Balancer!Checkers :
        /\ c \in C => checker'[c].task = "none"
        /\ checker[c].task = "none" => checker'[c] = checker[c]
        /\ c \notin C => checker'[c] = checker[c]
        /\ checker'[c].successes = checker[c].successes
        /\ checker'[c].failures = checker[c].failures
  BY HaltedCheckers
<1>3. Balancer!TypeOK'
  <2>1. leaving' \subseteq Ids /\ servers' \subseteq Ids
    BY EntriesMade
  <2> QED
    BY <2>1, HaltedCheckers DEF Balancer!TypeOK, Balancer!Checkers
<1>4. EntriesAgree'
  <2>1. \A i \in Balancer!Registered' :
          Balancer!Of(i)' \in 1..made' /\ entry'[i].place \in 1..made'
    BY <1>1, EntriesMade
  <2>2. \A i, j \in Balancer!Registered' : Balancer!Of(i)' = Balancer!Of(j)' => i = j
    BY <1>1 DEF BalancerIInv, EntriesAgree
  <2>3. \A c \in Balancer!Checkers : c > made' =>
          checker'[c] = Balancer!NoChecker /\ outcomes'[c] = [ok |-> TRUE, length |-> 0]
    BY <1>2 DEF BalancerIInv, EntriesAgree, Balancer!NoChecker
  <2>4. ASSUME NEW i \in leaving'
        PROVE  /\ leaving' = {i}
               /\ (~disturbed' => checker'[Balancer!Of(i)'].task = "none")
    <3>1. Balancer!Of(i) \in Balancer!Checkers /\ Balancer!Of(i)' = Balancer!Of(i)
      BY <1>1, EntriesMade
    <3>2. leaving' = leaving /\ ~disturbed => checker[Balancer!Of(i)].task = "none"
      BY DEF BalancerIInv, EntriesAgree
    <3> QED
      BY <1>2, <3>1, <3>2
  <2> QED
    BY <2>1, <2>2, <2>3, <2>4, EntriesMade
       DEF EntriesAgree, Balancer!Checkers, Balancer!NoChecker
<1>5. CountersTrackOutcomes'
  <2>1. /\ outcomes \in [Balancer!Checkers -> [ok : BOOLEAN, length : Nat]]
        /\ \A c \in Balancer!Checkers :
            /\ outcomes[c].ok =>
                checker[c].successes = outcomes[c].length /\ checker[c].failures = 0
            /\ ~outcomes[c].ok =>
                checker[c].failures = outcomes[c].length /\ checker[c].successes = 0
    BY DEF BalancerIInv, CountersTrackOutcomes
  <2>2. outcomes' = outcomes
    OBVIOUS
  <2> QED
    BY <1>2, <2>1, <2>2 DEF CountersTrackOutcomes, Balancer!Checkers
<1> QED
  BY <1>1, <1>2, <1>3, <1>4, <1>5

LEMMA RemoveServerKeeps ==
    ASSUME BalancerIInv, NEW i \in Ids, Balancer!RemoveServer(i)
    PROVE  BalancerIInv'
<1> USE BalancerAssumption
<1>1. /\ i \in Balancer!Registered /\ leaving = {} /\ i \in servers
      /\ UNCHANGED <<balancing, made, stopping, outcomes>>
  BY DEF Balancer!RemoveServer, BalancerIInv, EntriesAgree
<1>2. \/ leaving' = {i} /\ entry' = entry
      \/ leaving' = {} /\ entry' = [entry EXCEPT ![i] = Balancer!NoEntry]
  BY <1>1 DEF Balancer!RemoveServer
<1>3. /\ entry' \in [Ids -> [checker : 0..MaxAdds, place : 0..MaxAdds]]
      /\ Balancer!Registered' \ leaving' = Balancer!Registered \ {i}
      /\ Balancer!Registered' \subseteq Balancer!Registered
      /\ leaving' \subseteq Balancer!Registered'
      /\ \A j \in Balancer!Registered' : entry'[j] = entry[j]
  BY <1>1, <1>2
     DEF Balancer!NoEntry, Balancer!Registered, BalancerIInv, Balancer!TypeOK
<1>4. /\ Balancer!Of(i) \in Balancer!Checkers
      /\ \A j \in Balancer!Registered \ {i} :
            Balancer!Of(j) \in Balancer!Checkers \ {Balancer!Of(i)}
  BY <1>1, EntriesMade DEF BalancerIInv, EntriesAgree
<1>5. checker' = Balancer!Halted({Balancer!Of(i)}) /\ dying' = Balancer!Dying({Balancer!Of(i)})
  BY DEF Balancer!RemoveServer
<1>6. servers' \subseteq Balancer!Registered' \ leaving'
  BY <1>3 DEF Balancer!RemoveServer, BalancerIInv, EntriesAgree
<1>7. /\ disturbed' \in BOOLEAN /\ (~disturbed' => ~disturbed /\ ~stopping.on)
      /\ (disturbed => disturbed')
  BY DEF Balancer!RemoveServer, BalancerIInv, StopHalts
<1>8. \A j \in leaving' : leaving' = {j} /\ Balancer!Of(j) \in {Balancer!Of(i)}
  BY <1>2
<1>9. /\ Balancer!TypeOK' /\ EntriesAgree' /\ CountersTrackOutcomes'
      /\ \A j \in Balancer!Registered' : Balancer!Of(j)' = Balancer!Of(j)
      /\ \A c \in Balancer!Checkers \ {Balancer!Of(i)} : checker'[c] = checker[c]
  BY <1>1, <1>3, <1>4, <1>5, <1>6, <1>7, <1>8, HaltingKeeps
<1>10. StopHalts'
  BY <1>1, <1>7 DEF BalancerIInv, StopHalts
<1>11. Balancer!ChecksFollowRunning'
  <2> SUFFICES ASSUME ~disturbed', ~stopping'.on, NEW j \in Balancer!Registered' \ leaving'
               PROVE  (checker'[Balancer!Of(j)'].task # "none") = balancing'
    BY DEF Balancer!ChecksFollowRunning
  <2>1. (checker[Balancer!Of(j)].task # "none") = balancing
    BY <1>1, <1>3, <1>7 DEF BalancerIInv, Balancer!ChecksFollowRunning
  <2>2. Balancer!Of(j)' = Balancer!Of(j) /\ checker'[Balancer!Of(j)] = checker[Balancer!Of(j)]
    BY <1>3, <1>4, <1>9
  <2> QED
    BY <1>1, <2>1, <2>2
<1> QED
  BY <1>9, <1>10, <1>11 DEF BalancerIInv

LEMMA RemovalEndsKeeps ==
    ASSUME BalancerIInv, Balancer!RemovalEnds
    PROVE  BalancerIInv'
<1> USE BalancerAssumption
<1>1. PICK i \in leaving : entry' = [entry EXCEPT ![i] = Balancer!NoEntry]
  BY DEF Balancer!RemovalEnds
<1>2. /\ i \in Balancer!Registered /\ leaving = {i} /\ leaving' = {}
      /\ UNCHANGED <<servers, balancing, made, checker, dying, stopping, outcomes>>
  BY DEF Balancer!RemovalEnds, BalancerIInv, EntriesAgree
<1>3. /\ entry' \in [Ids -> [checker : 0..MaxAdds, place : 0..MaxAdds]]
      /\ Balancer!Registered' = Balancer!Registered \ {i}
      /\ \A j \in Balancer!Registered' : entry'[j] = entry[j] /\ Balancer!Of(j)' = Balancer!Of(j)
  BY <1>1, <1>2, EntriesMade
     DEF Balancer!NoEntry, Balancer!Registered, Balancer!Of, BalancerIInv, Balancer!TypeOK
<1>4. /\ disturbed' \in BOOLEAN /\ (~disturbed' => ~disturbed /\ ~stopping.on)
      /\ (disturbed => disturbed')
  BY DEF Balancer!RemovalEnds, BalancerIInv, StopHalts
<1>5. Balancer!TypeOK'
  BY <1>2, <1>3 DEF BalancerIInv, Balancer!TypeOK, Balancer!Checkers
<1>6. EntriesAgree'
  BY <1>2, <1>3, <1>4, EntriesMade
     DEF BalancerIInv, EntriesAgree, Balancer!Checkers, Balancer!NoChecker
<1>7. CountersTrackOutcomes'
  BY <1>2 DEF BalancerIInv, CountersTrackOutcomes, Balancer!Checkers
<1>8. StopHalts'
  BY <1>2, <1>4 DEF BalancerIInv, StopHalts
<1>9. Balancer!ChecksFollowRunning'
  BY <1>2, <1>3, <1>4 DEF BalancerIInv, Balancer!ChecksFollowRunning
<1> QED
  BY <1>5, <1>6, <1>7, <1>8, <1>9 DEF BalancerIInv

LEMMA BalancerStartKeeps ==
    ASSUME BalancerIInv, Balancer!Start
    PROVE  BalancerIInv'
<1> USE BalancerAssumption
<1> DEFINE C == {Balancer!Of(i) : i \in Balancer!Registered}
<1>1. /\ C \in SUBSET Balancer!Checkers
      /\ \A c \in Balancer!Checkers : c > made => c \notin C
      /\ \A i \in Balancer!Registered : Balancer!Of(i) \in C
  BY EntriesMade
<1>2. checker' = Balancer!Started(C)
  BY DEF Balancer!Start
<1> HIDE DEF C
<1>3. /\ checker' \in [Balancer!Checkers -> [task : {"none", "running"},
            status : {"offline", "healthy", "unhealthy"},
            failures : 0..FailoverThreshold, successes : 0..RecoveryThreshold]]
      /\ \A c \in Balancer!Checkers :
            /\ checker'[c].failures = checker[c].failures
            /\ checker'[c].successes = checker[c].successes
            /\ c \in C => checker'[c].task = "running"
            /\ c \notin C => checker'[c] = checker[c]
  BY <1>1, <1>2, StartedCheckers
<1>4. /\ balancing' = TRUE
      /\ UNCHANGED <<servers, entry, made, dying, leaving, stopping, outcomes>>
      /\ Balancer!Registered' = Balancer!Registered
      /\ \A i \in Balancer!Registered : Balancer!Of(i)' = Balancer!Of(i)
  BY DEF Balancer!Start, Balancer!Registered, Balancer!Of
<1>5. /\ disturbed' \in BOOLEAN
      /\ (~disturbed' => ~disturbed /\ ~stopping.on /\ leaving = {})
  BY DEF Balancer!Start, BalancerIInv, StopHalts
<1>6. Balancer!TypeOK'
  BY <1>3, <1>4 DEF BalancerIInv, Balancer!TypeOK, Balancer!Checkers
<1>7. EntriesAgree'
  <2>1. \A c \in Balancer!Checkers : c > made =>
          checker'[c] = Balancer!NoChecker /\ outcomes[c] = [ok |-> TRUE, length |-> 0]
    BY <1>1, <1>3 DEF BalancerIInv, EntriesAgree
  <2>2. \A i, j \in Balancer!Registered : Balancer!Of(i)' = Balancer!Of(j)' => i = j
    BY <1>4 DEF BalancerIInv, EntriesAgree
  <2>3. servers \subseteq Balancer!Registered \ leaving /\ leaving \subseteq Balancer!Registered
    BY DEF BalancerIInv, EntriesAgree
  <2>4. \A i \in leaving : leaving = {i}
    BY DEF BalancerIInv, EntriesAgree
  <2> QED
    BY <1>4, <1>5, <2>1, <2>2, <2>3, <2>4, EntriesMade
       DEF EntriesAgree, Balancer!Checkers, Balancer!NoChecker
<1>8. CountersTrackOutcomes'
  BY <1>3, <1>4 DEF BalancerIInv, CountersTrackOutcomes, Balancer!Checkers
<1>9. StopHalts'
  BY <1>4, <1>5 DEF BalancerIInv, StopHalts
<1>10. Balancer!ChecksFollowRunning'
  <2> SUFFICES ASSUME NEW i \in Balancer!Registered
               PROVE  checker'[Balancer!Of(i)'].task = "running"
    BY <1>4 DEF Balancer!ChecksFollowRunning
  <2> QED
    BY <1>1, <1>3, <1>4
<1> QED
  BY <1>6, <1>7, <1>8, <1>9, <1>10 DEF BalancerIInv

(* A part of stop's walk from a place up to which all checkers are halted.   *)
LEMMA WalkKeeps ==
    ASSUME BalancerIInv, NEW place \in 0..MaxAdds, NEW size \in Nat,
           Balancer!Walk(place, size),
           ~disturbed => /\ Balancer!Cardinality(Balancer!Registered) = size
                         /\ \A i \in Balancer!Registered :
                              entry[i].place <= place => checker[Balancer!Of(i)].task = "none",
           balancing' \in BOOLEAN, ~disturbed => ~balancing',
           UNCHANGED <<servers, entry, made, leaving, outcomes, disturbed>>
    PROVE  BalancerIInv'
<1> USE BalancerAssumption
<1>1. PICK C \in SUBSET Balancer!Checkers :
        /\ checker' = Balancer!Halted(C) /\ dying' = Balancer!Dying(C)
        /\ \A i \in Balancer!Registered :
            /\ ~stopping'.on /\ place < entry[i].place => Balancer!Of(i) \in C
            /\ stopping'.on /\ place < entry[i].place /\ entry[i].place <= stopping'.place
                => Balancer!Of(i) \in C
  BY WalkHalts
<1>2. /\ stopping' \in [on : BOOLEAN, place : 0..MaxAdds, size : Nat]
      /\ stopping'.on => stopping'.size = size
  <2>1. \/ stopping' = [on |-> FALSE, place |-> 0, size |-> 0]
        \/ /\ stopping'.place \in 0..MaxAdds
           /\ stopping' = [on |-> TRUE, place |-> stopping'.place, size |-> size]
    BY WalkHalts DEF Balancer!NoStop
  <2>2. CASE stopping' = [on |-> FALSE, place |-> 0, size |-> 0]
    BY <2>2
  <2>3. CASE /\ stopping'.place \in 0..MaxAdds
             /\ stopping' = [on |-> TRUE, place |-> stopping'.place, size |-> size]
    <3> DEFINE p == stopping'.place
    <3>1. p \in 0..MaxAdds /\ stopping' = [on |-> TRUE, place |-> p, size |-> size]
      BY <2>3
    <3> HIDE DEF p
    <3> QED
      BY <3>1
  <2> QED
    BY <2>1, <2>2, <2>3
<1>3. Balancer!Registered' = Balancer!Registered
  BY DEF Balancer!Registered
<1>4. /\ entry' \in [Ids -> [checker : 0..MaxAdds, place : 0..MaxAdds]]
      /\ servers' \subseteq Balancer!Registered' \ leaving'
      /\ leaving' \subseteq Balancer!Registered'
      /\ \A i \in leaving' : leaving' = {i}
      /\ disturbed \in BOOLEAN
  BY <1>3 DEF BalancerIInv, EntriesAgree, Balancer!TypeOK, StopHalts
<1>5. /\ Balancer!TypeOK' /\ EntriesAgree' /\ CountersTrackOutcomes'
      /\ \A i \in Balancer!Registered : Balancer!Of(i)' = Balancer!Of(i)
      /\ \A c \in Balancer!Checkers :
            /\ c \in C => checker'[c].task = "none"
            /\ checker[c].task = "none" => checker'[c].task = "none"
  BY <1>1, <1>3, <1>4, HaltingKeeps
<1>6. ~disturbed =>
        \A i \in Balancer!Registered :
            ~stopping'.on \/ entry[i].place <= stopping'.place
                => checker'[Balancer!Of(i)'].task = "none"
  BY <1>1, <1>2, <1>5, EntriesMade
<1>7. StopHalts'
  <2>1. stopping'.on /\ ~disturbed =>
          Balancer!Cardinality(Balancer!Registered)' = stopping'.size
    BY <1>2, <1>3
  <2> QED
    BY <1>2, <1>3, <1>4, <1>6, <2>1 DEF StopHalts
<1>8. Balancer!ChecksFollowRunning'
  BY <1>3, <1>6 DEF Balancer!ChecksFollowRunning
<1> QED
  BY <1>5, <1>7, <1>8 DEF BalancerIInv

(* stop, and where it goes on.  A change of the dictionary during a stop is   *)
(* a disturbance, so that only a disturbed stop breaks off.                  *)
LEMMA StopKeeps ==
    ASSUME BalancerIInv, Balancer!Stop \/ Balancer!StopGoesOn
    PROVE  BalancerIInv'
<1> USE BalancerAssumption
<1>1. Balancer!Cardinality(Balancer!Registered) \in Nat
  BY EntriesMade, BalancerCounts, FS_Subset, FS_CardinalityType
<1>2. CASE Balancer!Stop
  <2>1. \A i \in Balancer!Registered : ~(entry[i].place <= 0)
    BY EntriesMade
  <2>2. /\ Balancer!Walk(0, Balancer!Cardinality(Balancer!Registered))
        /\ balancing' = FALSE
        /\ UNCHANGED <<servers, entry, made, leaving, outcomes, disturbed>>
    BY <1>2, BalancerCounts DEF Balancer!Stop
  <2>3. 0 \in 0..MaxAdds
    OBVIOUS
  <2> QED
    BY <1>1, <2>1, <2>2, <2>3, WalkKeeps
<1>3. CASE Balancer!StopGoesOn
  <2>1. /\ stopping \in [on : BOOLEAN, place : 0..MaxAdds, size : Nat]
        /\ stopping.on /\ balancing \in BOOLEAN
        /\ UNCHANGED <<servers, balancing, entry, made, leaving, outcomes, disturbed>>
    BY <1>3 DEF Balancer!StopGoesOn, BalancerIInv, StopHalts
  <2>2. CASE Balancer!Cardinality(Balancer!Registered) # stopping.size
    <3>1. disturbed = TRUE
      BY <2>1, <2>2 DEF BalancerIInv, StopHalts
    <3>2. stopping' = [on |-> FALSE, place |-> 0, size |-> 0] /\ UNCHANGED <<checker, dying>>
      BY <1>3, <2>2 DEF Balancer!StopGoesOn, Balancer!NoStop
    <3>3. Balancer!TypeOK' /\ EntriesAgree' /\ CountersTrackOutcomes'
      BY <2>1, <3>2
         DEF BalancerIInv, Balancer!TypeOK, EntriesAgree, CountersTrackOutcomes,
             Balancer!Checkers, Balancer!Registered, Balancer!Of, Balancer!NoChecker
    <3>4. StopHalts'
      <4>1. stopping' \in [on : BOOLEAN, place : 0..MaxAdds, size : Nat]
        BY <3>2
      <4> QED
        BY <2>1, <3>1, <4>1 DEF StopHalts
    <3>5. Balancer!ChecksFollowRunning'
      BY <2>1, <3>1 DEF Balancer!ChecksFollowRunning
    <3> QED
      BY <3>3, <3>4, <3>5 DEF BalancerIInv
  <2>3. CASE Balancer!Cardinality(Balancer!Registered) = stopping.size
    <3>1. Balancer!Walk(stopping.place, stopping.size)
      BY <1>3, <2>3 DEF Balancer!StopGoesOn
    <3>2. stopping.place \in 0..MaxAdds /\ stopping.size \in Nat
      BY <2>1
    <3>3. ~disturbed => /\ ~balancing
                        /\ \A i \in Balancer!Registered :
                             entry[i].place <= stopping.place
                                => checker[Balancer!Of(i)].task = "none"
      BY <2>1 DEF BalancerIInv, StopHalts
    <3> QED
      BY <2>1, <2>3, <3>1, <3>2, <3>3, WalkKeeps
  <2> QED
    BY <2>2, <2>3
<1> QED
  BY <1>2, <1>3

(* One check of a server: the counters of its checker go with its outcomes,  *)
(* and its status changes only when so many were alike.                      *)
LEMMA CheckKeeps ==
    ASSUME BalancerIInv, NEW c \in Balancer!Checkers, Balancer!PerformHealthCheck(c)
    PROVE  /\ BalancerIInv'
           /\ \A d \in Balancer!Checkers : checker[d].status # checker'[d].status =>
                \/ /\ checker'[d].status = "healthy"
                   /\ outcomes'[d] = [ok |-> TRUE, length |-> RecoveryThreshold]
                \/ /\ checker'[d].status = "unhealthy"
                   /\ outcomes'[d] = [ok |-> FALSE, length |-> FailoverThreshold]
<1> USE BalancerAssumption
<1> DEFINE h == checker[c]
           o == outcomes[c]
<1>1. PICK ok \in BOOLEAN :
        /\ checker' = [checker EXCEPT ![c] =
              IF ok THEN Balancer!HandleSuccess(h) ELSE Balancer!HandleFailure(h)]
        /\ outcomes' = [outcomes EXCEPT ![c] = [ok |-> ok, length |->
              Balancer!Capped(IF o.ok = ok THEN o.length + 1 ELSE 1,
                              IF ok THEN RecoveryThreshold ELSE FailoverThreshold)]]
  BY DEF Balancer!PerformHealthCheck
<1>2. /\ h.task = "running"
      /\ UNCHANGED <<servers, balancing, entry, made, dying, leaving, stopping, disturbed>>
      /\ Balancer!Registered' = Balancer!Registered
      /\ \A i \in Balancer!Registered : Balancer!Of(i)' = Balancer!Of(i)
  BY DEF Balancer!PerformHealthCheck, Balancer!Registered, Balancer!Of
<1>3. /\ h \in [task : {"none", "running"}, status : {"offline", "healthy", "unhealthy"},
                failures : 0..FailoverThreshold, successes : 0..RecoveryThreshold]
      /\ o \in [ok : BOOLEAN, length : Nat]
      /\ o.ok => h.successes = o.length /\ h.failures = 0
      /\ ~o.ok => h.failures = o.length /\ h.successes = 0
  BY DEF BalancerIInv, Balancer!TypeOK, CountersTrackOutcomes
<1>4. /\ checker'[c] = IF ok THEN Balancer!HandleSuccess(h) ELSE Balancer!HandleFailure(h)
      /\ outcomes'[c] = [ok |-> ok, length |->
              Balancer!Capped(IF o.ok = ok THEN o.length + 1 ELSE 1,
                              IF ok THEN RecoveryThreshold ELSE FailoverThreshold)]
      /\ \A d \in Balancer!Checkers \ {c} :
            checker'[d] = checker[d] /\ outcomes'[d] = outcomes[d]
      /\ DOMAIN checker' = Balancer!Checkers /\ DOMAIN outcomes' = Balancer!Checkers
      /\ checker' = [d \in Balancer!Checkers |-> checker'[d]]
      /\ outcomes' = [d \in Balancer!Checkers |-> outcomes'[d]]
  BY <1>1 DEF BalancerIInv, Balancer!TypeOK, CountersTrackOutcomes
<1> HIDE DEF h, o
<1>5. /\ checker'[c] \in [task : {"none", "running"},
            status : {"offline", "healthy", "unhealthy"},
            failures : 0..FailoverThreshold, successes : 0..RecoveryThreshold]
      /\ checker'[c].task = "running"
      /\ outcomes'[c] \in [ok : BOOLEAN, length : Nat]
      /\ outcomes'[c].ok =>
            checker'[c].successes = outcomes'[c].length /\ checker'[c].failures = 0
      /\ ~outcomes'[c].ok =>
            checker'[c].failures = outcomes'[c].length /\ checker'[c].successes = 0
      /\ checker'[c].status # h.status =>
            \/ /\ checker'[c].status = "healthy"
               /\ outcomes'[c] = [ok |-> TRUE, length |-> RecoveryThreshold]
            \/ /\ checker'[c].status = "unhealthy"
               /\ outcomes'[c] = [ok |-> FALSE, length |-> FailoverThreshold]
  <2>1. CASE ok = TRUE
    <3> DEFINE n == Balancer!Capped(h.successes + 1, RecoveryThreshold)
    <3>1. checker'[c] = Balancer!HandleSuccess(h)
      BY <1>4, <2>1
    <3>2. (IF o.ok = ok THEN o.length + 1 ELSE 1) = h.successes + 1
      <4>1. CASE o.ok = TRUE
        BY <1>3, <2>1, <4>1
      <4>2. CASE o.ok = FALSE
        <5>1. o.ok # ok
          BY <2>1, <4>2
        <5>2. h.successes = 0
          BY <1>3, <4>2
        <5> QED
          BY <5>1, <5>2
      <4> QED
        BY <1>3, <4>1, <4>2
    <3>3. outcomes'[c] = [ok |-> TRUE, length |-> n]
      BY <1>4, <2>1, <3>2 DEF n
    <3>4. n \in 1..RecoveryThreshold /\ (n < RecoveryThreshold => n = h.successes + 1)
      BY <1>3 DEF n, Balancer!Capped
    <3>5. /\ checker'[c].task = h.task
          /\ checker'[c].successes = n /\ checker'[c].failures = 0
          /\ checker'[c].status = IF n >= RecoveryThreshold THEN "healthy" ELSE h.status
          /\ checker'[c] = [task |-> checker'[c].task, status |-> checker'[c].status,
                failures |-> checker'[c].failures, successes |-> checker'[c].successes]
      BY <1>3, <3>1 DEF Balancer!HandleSuccess, n
    <3>6. checker'[c].status \in {h.status, "healthy"}
      BY <3>5
    <3> HIDE DEF n
    <3>7. n >= RecoveryThreshold => n = RecoveryThreshold
      BY <3>4
    <3>8. /\ checker'[c].status # h.status =>
                checker'[c].status = "healthy" /\ outcomes'[c] = [ok |-> TRUE, length |-> RecoveryThreshold]
          /\ outcomes'[c].ok = TRUE /\ outcomes'[c].length = n
      <4>1. outcomes'[c].ok = TRUE /\ outcomes'[c].length = n
        BY <3>3
      <4>2. checker'[c].status # h.status => checker'[c].status = "healthy" /\ n = RecoveryThreshold
        BY <3>4, <3>5, <3>7
      <4> QED
        BY <3>3, <4>1, <4>2
    <3>9. /\ checker'[c].status \in {"offline", "healthy", "unhealthy"}
          /\ checker'[c].task = "running"
      BY <1>2, <1>3, <3>5, <3>6
    <3> QED
      BY <1>3, <3>3, <3>4, <3>5, <3>8, <3>9
  <2>2. CASE ok = FALSE
    <3> DEFINE n == Balancer!Capped(h.failures + 1, FailoverThreshold)
    <3>1. checker'[c] = Balancer!HandleFailure(h)
      BY <1>4, <2>2
    <3>2. (IF o.ok = ok THEN o.length + 1 ELSE 1) = h.failures + 1
      BY <1>3, <2>2
    <3>3. outcomes'[c] = [ok |-> FALSE, length |-> n]
      BY <1>4, <2>2, <3>2 DEF n
    <3>4. n \in 1..FailoverThreshold /\ (n < FailoverThreshold => n = h.failures + 1)
      BY <1>3 DEF n, Balancer!Capped
    <3>5. /\ checker'[c].task = h.task
          /\ checker'[c].failures = n /\ checker'[c].successes = 0
          /\ checker'[c].status = IF n >= FailoverThreshold THEN "unhealthy" ELSE h.status
          /\ checker'[c] = [task |-> checker'[c].task, status |-> checker'[c].status,
                failures |-> checker'[c].failures, successes |-> checker'[c].successes]
      BY <1>3, <3>1 DEF Balancer!HandleFailure, n
    <3>6. checker'[c].status \in {h.status, "unhealthy"}
      BY <3>5
    <3> HIDE DEF n
    <3>7. n >= FailoverThreshold => n = FailoverThreshold
      BY <3>4
    <3>8. /\ checker'[c].status # h.status =>
                checker'[c].status = "unhealthy" /\ outcomes'[c] = [ok |-> FALSE, length |-> FailoverThreshold]
          /\ outcomes'[c].ok = FALSE /\ outcomes'[c].length = n
      <4>1. outcomes'[c].ok = FALSE /\ outcomes'[c].length = n
        BY <3>3
      <4>2. checker'[c].status # h.status => checker'[c].status = "unhealthy" /\ n = FailoverThreshold
        BY <3>4, <3>5, <3>7
      <4> QED
        BY <3>3, <4>1, <4>2
    <3>9. /\ checker'[c].status \in {"offline", "healthy", "unhealthy"}
          /\ checker'[c].task = "running"
      BY <1>2, <1>3, <3>5, <3>6
    <3> QED
      BY <1>3, <3>3, <3>4, <3>5, <3>8, <3>9
  <2> QED
    BY <2>1, <2>2
<1>6. Balancer!TypeOK'
  <2>1. checker' \in [Balancer!Checkers -> [task : {"none", "running"},
          status : {"offline", "healthy", "unhealthy"},
          failures : 0..FailoverThreshold, successes : 0..RecoveryThreshold]]
    BY <1>4, <1>5 DEF BalancerIInv, Balancer!TypeOK
  <2> QED
    BY <1>2, <2>1 DEF BalancerIInv, Balancer!TypeOK, Balancer!Checkers
<1>7. EntriesAgree'
  <2>1. c <= made
    BY <1>2 DEF h, BalancerIInv, EntriesAgree, Balancer!NoChecker, Balancer!Checkers
  <2>2. \A d \in Balancer!Checkers : d > made =>
          checker'[d] = Balancer!NoChecker /\ outcomes'[d] = [ok |-> TRUE, length |-> 0]
    BY <1>4, <2>1 DEF BalancerIInv, EntriesAgree, Balancer!Checkers
  <2>3. \A i \in leaving : ~disturbed => checker'[Balancer!Of(i)].task = "none"
    <3>1. \A i \in leaving : i \in Balancer!Registered
      BY DEF BalancerIInv, EntriesAgree
    <3>2. \A i \in leaving : ~disturbed => checker[Balancer!Of(i)].task = "none"
      BY DEF BalancerIInv, EntriesAgree
    <3> QED
      BY <1>2, <1>4, <3>1, <3>2, EntriesMade DEF h
  <2>4. \A i, j \in Balancer!Registered : Balancer!Of(i) = Balancer!Of(j) => i = j
    BY DEF BalancerIInv, EntriesAgree
  <2>5. /\ servers \subseteq Balancer!Registered \ leaving
        /\ leaving \subseteq Balancer!Registered
        /\ \A i \in leaving : leaving = {i}
    BY DEF BalancerIInv, EntriesAgree
  <2> QED
    BY <1>2, <2>2, <2>3, <2>4, <2>5, EntriesMade
       DEF EntriesAgree, Balancer!Checkers, Balancer!NoChecker
<1>8. CountersTrackOutcomes'
  <2>1. outcomes' \in [Balancer!Checkers -> [ok : BOOLEAN, length : Nat]]
    BY <1>4, <1>5 DEF BalancerIInv, CountersTrackOutcomes
  <2>2. ASSUME NEW d \in Balancer!Checkers
        PROVE  /\ outcomes'[d].ok => checker'[d].successes = outcomes'[d].length
                                     /\ checker'[d].failures = 0
               /\ ~outcomes'[d].ok => checker'[d].failures = outcomes'[d].length
                                      /\ checker'[d].successes = 0
    <3>1. CASE d = c
      BY <1>5, <3>1
    <3>2. CASE d # c
      BY <1>4, <3>2 DEF BalancerIInv, CountersTrackOutcomes
    <3> QED
      BY <3>1, <3>2
  <2> QED
    BY <2>1, <2>2 DEF CountersTrackOutcomes, Balancer!Checkers
<1>9. \A d \in Balancer!Checkers : checker'[d].task = checker[d].task
  BY <1>2, <1>4, <1>5 DEF h
<1>10. StopHalts'
  <2>1. \A i \in Balancer!Registered : checker'[Balancer!Of(i)].task = checker[Balancer!Of(i)].task
    BY <1>9, EntriesMade
  <2> QED
    BY <1>2, <2>1 DEF BalancerIInv, StopHalts
<1>11. Balancer!ChecksFollowRunning'
  <2>1. \A i \in Balancer!Registered : checker'[Balancer!Of(i)].task = checker[Balancer!Of(i)].task
    BY <1>9, EntriesMade
  <2> QED
    BY <1>2, <2>1 DEF BalancerIInv, Balancer!ChecksFollowRunning
<1>12. \A d \in Balancer!Checkers \ {c} : checker'[d].status = checker[d].status
  BY <1>4
<1> QED
  BY <1>5, <1>6, <1>7, <1>8, <1>10, <1>11, <1>12 DEF BalancerIInv, h

LEMMA BalancerStep ==
    BalancerIInv /\ [Balancer!Next]_Balancer!vars =>
        /\ BalancerIInv'
        /\ \A c \in Balancer!Checkers : checker[c].status # checker'[c].status =>
            \/ /\ checker'[c].status = "healthy"
               /\ outcomes'[c] = [ok |-> TRUE, length |-> RecoveryThreshold]
            \/ /\ checker'[c].status = "unhealthy"
               /\ outcomes'[c] = [ok |-> FALSE, length |-> FailoverThreshold]
<1> SUFFICES ASSUME BalancerIInv, [Balancer!Next]_Balancer!vars
    PROVE  /\ BalancerIInv'
           /\ \A c \in Balancer!Checkers : checker[c].status # checker'[c].status =>
                \/ /\ checker'[c].status = "healthy"
                   /\ outcomes'[c] = [ok |-> TRUE, length |-> RecoveryThreshold]
                \/ /\ checker'[c].status = "unhealthy"
                   /\ outcomes'[c] = [ok |-> FALSE, length |-> FailoverThreshold]
  OBVIOUS
<1> DEFINE StatusStays == \A c \in Balancer!Checkers : checker'[c].status = checker[c].status
<1>1. ASSUME NEW i \in Ids, Balancer!AddServer(i) PROVE BalancerIInv' /\ StatusStays
  <2>1. /\ made' = made + 1 /\ made \in 0..MaxAdds /\ made' \in Balancer!Checkers
        /\ checker' = [checker EXCEPT ![made'] =
                          [Balancer!NoChecker EXCEPT !.task = Balancer!Added(made')]]
    BY <1>1, EntriesMade, BalancerAssumption DEF Balancer!AddServer, Balancer!Checkers
  <2>2. checker[made'] = Balancer!NoChecker
    BY <2>1 DEF BalancerIInv, EntriesAgree, Balancer!Checkers
  <2>3. checker'[made'].status = "offline" /\ checker[made'].status = "offline"
    BY <2>1, <2>2 DEF BalancerIInv, Balancer!TypeOK, Balancer!NoChecker
  <2>4. \A c \in Balancer!Checkers \ {made'} : checker'[c] = checker[c]
    BY <2>1 DEF BalancerIInv, Balancer!TypeOK
  <2> QED
    BY <1>1, <2>3, <2>4, AddServerKeeps
<1>2. ASSUME NEW i \in Ids, Balancer!RemoveServer(i) PROVE BalancerIInv' /\ StatusStays
  <2>1. i \in Balancer!Registered /\ checker' = Balancer!Halted({Balancer!Of(i)})
    BY <1>2 DEF Balancer!RemoveServer, BalancerIInv, EntriesAgree
  <2>2. {Balancer!Of(i)} \in SUBSET Balancer!Checkers
    BY <2>1, EntriesMade
  <2> QED
    BY <1>2, <2>1, <2>2, RemoveServerKeeps, HaltedCheckers
<1>3. CASE Balancer!RemovalEnds
  BY <1>3, RemovalEndsKeeps DEF Balancer!RemovalEnds
<1>4. CASE Balancer!Start
  <2>1. {Balancer!Of(i) : i \in Balancer!Registered} \in SUBSET Balancer!Checkers
    BY EntriesMade
  <2> QED
    BY <1>4, <2>1, BalancerStartKeeps, StartedCheckers DEF Balancer!Start
<1>5. CASE Balancer!Stop \/ Balancer!StopGoesOn
  <2>1. StatusStays
    <3>1. ASSUME NEW place \in 0..MaxAdds, NEW size, Balancer!Walk(place, size)
          PROVE  StatusStays
      BY <3>1, WalkHalts, HaltedCheckers
    <3>2. stopping.place \in 0..MaxAdds /\ 0 \in 0..MaxAdds
      BY BalancerAssumption DEF BalancerIInv, StopHalts
    <3> QED
      BY <1>5, <3>1, <3>2 DEF Balancer!Stop, Balancer!StopGoesOn
  <2> QED
    BY <1>5, <2>1, StopKeeps
<1>6. ASSUME NEW c \in Balancer!Checkers, Balancer!TaskEnds(c) PROVE BalancerIInv' /\ StatusStays
  <2>1. /\ dying' \subseteq dying
        /\ UNCHANGED <<servers, balancing, entry, made, checker, leaving, stopping, outcomes,
                       disturbed>>
    BY <1>6 DEF Balancer!TaskEnds
  <2> QED
    BY <2>1
       DEF BalancerIInv, Balancer!TypeOK, EntriesAgree, CountersTrackOutcomes, StopHalts,
           Balancer!ChecksFollowRunning, Balancer!Checkers, Balancer!Registered, Balancer!Of,
           Balancer!NoChecker
<1>7. CASE UNCHANGED Balancer!vars
  <2>1. /\ UNCHANGED <<servers, balancing, entry, made, checker, dying, leaving, stopping, outcomes,
                       disturbed>>
        /\ Balancer!Registered' = Balancer!Registered
        /\ \A i \in Balancer!Registered : Balancer!Of(i)' = Balancer!Of(i)
    BY <1>7 DEF Balancer!vars, Balancer!Registered, Balancer!Of
  <2>2. Balancer!TypeOK'
    BY <2>1 DEF BalancerIInv, Balancer!TypeOK, Balancer!Checkers
  <2>3. EntriesAgree'
    <3>1. \A i \in leaving : i \in Balancer!Registered
      BY DEF BalancerIInv, EntriesAgree
    <3> QED
      BY <2>1, <3>1 DEF BalancerIInv, EntriesAgree, Balancer!Checkers, Balancer!NoChecker
  <2>4. CountersTrackOutcomes'
    BY <2>1 DEF BalancerIInv, CountersTrackOutcomes, Balancer!Checkers
  <2>5. StopHalts'
    BY <2>1 DEF BalancerIInv, StopHalts
  <2>6. Balancer!ChecksFollowRunning'
    BY <2>1 DEF BalancerIInv, Balancer!ChecksFollowRunning
  <2> QED
    BY <2>1, <2>2, <2>3, <2>4, <2>5, <2>6 DEF BalancerIInv
<1> QED
  BY <1>1, <1>2, <1>3, <1>4, <1>5, <1>6, <1>7, CheckKeeps DEF Balancer!Next

-----------------------------------------------------------------------------
(* The service discovery.  The dictionary is a function, a sweep awaits a     *)
(* service only after it has begun, and the stores in flight are no more     *)
(* than the calls that began them.                                           *)
DiscoveryIInv ==
    /\ Discovery!TypeOK
    /\ registered = [s \in DOMAIN registered |-> registered[s]]
    /\ \A s \in Services : storing[s] <= changes
    /\ sweep.phase # "next" => sweep.at \in Services
    /\ Discovery!GoneIsGone

LEMMA DiscoveryCounts == \A S : Discovery!Cardinality(S) = Cardinality(S)
<1>1. ASSUME NEW S PROVE Discovery!IsFiniteSet(S) = IsFiniteSet(S)
  BY DEF IsFiniteSet, Discovery!IsFiniteSet
<1> QED
  BY <1>1 DEF Cardinality, Discovery!Cardinality

LEMMA DiscoverySizes ==
    /\ Discovery!Cardinality(Services) \in Nat
    /\ \A S \in SUBSET Services :
        Discovery!Cardinality(S) \in 0..Discovery!Cardinality(Services)
  BY DiscoveryCounts, DiscoveryAssumption, FS_Subset, FS_CardinalityType

LEMMA NoSweepTyped ==
    /\ Discovery!NoSweep \in [seen : SUBSET Services, size : 0..Discovery!Cardinality(Services),
                   at : Services \cup {"none"}, phase : {"next", "get", "store"}]
    /\ Discovery!NoSweep.phase = "next"
  BY DiscoverySizes DEF Discovery!NoSweep

LEMMA DiscoveryInit == Discovery!Init => DiscoveryIInv
<1> SUFFICES ASSUME Discovery!Init PROVE DiscoveryIInv
  OBVIOUS
<1>1. /\ registered = [s \in DOMAIN registered |-> registered[s]]
      /\ DOMAIN registered = {}
  BY DEF Discovery!Init
<1>2. answer \in [found : BOOLEAN, here : BOOLEAN] /\ Discovery!GoneIsGone
  BY DEF Discovery!GoneIsGone, Discovery!Init
<1>3. storing \in [Services -> 0..MaxCalls] /\ \A s \in Services : storing[s] <= changes
  BY DiscoveryAssumption DEF Discovery!Init
<1>4. /\ sweep \in [seen : SUBSET Services, size : 0..Discovery!Cardinality(Services),
                     at : Services \cup {"none"}, phase : {"next", "get", "store"}]
      /\ sweep.phase = "next"
  BY NoSweepTyped DEF Discovery!Init
<1>5. /\ endpoint \subseteq Services /\ row \subseteq Services /\ removing \subseteq Services
      /\ loop \in {"none", "sleeping", "sweeping"}
      /\ changes \in 0..MaxCalls
  BY DiscoveryAssumption DEF Discovery!Init
<1>6. running \in BOOLEAN
  BY DEF Discovery!Init
<1> QED
  BY <1>1, <1>2, <1>3, <1>4, <1>5, <1>6 DEF DiscoveryIInv, Discovery!TypeOK

LEMMA DiscoveryStep == DiscoveryIInv /\ [Discovery!Next]_Discovery!vars => DiscoveryIInv'
<1> SUFFICES ASSUME DiscoveryIInv, [Discovery!Next]_Discovery!vars PROVE DiscoveryIInv'
  OBVIOUS
<1> USE DiscoveryAssumption
     DEF DiscoveryIInv, Discovery!TypeOK, Discovery!GoneIsGone, Discovery!Statuses
<1> DEFINE SweepRecord == [seen : SUBSET Services, size : 0..Discovery!Cardinality(Services),
                   at : Services \cup {"none"}, phase : {"next", "get", "store"}]
<1>1. CASE Discovery!Start
  BY <1>1 DEF Discovery!Start
<1>2. CASE Discovery!Stop
  <2>1. /\ changes' = changes + 1 /\ changes < MaxCalls /\ running' = FALSE /\ loop' = "none"
        /\ sweep' = Discovery!NoSweep
        /\ UNCHANGED <<registered, endpoint, row, storing, removing, answer>>
    BY <1>2 DEF Discovery!Stop, Discovery!Changing
  <2>2. sweep' \in SweepRecord /\ sweep'.phase = "next"
    BY <2>1, NoSweepTyped
  <2>3. changes' \in 0..MaxCalls /\ \A s \in Services : storing'[s] <= changes'
    BY <2>1
  <2>4. running' \in BOOLEAN /\ loop' \in {"none", "sleeping", "sweeping"}
    BY ONLY <2>1
  <2>5. UNCHANGED <<registered, endpoint, row, storing, removing, answer>>
    BY ONLY <2>1
  <2> HIDE DEF SweepRecord
  <2>6. Discovery!TypeOK'
    BY ONLY DiscoveryIInv, <2>2, <2>3, <2>4, <2>5
       DEF SweepRecord, DiscoveryIInv, Discovery!TypeOK
  <2> QED
    BY ONLY DiscoveryIInv, <2>2, <2>3, <2>5, <2>6 DEF DiscoveryIInv, Discovery!GoneIsGone
<1>3. CASE Discovery!BeginSweep
  BY <1>3, DiscoverySizes DEF Discovery!BeginSweep, Discovery!NoSweep
<1>4. CASE Discovery!SweepRaises \/ Discovery!EndSweep
  BY <1>4, NoSweepTyped DEF Discovery!SweepRaises, Discovery!EndSweep, Discovery!AtNext
<1>5. CASE Discovery!HealthAnswered
  <2> DEFINE s == sweep.at
             status == IF s \in endpoint THEN "healthy" ELSE "unhealthy"
  <2>1. /\ s \in Services /\ status \in {"healthy", "unhealthy"}
        /\ UNCHANGED <<endpoint, running, loop, row, storing, removing, answer, changes>>
    BY <1>5 DEF Discovery!HealthAnswered
  <2>2. \/ /\ s \in DOMAIN registered
           /\ registered' = [registered EXCEPT ![s].status = status]
           /\ sweep' = [sweep EXCEPT !.phase = "store"]
        \/ /\ UNCHANGED registered
           /\ sweep' = [sweep EXCEPT !.phase = "next", !.at = "none"]
    BY <1>5 DEF Discovery!HealthAnswered
  <2> HIDE DEF status
  <2>3. sweep' \in SweepRecord /\ (sweep'.phase # "next" => sweep'.at \in Services)
    BY <2>1, <2>2
  <2>4. /\ DOMAIN registered' = DOMAIN registered
        /\ registered' = [t \in DOMAIN registered |-> registered'[t]]
        /\ \A t \in DOMAIN registered :
                registered'[t] \in [status : Discovery!Statuses, checked : BOOLEAN]
    BY <2>1, <2>2
  <2> QED
    BY <2>1, <2>3, <2>4
<1>6. ASSUME NEW s \in Services, Discovery!CheckNext(s) PROVE DiscoveryIInv'
  <2>1. /\ sweep.phase = "next"
        /\ UNCHANGED <<registered, endpoint, running, loop, row, storing, removing, answer, changes>>
        /\ \/ sweep' = [sweep EXCEPT !.seen = @ \cup {s}, !.at = s, !.phase = "get"]
           \/ sweep' = [sweep EXCEPT !.seen = @ \cup {s}]
    BY <1>6 DEF Discovery!CheckNext, Discovery!AtNext
  <2>2. sweep' \in SweepRecord /\ (sweep'.phase # "next" => sweep'.at \in Services)
    <3>1. sweep \in SweepRecord
      OBVIOUS
    <3>2. CASE sweep' = [sweep EXCEPT !.seen = @ \cup {s}, !.at = s, !.phase = "get"]
      BY ONLY <3>1, <3>2, s \in Services
    <3>3. CASE sweep' = [sweep EXCEPT !.seen = @ \cup {s}]
      BY ONLY <2>1, <3>1, <3>3, s \in Services
    <3> QED
      BY <2>1, <3>2, <3>3
  <2> QED
    BY <2>1, <2>2
<1>7. ASSUME NEW ok \in BOOLEAN, Discovery!LoopStored(ok) PROVE DiscoveryIInv'
  <2>1. /\ sweep.phase = "store"
        /\ sweep' = [sweep EXCEPT !.phase = "next", !.at = "none"]
        /\ UNCHANGED <<registered, endpoint, running, loop, storing, removing, answer, changes>>
    BY <1>7 DEF Discovery!LoopStored
  <2>2. row' \subseteq Services
    BY <1>7, <2>1 DEF Discovery!LoopStored
  <2>3. sweep' \in SweepRecord /\ sweep'.phase = "next"
    <3>1. sweep \in SweepRecord
      OBVIOUS
    <3>2. sweep' = [seen |-> sweep.seen, size |-> sweep.size, at |-> "none", phase |-> "next"]
      BY ONLY <2>1, <3>1
    <3> QED
      BY ONLY <3>1, <3>2
  <2> QED
    BY <2>1, <2>2, <2>3
<1>8. ASSUME NEW s \in Services, Discovery!DeregisterService(s) PROVE DiscoveryIInv'
  BY <1>8 DEF Discovery!DeregisterService, Discovery!Changing
<1>9. ASSUME NEW s \in Services, Discovery!Heartbeat(s) PROVE DiscoveryIInv'
  BY <1>9 DEF Discovery!Heartbeat, Discovery!Changing, Discovery!Stores
<1>10. ASSUME NEW s \in Services, Discovery!RowExpires(s) PROVE DiscoveryIInv'
  BY <1>10 DEF Discovery!RowExpires
<1>11. ASSUME NEW s \in Services, Discovery!GetService(s) \/ Discovery!GetServices(s)
       PROVE  DiscoveryIInv'
  <2>1. /\ answer' \in [found : BOOLEAN, here : BOOLEAN] /\ (answer'.found => answer'.here)
        /\ UNCHANGED <<registered, endpoint, running, loop, sweep, row, storing, removing, changes>>
    <3>1. PICK found \in BOOLEAN :
            /\ answer' = [found |-> found, here |-> s \in DOMAIN registered]
            /\ found => s \in DOMAIN registered
      <4>1. CASE Discovery!GetService(s)
        BY ONLY <4>1 DEF Discovery!GetService, Discovery!Decoded
      <4>2. CASE Discovery!GetServices(s)
        BY ONLY <4>2 DEF Discovery!GetServices, Discovery!FromCacheSets
      <4> QED
        BY <1>11, <4>1, <4>2
    <3>5. answer' \in [found : BOOLEAN, here : BOOLEAN] /\ (answer'.found => answer'.here)
      <4>1. CASE s \in DOMAIN registered
        BY ONLY <3>1, <4>1
      <4>2. CASE s \notin DOMAIN registered
        BY ONLY <3>1, <4>2
      <4> QED
        BY <4>1, <4>2
    <3>4. UNCHANGED <<registered, endpoint, running, loop, sweep, row, storing, removing, changes>>
      BY <1>11 DEF Discovery!GetService, Discovery!GetServices
    <3> QED
      BY <3>4, <3>5
  <2> QED
    BY <2>1
<1>12. ASSUME NEW s \in Services, Discovery!EndpointChanges(s) PROVE DiscoveryIInv'
  BY <1>12 DEF Discovery!EndpointChanges, Discovery!Changing
<1>13. ASSUME NEW s \in Services, NEW status \in Discovery!Statuses,
              Discovery!UpdateServiceStatus(s, status)
       PROVE  DiscoveryIInv'
  <2>1. /\ s \in DOMAIN registered /\ changes < MaxCalls /\ changes' = changes + 1
        /\ registered' = [registered EXCEPT ![s].status = status]
        /\ storing' = [storing EXCEPT ![s] = @ + 1]
        /\ UNCHANGED <<endpoint, running, loop, sweep, row, removing, answer>>
    BY <1>13 DEF Discovery!UpdateServiceStatus, Discovery!Changing, Discovery!Stores
  <2>2. /\ DOMAIN registered' = DOMAIN registered
        /\ registered' = [t \in DOMAIN registered |-> registered'[t]]
        /\ \A t \in DOMAIN registered :
                registered'[t] \in [status : Discovery!Statuses, checked : BOOLEAN]
    BY <2>1
  <2>3. storing' \in [Services -> 0..MaxCalls] /\ \A t \in Services : storing'[t] <= changes'
    BY <2>1
  <2> QED
    BY <2>1, <2>2, <2>3
<1>14. ASSUME NEW s \in Services, NEW b \in BOOLEAN, Discovery!RegisterService(s, b)
       PROVE  DiscoveryIInv'
  BY <1>14 DEF Discovery!RegisterService, Discovery!Changing, Discovery!Stores
<1>15. ASSUME NEW s \in Services, NEW b \in BOOLEAN, Discovery!StoreServiceInCache(s, b)
       PROVE  DiscoveryIInv'
  BY <1>15 DEF Discovery!StoreServiceInCache
<1>16. ASSUME NEW s \in Services, NEW b \in BOOLEAN, Discovery!RemoveServiceFromCache(s, b)
       PROVE  DiscoveryIInv'
  BY <1>16 DEF Discovery!RemoveServiceFromCache
<1>17. CASE UNCHANGED Discovery!vars
  BY <1>17 DEF Discovery!vars
<1> QED
  BY <1>1, <1>2, <1>3, <1>4, <1>5, <1>6, <1>7, <1>8, <1>9, <1>10, <1>11, <1>12, <1>13, <1>14,
     <1>15, <1>16, <1>17
     DEF Discovery!Next, Discovery!Sweeps

-----------------------------------------------------------------------------
(* The execution of a tool.  The posts of a call are numbered: Past are those *)
(* before the one at hand, and the server runs each of them at most once.  A  *)
(* call that has its 200 is done.                                            *)
Past(attempt, place) == (attempt - 1) * Endpoints + place - 1

CallCounts(k, runs) ==
    /\ k \in Tool!CallRecord /\ runs \in Nat
    /\ runs <= Past(k.attempt, k.endpoint)
                   + (IF k.pc \in {"landed", "asleep", "done"} THEN 1 ELSE 0)
    /\ k.pc = "idle" => k.attempt = 1 /\ k.endpoint = 1
    /\ k.pc = "asleep" => k.attempt < Attempts
    /\ k.ok => k.pc = "done"

ToolIInv ==
    /\ Tool!ToolTypeOK
    /\ \A c \in Callers : CallCounts(call[c], served[c])

(* The numbers of the posts.                                                 *)
LEMMA PostsNumbered ==
    /\ Past(1, 1) = 0
    /\ \A a \in 1..Attempts, e \in 1..Endpoints :
        /\ Past(a, e) \in Nat /\ Past(a, e) + 1 <= Endpoints * Attempts
        /\ Past(a, e + 1) = Past(a, e) + 1
        /\ Past(a, e) + 1 <= Past(a + 1, 1)
    /\ Endpoints * Attempts \in Nat
<1>1. Past(1, 1) = 0
  BY ToolAssumption DEF Past
<1>2. \A n, m \in Nat : n * m \in Nat
  OBVIOUS
<1>3. ASSUME NEW a \in 1..Attempts, NEW e \in 1..Endpoints
      PROVE  /\ Past(a, e) \in Nat /\ Past(a, e) + 1 <= Endpoints * Attempts
             /\ Past(a, e + 1) = Past(a, e) + 1
             /\ Past(a, e) + 1 <= Past(a + 1, 1)
  <2>1. /\ a - 1 \in Nat /\ Attempts - a \in Nat /\ Endpoints \in Nat /\ Attempts \in Nat
        /\ e \in Nat /\ e >= 1 /\ e <= Endpoints /\ a \in Nat
    BY ToolAssumption
  <2>2. (a - 1) * Endpoints \in Nat /\ (Attempts - a) * Endpoints \in Nat
    BY <1>2, <2>1
  <2>3. a * Endpoints = (a - 1) * Endpoints + Endpoints
    BY <2>1
  <2>4. Endpoints * Attempts = (Attempts - a) * Endpoints + a * Endpoints
    BY <2>1
  <2>5. Past(a, e) = (a - 1) * Endpoints + e - 1 /\ Past(a, e + 1) = (a - 1) * Endpoints + e
    BY <2>1, <2>2 DEF Past
  <2>6. Past(a + 1, 1) = a * Endpoints
    BY <2>1 DEF Past
  <2> QED
    BY <2>1, <2>2, <2>3, <2>4, <2>5, <2>6
<1> QED
  BY <1>1, <1>2, <1>3, ToolAssumption

LEMMA ToolInitHolds == Tool!ToolInit => ToolIInv
<1> SUFFICES ASSUME Tool!ToolInit PROVE ToolIInv
  OBVIOUS
<1>1. Tool!TypeOK
  BY ThresholdAssumption DEF Tool!ToolInit, Tool!Init, Tool!TypeOK
<1>2. ASSUME NEW c \in Callers
      PROVE  /\ call[c] = [pc |-> "idle", endpoint |-> 1, attempt |-> 1, ok |-> FALSE]
             /\ served[c] = 0
  BY DEF Tool!ToolInit
<1>3. [pc |-> "idle", endpoint |-> 1, attempt |-> 1, ok |-> FALSE] \in Tool!CallRecord
  BY ToolAssumption DEF Tool!CallRecord
<1>4. \A c \in Callers : CallCounts(call[c], served[c])
  BY <1>2, <1>3, PostsNumbered DEF CallCounts
<1>5. Tool!ToolTypeOK
  BY <1>1, <1>3, PostsNumbered DEF Tool!ToolTypeOK, Tool!ToolInit
<1> QED
  BY <1>4, <1>5 DEF ToolIInv

(* The breaker's part of a step of a tool is a step of the breaker.          *)
LEMMA ToolMovesBreaker ==
    [Tool!ToolNext]_Tool!toolVars => [Utils!Next]_Utils!vars /\ [Tool!Next]_Tool!vars
<1> SUFFICES ASSUME [Tool!ToolNext]_Tool!toolVars
    PROVE  [Utils!Next]_Utils!vars /\ [Tool!Next]_Tool!vars
  OBVIOUS
<1>1. [Tool!Next]_Tool!vars
  BY DEF Tool!ToolNext, Tool!toolVars, Tool!ExecuteTool, Tool!Loop, Tool!Lands, Tool!Ends,
         Tool!ToolEnvironment, Tool!Post, Tool!Rejected, Tool!Wakes, Tool!Answered,
         Tool!AnsweredBadly, Tool!Unanswered, Tool!Cancelled, Tool!Next
<1>2. Tool!vars = Utils!vars /\ Tool!vars' = Utils!vars'
  BY DEF Tool!vars, Utils!vars, Tool!observers, Utils!observers
<1>3. Tool!Next => Utils!Next
  <2>1. ASSUME NEW c \in Callers, Tool!Admit(c) \/ Tool!Probe(c) PROVE Utils!Admit(c) \/ Utils!Probe(c)
    BY <2>1
       DEF Tool!Admit, Tool!Probe, Utils!Admit, Utils!Probe, Tool!ShouldAttemptReset,
           Utils!ShouldAttemptReset, Tool!observers, Utils!observers, Tool!NoFailure,
           Utils!NoFailure
  <2>2. ASSUME NEW c \in Callers, Tool!OnSuccess(c) PROVE Utils!OnSuccess(c)
    BY <2>2
       DEF Tool!OnSuccess, Utils!OnSuccess, Tool!OnTrial, Utils!OnTrial, Tool!Forgiven,
           Utils!Forgiven, Tool!Bump, Utils!Bump
  <2>3. ASSUME NEW c \in Callers, Tool!OnFailure(c) PROVE Utils!OnFailure(c)
    BY <2>3
       DEF Tool!OnFailure, Utils!OnFailure, Tool!Tripped, Utils!Tripped, Tool!Stamp, Utils!Stamp,
           Tool!Bump, Utils!Bump
  <2>4. ASSUME NEW c \in Callers, Tool!Escape(c) PROVE Utils!Escape(c)
    BY <2>4 DEF Tool!Escape, Utils!Escape, Tool!observers, Utils!observers
  <2>5. Tool!Reset => Utils!Reset
    BY DEF Tool!Reset, Utils!Reset, Tool!observers, Utils!observers, Tool!NoFailure,
           Utils!NoFailure
  <2>6. Tool!Tick => Utils!Tick
    BY DEF Tool!Tick, Utils!Tick, Tool!observers, Utils!observers
  <2>7. Tool!ServiceChanges => Utils!ServiceChanges
    BY DEF Tool!ServiceChanges, Utils!ServiceChanges, Tool!observers, Utils!observers
  <2> QED
    BY <2>1, <2>2, <2>3, <2>4, <2>5, <2>6, <2>7, ToolAssumption DEF Tool!Next, Utils!Next
<1> QED
  BY <1>1, <1>2, <1>3

LEMMA ToolBreakerTyped == Tool!TypeOK /\ [Tool!Next]_Tool!vars => Tool!TypeOK'
<1> SUFFICES ASSUME Tool!TypeOK, [Tool!Next]_Tool!vars PROVE Tool!TypeOK'
  OBVIOUS
<1> USE ThresholdAssumption DEF Tool!TypeOK, Tool!NoFailure
<1>1. \A n \in 0..CountBound : Tool!Bump(n) \in 0..CountBound
  BY DEF Tool!Bump
<1>2. ASSUME NEW c \in Callers, Tool!Admit(c) \/ Tool!Probe(c) \/ Tool!Escape(c)
      PROVE  Tool!TypeOK'
  BY <1>2 DEF Tool!Admit, Tool!Probe, Tool!Escape, Tool!observers
<1>3. ASSUME NEW c \in Callers, Tool!OnSuccess(c) PROVE Tool!TypeOK'
  BY <1>1, <1>3 DEF Tool!OnSuccess, Tool!OnTrial, Tool!Forgiven
<1>4. ASSUME NEW c \in Callers, Tool!OnFailure(c) PROVE Tool!TypeOK'
  BY <1>1, <1>4 DEF Tool!OnFailure, Tool!Tripped, Tool!Stamp
<1>5. CASE Tool!Reset
  BY <1>5 DEF Tool!Reset, Tool!observers
<1>6. CASE Tool!Tick
  BY <1>6 DEF Tool!Tick, Tool!observers
<1>7. CASE Tool!ServiceChanges
  BY <1>7 DEF Tool!ServiceChanges, Tool!observers
<1>8. CASE UNCHANGED Tool!vars
  BY <1>8 DEF Tool!vars, Tool!observers
<1> QED
  BY <1>2, <1>3, <1>4, <1>5, <1>6, <1>7, <1>8 DEF Tool!Next

(* One call moves, to a record and a count that are in order.                *)
LEMMA ToolCallMoves ==
    ASSUME ToolIInv, Tool!TypeOK', NEW c \in Callers, NEW k, NEW n,
           call' = [call EXCEPT ![c] = k], served' = [served EXCEPT ![c] = n],
           report' = report \/ (\E r \in {"success", "raised"} : report' = [report EXCEPT ![c] = r]),
           CallCounts(k, n), call[c].ok => n = served[c]
    PROVE  ToolIInv' /\ \A d \in Callers : call[d].ok => served'[d] = served[d]
<1>1. k \in Tool!CallRecord /\ n \in 0..(Endpoints * Attempts)
  <2>1. k.attempt \in 1..Attempts /\ k.endpoint \in 1..Endpoints
    BY DEF CallCounts, Tool!CallRecord
  <2>2. n \in Nat /\ n <= Past(k.attempt, k.endpoint) + 1
    BY <2>1, PostsNumbered DEF CallCounts
  <2> QED
    BY <2>1, <2>2, PostsNumbered DEF CallCounts
<1>2. \A d \in Callers : /\ call'[d] = IF d = c THEN k ELSE call[d]
                         /\ served'[d] = IF d = c THEN n ELSE served[d]
  BY DEF ToolIInv, Tool!ToolTypeOK
<1>3. /\ call' \in [Callers -> Tool!CallRecord]
      /\ served' \in [Callers -> 0..(Endpoints * Attempts)]
      /\ report' \in [Callers -> {"none", "success", "raised"}]
  BY <1>1 DEF ToolIInv, Tool!ToolTypeOK
<1>4. \A d \in Callers : CallCounts(call[d], served[d])' 
  BY <1>2 DEF ToolIInv, CallCounts
<1> QED
  BY <1>2, <1>3, <1>4 DEF ToolIInv, Tool!ToolTypeOK

(* The end of a post that is a failure: the next endpoint, attempt or mock.  *)
LEMMA OnwardKeeps ==
    ASSUME ToolIInv, Tool!TypeOK', NEW c \in Callers, Tool!Onward(c), UNCHANGED served,
           call[c].pc \in {"next", "posted", "landed"}
    PROVE  ToolIInv' /\ \A d \in Callers : call[d].ok => served'[d] = served[d]
<1> DEFINE k == call[c]
<1>1. /\ k = [pc |-> k.pc, endpoint |-> k.endpoint, attempt |-> k.attempt, ok |-> k.ok]
      /\ k.endpoint \in 1..Endpoints /\ k.attempt \in 1..Attempts
      /\ served[c] \in Nat /\ served[c] <= Past(k.attempt, k.endpoint) + 1
      /\ k.ok = FALSE
  BY PostsNumbered DEF ToolIInv, Tool!ToolTypeOK, Tool!CallRecord, CallCounts
<1>2. served' = [served EXCEPT ![c] = served[c]]
  BY DEF ToolIInv, Tool!ToolTypeOK
<1>3. CASE k.endpoint < Endpoints
  <2> DEFINE l == [pc |-> "next", endpoint |-> k.endpoint + 1, attempt |-> k.attempt, ok |-> FALSE]
  <2>1. call' = [call EXCEPT ![c] = l] /\ UNCHANGED report
    BY <1>1, <1>3 DEF Tool!Onward, ToolIInv, Tool!ToolTypeOK
  <2>2. CallCounts(l, served[c])
    BY <1>1, <1>3, PostsNumbered, ToolAssumption DEF CallCounts, Tool!CallRecord
  <2> QED
    BY <1>2, <2>1, <2>2, ToolCallMoves
<1>4. CASE ~(k.endpoint < Endpoints) /\ k.attempt = Attempts
  <2> DEFINE l == [pc |-> "done", endpoint |-> k.endpoint, attempt |-> k.attempt, ok |-> FALSE]
  <2>1. call' = [call EXCEPT ![c] = l] /\ report' = [report EXCEPT ![c] = "success"]
    BY <1>1, <1>4 DEF Tool!Onward, Tool!EndOfRound, Tool!Reports
  <2>2. CallCounts(l, served[c])
    BY <1>1, PostsNumbered, ToolAssumption DEF CallCounts, Tool!CallRecord
  <2> QED
    BY <1>2, <2>1, <2>2, ToolCallMoves
<1>5. CASE ~(k.endpoint < Endpoints) /\ k.attempt # Attempts
  <2> DEFINE l == [pc |-> "asleep", endpoint |-> k.endpoint, attempt |-> k.attempt, ok |-> FALSE]
  <2>1. call' = [call EXCEPT ![c] = l] /\ UNCHANGED report
    BY <1>1, <1>5 DEF Tool!Onward, Tool!EndOfRound
  <2>2. CallCounts(l, served[c])
    BY <1>1, <1>5, PostsNumbered, ToolAssumption DEF CallCounts, Tool!CallRecord
  <2> QED
    BY <1>2, <2>1, <2>2, ToolCallMoves
<1> QED
  BY <1>3, <1>4, <1>5

(* What a record is with other fields.                                       *)
LEMMA CallGoes ==
    ASSUME NEW k \in Tool!CallRecord, NEW pc
    PROVE  [k EXCEPT !.pc = pc]
             = [pc |-> pc, endpoint |-> k.endpoint, attempt |-> k.attempt, ok |-> k.ok]
  BY DEF Tool!CallRecord

LEMMA CallAnswers ==
    ASSUME NEW k \in Tool!CallRecord, NEW ok, NEW l, l = [k EXCEPT !.ok = ok]
    PROVE  /\ l.ok = ok
           /\ [l EXCEPT !.pc = "done"]
                = [pc |-> "done", endpoint |-> k.endpoint, attempt |-> k.attempt, ok |-> ok]
<1>1. [k EXCEPT !.ok = ok]
        = [pc |-> k.pc, endpoint |-> k.endpoint, attempt |-> k.attempt, ok |-> ok]
  BY DEF Tool!CallRecord
<1>2. l = [pc |-> k.pc, endpoint |-> k.endpoint, attempt |-> k.attempt, ok |-> ok]
  BY <1>1
<1>3. l.ok = ok
  BY ONLY <1>2
<1>4. [l EXCEPT !.pc = "done"]
        = [pc |-> "done", endpoint |-> k.endpoint, attempt |-> k.attempt, ok |-> ok]
  BY ONLY <1>2
<1> QED
  BY <1>3, <1>4

(* A step of one call, that is not done.                                     *)
LEMMA ToolCallStep ==
    ASSUME ToolIInv, Tool!TypeOK', NEW c \in Callers,
           \/ Tool!ExecuteTool(c) \/ Tool!Loop(c) \/ Tool!Lands(c) \/ Tool!Ends(c)
    PROVE  ToolIInv' /\ \A d \in Callers : call[d].ok => served'[d] = served[d]
<1> DEFINE k == call[c]
           Kept == ToolIInv' /\ \A d \in Callers : call[d].ok => served'[d] = served[d]
           Goes(pc) ==
             [pc |-> pc, endpoint |-> k.endpoint, attempt |-> k.attempt, ok |-> FALSE]
<1> SUFFICES Kept
  OBVIOUS
<1>1. k.pc # "done"
  BY DEF Tool!ExecuteTool, Tool!Loop, Tool!Lands, Tool!Ends, Tool!Post, Tool!Rejected,
         Tool!Wakes, Tool!Answered, Tool!AnsweredBadly, Tool!Unanswered, Tool!Cancelled,
         Tool!InFlight, Tool!At
<1>2. /\ call \in [Callers -> Tool!CallRecord] /\ served \in [Callers -> 0..(Endpoints * Attempts)]
      /\ served[c] \in Nat /\ CallCounts(k, served[c])
  BY DEF ToolIInv, Tool!ToolTypeOK, CallCounts
<1>3. /\ k = [pc |-> k.pc, endpoint |-> k.endpoint, attempt |-> k.attempt, ok |-> k.ok]
      /\ k.endpoint \in 1..Endpoints /\ k.attempt \in 1..Attempts /\ k.ok = FALSE
  BY <1>1, <1>2 DEF CallCounts, Tool!CallRecord
<1>4. Past(k.attempt, k.endpoint) \in Nat
  BY <1>3, PostsNumbered
<1>5. ASSUME NEW pc, Tool!Moves(c, pc) PROVE call' = [call EXCEPT ![c] = Goes(pc)]
  <2>1. k \in Tool!CallRecord /\ call' = [call EXCEPT ![c] = [k EXCEPT !.pc = pc]]
    BY <1>2, <1>5 DEF Tool!Moves
  <2>2. [k EXCEPT !.pc = pc]
          = [pc |-> pc, endpoint |-> k.endpoint, attempt |-> k.attempt, ok |-> k.ok]
    BY <2>1, CallGoes
  <2> QED
    BY <1>3, <2>1, <2>2, Zenon
<1>6. ASSUME NEW n, served' = [served EXCEPT ![c] = n], NEW l, call' = [call EXCEPT ![c] = l],
             CallCounts(l, n),
             \/ report' = report
             \/ \E r \in {"success", "raised"} : report' = [report EXCEPT ![c] = r]
      PROVE  Kept
  BY <1>3, <1>6, ToolCallMoves
<1>7. UNCHANGED served => served' = [served EXCEPT ![c] = served[c]]
  BY <1>2
<1>8. ASSUME NEW pc \in {"next", "posted", "landed", "done"} PROVE Goes(pc) \in Tool!CallRecord
  BY <1>3 DEF Tool!CallRecord
<1>9. CASE Tool!ExecuteTool(c)
  <2>1. UNCHANGED served /\ k.pc = "idle"
    BY <1>9 DEF Tool!ExecuteTool, Tool!At
  <2>2. CallCounts(Goes("next"), served[c]) /\ CallCounts(Goes("done"), served[c])
    BY <1>2, <1>3, <1>4, <1>8, <2>1 DEF CallCounts
  <2>3. \/ Tool!Moves(c, "next") /\ UNCHANGED report
        \/ Tool!Moves(c, "done") /\ report' = [report EXCEPT ![c] = "raised"]
    BY <1>9 DEF Tool!ExecuteTool
  <2> HIDE DEF Goes, Kept
  <2> QED
    BY <1>5, <1>6, <1>7, <2>1, <2>2, <2>3
<1>10. CASE Tool!Post(c)
  <2>1. UNCHANGED <<served, report>> /\ k.pc = "next" /\ Tool!Moves(c, "posted")
    BY <1>10 DEF Tool!Post, Tool!At
  <2>2. CallCounts(Goes("posted"), served[c])
    BY <1>2, <1>3, <1>4, <1>8, <2>1 DEF CallCounts
  <2> HIDE DEF Goes, Kept
  <2> QED
    BY <1>5, <1>6, <1>7, <2>1, <2>2
<1>11. CASE Tool!Lands(c)
  <2>1. /\ Tool!Moves(c, "landed") /\ UNCHANGED report /\ k.pc = "posted"
        /\ served' = [served EXCEPT ![c] = served[c] + 1]
    BY <1>11 DEF Tool!Lands, Tool!At
  <2>2. CallCounts(Goes("landed"), served[c] + 1)
    BY <1>2, <1>3, <1>4, <1>8, <2>1 DEF CallCounts
  <2> HIDE DEF Goes, Kept
  <2> QED
    BY <1>5, <1>6, <2>1, <2>2
<1>12. CASE Tool!Rejected(c) \/ Tool!AnsweredBadly(c) \/ Tool!Unanswered(c)
  <2>1. Tool!Onward(c) /\ UNCHANGED served /\ k.pc \in {"next", "posted", "landed"}
    BY <1>12 DEF Tool!Rejected, Tool!AnsweredBadly, Tool!Unanswered, Tool!InFlight, Tool!At
  <2> QED
    BY <2>1, OnwardKeeps
<1>13. CASE Tool!Answered(c)
  <2> DEFINE l == [pc |-> "done", endpoint |-> k.endpoint, attempt |-> k.attempt, ok |-> TRUE]
             answered == [k EXCEPT !.ok = TRUE]
  <2>1. k.pc = "landed" /\ UNCHANGED served /\ Tool!EndOfRound(c, answered)
    BY <1>13 DEF Tool!Answered, Tool!At
  <2>2. answered.ok = TRUE /\ [answered EXCEPT !.pc = "done"] = l
    <3>1. k \in Tool!CallRecord
      BY <1>2
    <3>2. \A ok, m : m = [k EXCEPT !.ok = ok] =>
                /\ m.ok = ok
                /\ [m EXCEPT !.pc = "done"]
                     = [pc |-> "done", endpoint |-> k.endpoint, attempt |-> k.attempt, ok |-> ok]
      BY <3>1, CallAnswers
    <3> HIDE DEF k
    <3> QED
      BY ONLY <3>2, Zenon
  <2> HIDE DEF k, l, answered
  <2>3. call' = [call EXCEPT ![c] = l] /\ report' = [report EXCEPT ![c] = "success"]
    BY <2>1, <2>2 DEF Tool!EndOfRound, Tool!Reports
  <2> USE DEF k, l
  <2>4. CallCounts(l, served[c])
    BY <1>2, <1>3, <1>4, <2>1 DEF CallCounts, Tool!CallRecord
  <2> HIDE DEF l, Kept
  <2> QED
    BY <1>6, <1>7, <2>1, <2>3, <2>4
<1>14. CASE Tool!Cancelled(c)
  <2>1. /\ Tool!Moves(c, "done") /\ UNCHANGED served /\ k.pc \in {"posted", "landed"}
        /\ report' = [report EXCEPT ![c] = "raised"]
    BY <1>14 DEF Tool!Cancelled, Tool!InFlight, Tool!At
  <2>2. CallCounts(Goes("done"), served[c])
    BY <1>2, <1>3, <1>4, <1>8, <2>1 DEF CallCounts
  <2> HIDE DEF Goes, Kept
  <2> QED
    BY <1>5, <1>6, <1>7, <2>1, <2>2
<1>15. CASE Tool!Wakes(c)
  <2> DEFINE l == [pc |-> "next", endpoint |-> 1, attempt |-> k.attempt + 1, ok |-> FALSE]
  <2>1. /\ k.pc = "asleep" /\ UNCHANGED <<served, report>>
        /\ call' = [call EXCEPT ![c].pc = "next", ![c].endpoint = 1,
                                ![c].attempt = k.attempt + 1]
    BY <1>15 DEF Tool!Wakes, Tool!At, Tool!NextAttempt
  <2>2. call' = [call EXCEPT ![c] = l]
    BY <1>2, <1>3, <2>1
  <2>3. k.attempt < Attempts /\ served[c] <= Past(k.attempt, k.endpoint) + 1
    BY <1>2, <2>1 DEF CallCounts
  <2>4. l \in Tool!CallRecord
    BY <1>3, <2>3, ToolAssumption DEF Tool!CallRecord
  <2>5. /\ Past(k.attempt, k.endpoint) + 1 <= Past(k.attempt + 1, 1)
        /\ Past(k.attempt + 1, 1) \in Nat
    BY <1>3, <2>3, PostsNumbered, ToolAssumption
  <2>6. CallCounts(l, served[c])
    BY <1>2, <1>3, <1>4, <2>3, <2>4, <2>5 DEF CallCounts
  <2> HIDE DEF l, Kept
  <2> QED
    BY <1>6, <1>7, <2>1, <2>2, <2>6
<1> QED
  BY <1>9, <1>10, <1>11, <1>12, <1>13, <1>14, <1>15 DEF Tool!Loop, Tool!Ends

(* Every step of a tool keeps the invariant, and after a 200 the server does *)
(* not run the call again.                                                   *)
LEMMA ToolStep ==
    ToolIInv /\ [Tool!ToolNext]_Tool!toolVars =>
        ToolIInv' /\ \A c \in Callers : call[c].ok => served'[c] = served[c]
<1> SUFFICES ASSUME ToolIInv, [Tool!ToolNext]_Tool!toolVars
    PROVE  ToolIInv' /\ \A c \in Callers : call[c].ok => served'[c] = served[c]
  OBVIOUS
<1>1. Tool!TypeOK'
  BY ToolMovesBreaker, ToolBreakerTyped DEF ToolIInv, Tool!ToolTypeOK
<1>2. CASE UNCHANGED callVars
  BY <1>1, <1>2 DEF callVars, ToolIInv, Tool!ToolTypeOK, CallCounts
<1>3. ASSUME NEW c \in Callers,
             \/ Tool!ExecuteTool(c) \/ Tool!Loop(c) \/ Tool!Lands(c) \/ Tool!Ends(c)
      PROVE  ToolIInv' /\ \A d \in Callers : call[d].ok => served'[d] = served[d]
  BY <1>1, <1>3, ToolCallStep
<1> QED
  BY <1>2, <1>3
     DEF Tool!ToolNext, Tool!toolVars, Tool!ToolEnvironment, callVars, Tool!callVars

-----------------------------------------------------------------------------
(* The choice of a server.  Candidates are in a strict total order, so that   *)
(* the rank of a candidate, the number of those before it, tells it from the  *)
(* others, and every rank is some candidate's.                               *)
Candidates == Int \X Int \X Int

Rank(p, P) == Strategy!Cardinality(Strategy!Ahead(p, P))
Place(P, n) == CHOOSE p \in P : Rank(p, P) = n

LEMMA StrategyCounts == \A S : Strategy!Cardinality(S) = Cardinality(S)
<1>1. ASSUME NEW S PROVE Strategy!IsFiniteSet(S) = IsFiniteSet(S)
  BY DEF IsFiniteSet, Strategy!IsFiniteSet
<1> QED
  BY <1>1 DEF Cardinality, Strategy!Cardinality

LEMMA BeforeOrders ==
    /\ \A p \in Candidates : ~Strategy!Before(p, p)
    /\ \A p, q \in Candidates : p = q \/ Strategy!Before(p, q) \/ Strategy!Before(q, p)
    /\ \A p, q, r \in Candidates :
        Strategy!Before(p, q) /\ Strategy!Before(q, r) => Strategy!Before(p, r)
  BY DEF Candidates, Strategy!Before

LEMMA RanksDiffer ==
    ASSUME NEW P \in SUBSET Candidates, IsFiniteSet(P)
    PROVE  /\ \A p \in P : Rank(p, P) \in 0..(Cardinality(P) - 1)
           /\ \A p, q \in P : Strategy!Before(p, q) => Rank(p, P) < Rank(q, P)
           /\ \A p, q \in P : Rank(p, P) = Rank(q, P) => p = q
<1>1. \A p \in P : IsFiniteSet(Strategy!Ahead(p, P)) /\ Rank(p, P) \in Nat
                      /\ Rank(p, P) = Cardinality(Strategy!Ahead(p, P))
  <2>1. ASSUME NEW p \in P PROVE Strategy!Ahead(p, P) \in SUBSET P
    BY DEF Strategy!Ahead
  <2> QED
    BY <2>1, StrategyCounts, FS_Subset, FS_CardinalityType DEF Rank
<1>2. ASSUME NEW p \in P PROVE Rank(p, P) \in 0..(Cardinality(P) - 1)
  <2>1. Strategy!Ahead(p, P) \in SUBSET (P \ {p})
    BY BeforeOrders DEF Strategy!Ahead
  <2>2. IsFiniteSet(P \ {p}) /\ Cardinality(P \ {p}) = Cardinality(P) - 1
    BY FS_RemoveElement
  <2>3. Cardinality(Strategy!Ahead(p, P)) <= Cardinality(P \ {p})
    BY <2>1, <2>2, FS_Subset
  <2>4. Cardinality(P) \in Nat
    BY FS_CardinalityType
  <2> QED
    BY <1>1, <2>2, <2>3, <2>4
<1>3. ASSUME NEW p \in P, NEW q \in P, Strategy!Before(p, q) PROVE Rank(p, P) < Rank(q, P)
  <2>1. Strategy!Ahead(p, P) \in SUBSET Strategy!Ahead(q, P)
    BY <1>3, BeforeOrders DEF Strategy!Ahead
  <2>2. p \in Strategy!Ahead(q, P) /\ p \notin Strategy!Ahead(p, P)
    BY <1>3, BeforeOrders DEF Strategy!Ahead
  <2>3. /\ Cardinality(Strategy!Ahead(p, P)) <= Cardinality(Strategy!Ahead(q, P))
        /\ Cardinality(Strategy!Ahead(p, P)) # Cardinality(Strategy!Ahead(q, P))
    BY <1>1, <2>1, <2>2, FS_Subset
  <2> QED
    BY <1>1, <2>3
<1>4. ASSUME NEW p \in P, NEW q \in P, Rank(p, P) = Rank(q, P) PROVE p = q
  BY <1>1, <1>3, <1>4, BeforeOrders
<1> QED
  BY <1>2, <1>3, <1>4

LEMMA RanksAreTaken ==
    ASSUME NEW P \in SUBSET Candidates, IsFiniteSet(P), NEW n \in 0..(Cardinality(P) - 1)
    PROVE  \E p \in P : Rank(p, P) = n
<1> DEFINE T == 0..(Cardinality(P) - 1)
           f == [p \in P |-> Rank(p, P)]
<1>1. f \in [P -> T] /\ \A p, q \in P : f[p] = f[q] => p = q
  BY RanksDiffer
<1>2. f \in Injection(P, T)
  BY <1>1 DEF Injection, IsInjective
<1>3. Cardinality(P) \in Nat
  BY FS_CardinalityType
<1>4. IsFiniteSet(T) /\ Cardinality(T) = Cardinality(P)
  BY <1>3, FS_Interval
<1>5. f \in Surjection(P, T)
  BY <1>2, <1>4, FS_Injection
<1> QED
  BY <1>5 DEF Surjection

LEMMA Places ==
    ASSUME NEW P \in SUBSET Candidates, IsFiniteSet(P), NEW n \in 0..(Cardinality(P) - 1)
    PROVE  /\ Place(P, n) \in P /\ Rank(Place(P, n), P) = n
           /\ \A p \in P : Rank(p, P) = n => p = Place(P, n)
           /\ Strategy!Nth(P, n) = Place(P, n)[2]
<1>1. Place(P, n) \in P /\ Rank(Place(P, n), P) = n
  BY RanksAreTaken DEF Place
<1> QED
  BY <1>1, RanksDiffer DEF Place, Rank, Strategy!Nth

(* The first candidate is before all others.                                 *)
LEMMA FirstPlace ==
    ASSUME NEW P \in SUBSET Candidates, IsFiniteSet(P), P # {}
    PROVE  /\ Place(P, 0) \in P /\ Strategy!Nth(P, 0) = Place(P, 0)[2]
           /\ \A q \in P : q = Place(P, 0) \/ Strategy!Before(Place(P, 0), q)
           /\ \A p \in P : (\A q \in P : q = p \/ Strategy!Before(p, q)) => p = Place(P, 0)
<1>1. 0 \in 0..(Cardinality(P) - 1)
  BY FS_EmptySet, FS_CardinalityType
<1>2. /\ Place(P, 0) \in P /\ Rank(Place(P, 0), P) = 0
      /\ Strategy!Nth(P, 0) = Place(P, 0)[2]
  BY <1>1, Places
<1>3. \A q \in P : ~Strategy!Before(q, Place(P, 0))
  BY <1>2, RanksDiffer
<1> QED
  BY <1>2, <1>3, BeforeOrders

(* The turns of a round: finitely many, one at least for each server, and as  *)
(* many as its share.                                                        *)
LEMMA SharesCount ==
    \A i \in Choices : Strategy!Share(i) \in Nat \ {0} /\ Strategy!Share(i) <= Weight[i]
                          /\ Weight[i] \in Nat
  BY SelectionAssumption DEF Strategy!Share

LEMMA AllTurnsFinite == IsFiniteSet(AllTurns)
<1> DEFINE Of(i) == {<<0, i, w>> : w \in 1..Weight[i]}
           Sets == {Of(i) : i \in Choices}
<1>1. ASSUME NEW i \in Choices PROVE IsFiniteSet(Of(i))
  <2>1. Weight[i] \in Nat
    BY SelectionAssumption
  <2>2. IsFiniteSet(1..Weight[i])
    BY <2>1, FS_Interval
  <2>3. [w \in 1..Weight[i] |-> <<0, i, w>>] \in Surjection(1..Weight[i], Of(i))
    BY DEF Surjection
  <2> QED
    BY <2>2, <2>3, FS_Surjection
<1>2. IsFiniteSet(Sets)
  <2>1. [i \in Choices |-> Of(i)] \in Surjection(Choices, Sets)
    BY DEF Surjection
  <2> QED
    BY <2>1, SelectionAssumption, FS_Surjection
<1>3. AllTurns = UNION Sets
  BY DEF AllTurns
<1> HIDE DEF Of
<1> QED
  BY <1>1, <1>2, <1>3, FS_UNION

LEMMA TurnsCounted ==
    ASSUME NEW S \in SUBSET Choices
    PROVE  /\ Strategy!Turns(S) \in SUBSET Candidates /\ IsFiniteSet(Strategy!Turns(S))
           /\ \A t \in Strategy!Turns(S) : t[2] \in S
           /\ S # {} => /\ Cardinality(Strategy!Turns(S)) \in Nat \ {0}
                        /\ Cycle % Cardinality(Strategy!Turns(S)) = 0
<1>1. Strategy!Turns(S) \in SUBSET AllTurns
  BY SharesCount DEF AllTurns, Strategy!Turns
<1>2. Strategy!Turns(S) \in SUBSET Candidates /\ \A t \in Strategy!Turns(S) : t[2] \in S
  BY SelectionAssumption DEF Strategy!Turns, Candidates
<1>3. /\ IsFiniteSet(Strategy!Turns(S))
      /\ Cardinality(Strategy!Turns(S)) <= Cardinality(AllTurns)
  BY <1>1, AllTurnsFinite, FS_Subset
<1>4. S # {} => Strategy!Turns(S) # {}
  <2>1. ASSUME NEW i \in S PROVE <<0, i, 1>> \in Strategy!Turns(S)
    BY SharesCount DEF Strategy!Turns
  <2> QED
    BY <2>1
<1>5. /\ Cardinality(Strategy!Turns(S)) \in Nat /\ Cardinality(AllTurns) \in Nat
      /\ S # {} => Cardinality(Strategy!Turns(S)) # 0
  BY <1>3, <1>4, AllTurnsFinite, FS_CardinalityType, FS_EmptySet
<1> QED
  BY <1>2, <1>3, <1>5, SelectionAssumption

LEMMA ServersTurns ==
    ASSUME NEW S \in SUBSET Choices, NEW i \in S
    PROVE  /\ IsFiniteSet({t \in Strategy!Turns(S) : t[2] = i})
           /\ Cardinality({t \in Strategy!Turns(S) : t[2] = i}) = Strategy!Share(i)
<1> DEFINE Own == {t \in Strategy!Turns(S) : t[2] = i}
           f == [w \in 1..Strategy!Share(i) |-> <<0, i, w>>]
<1>1. Strategy!Share(i) \in Nat
  BY SharesCount
<1>2. \A t : t \in Own <=> \E w \in 1..Strategy!Share(i) : t = <<0, i, w>>
  BY DEF Strategy!Turns
<1> HIDE DEF Own
<1>3. f \in Injection(1..Strategy!Share(i), Own)
  BY <1>2 DEF Injection, IsInjective
<1>4. f \in Surjection(1..Strategy!Share(i), Own)
  BY <1>2 DEF Surjection
<1>5. /\ IsFiniteSet(1..Strategy!Share(i))
      /\ Cardinality(1..Strategy!Share(i)) = Strategy!Share(i)
  BY <1>1, FS_Interval
<1>6. IsFiniteSet(Own) /\ Cardinality(Own) = Strategy!Share(i)
  BY <1>3, <1>4, <1>5, FS_Bijection DEF Bijection, ExistsBijection
<1> QED
  BY <1>6 DEF Own

(* The index moves on by one turn of the round.                              *)
LEMMA NextRemainder ==
    ASSUME NEW x \in Nat, NEW n \in Nat \ {0}
    PROVE  (x + 1) % n = IF (x % n) + 1 = n THEN 0 ELSE (x % n) + 1
<1> DEFINE q == x \div n
           r == x % n
           q2 == (x + 1) \div n
           r2 == (x + 1) % n
<1>1. x = n * q + r /\ q \in Nat /\ r \in 0..(n - 1)
  OBVIOUS
<1>2. x + 1 = n * q2 + r2 /\ q2 \in Nat /\ r2 \in 0..(n - 1)
  OBVIOUS
<1> HIDE DEF q, r, q2, r2
<1>3. n * (q2 - q) = r + 1 - r2
  BY <1>1, <1>2
<1>4. q2 - q = 0 \/ q2 - q = 1
  <2>1. CASE q2 - q <= -1
    <3>1. n * (q2 - q) <= -n
      BY <1>1, <1>2, <2>1
    <3> QED
      BY <1>1, <1>2, <1>3, <3>1
  <2>2. CASE q2 - q >= 2
    <3>1. n * (q2 - q) >= 2 * n
      BY <1>1, <1>2, <2>2
    <3> QED
      BY <1>1, <1>2, <1>3, <3>1
  <2> QED
    BY <1>1, <1>2, <2>1, <2>2
<1>5. r2 = IF r + 1 = n THEN 0 ELSE r + 1
  <2>1. CASE q2 - q = 0
    <3>1. n * (q2 - q) = 0
      BY <2>1
    <3> QED
      BY <1>1, <1>2, <1>3, <3>1
  <2>2. CASE q2 - q = 1
    <3>1. n * (q2 - q) = n
      BY <2>2
    <3> QED
      BY <1>1, <1>2, <1>3, <3>1
  <2> QED
    BY <1>4, <2>1, <2>2
<1> QED
  BY <1>5 DEF r, r2

LEMMA IndexAdvances ==
    ASSUME NEW x \in 0..(Cycle - 1), NEW n \in Nat \ {0}, Cycle % n = 0
    PROVE  /\ x % n \in 0..(n - 1) /\ (x + 1) % Cycle \in 0..(Cycle - 1)
           /\ ((x + 1) % Cycle) % n = IF (x % n) + 1 = n THEN 0 ELSE (x % n) + 1
<1>1. Cycle \in Nat \ {0} /\ x \in Nat
  BY SelectionAssumption
<1>2. x % n \in 0..(n - 1) /\ (x + 1) % Cycle \in 0..(Cycle - 1) /\ 0 % n = 0
  BY <1>1
<1>3. (x + 1) % n = IF (x % n) + 1 = n THEN 0 ELSE (x % n) + 1
  BY <1>1, NextRemainder
<1>4. CASE x + 1 < Cycle
  <2>1. (x + 1) % Cycle = x + 1
    BY <1>1, <1>4
  <2> QED
    BY <1>2, <1>3, <2>1
<1>5. CASE x + 1 = Cycle
  <2>1. (x + 1) % Cycle = 0 /\ (x + 1) % n = 0
    BY <1>1, <1>5
  <2> QED
    BY <1>2, <1>3, <2>1
<1> QED
  BY <1>1, <1>4, <1>5

(* The picks are the places of a round from a first one on, with a wrap, and  *)
(* the index is the place after the last of them.  A client's last choice is  *)
(* what its hash chose.                                                      *)
Wrap(n, k) == IF k < n THEN k ELSE k - n

PicksFollow(T, p, x, s) ==
    /\ x % Cardinality(T) = Wrap(Cardinality(T), s + Len(p))
    /\ \A k \in 1..Len(p) : p[k] = Place(T, Wrap(Cardinality(T), s + k - 1))[2]

StrategyIInv ==
    /\ strategy \in Strategy!Strategies
    /\ usable \in SUBSET Choices /\ index \in 0..(Cycle - 1)
    /\ picks \in Seq(Choices) /\ Len(picks) <= Cardinality(Strategy!Turns(usable))
    /\ connections \in [Choices -> Nat] /\ node \in [Choices \X Virtual -> Int]
    /\ client \in Int
    /\ strategy \in Strategy!Turning /\ usable # {} =>
        \E s \in 0..(Cardinality(Strategy!Turns(usable)) - 1) :
            PicksFollow(Strategy!Turns(usable), picks, index, s)
    /\ last.among \in SUBSET Choices
    /\ strategy \in Strategy!Hashing /\ last.among # {} => last.server = Strategy!Hashed(last.among)

LEMMA StrategyInit == Strategy!Init => StrategyIInv
<1> SUFFICES ASSUME Strategy!Init PROVE StrategyIInv
  OBVIOUS
<1>1. Strategy!Turns({}) = {} /\ Cardinality(Strategy!Turns({})) = 0
  BY FS_EmptySet DEF Strategy!Turns
<1>2. client \in Int
  BY SelectionAssumption DEF Strategy!Init
<1>4. node \in [Choices \X Virtual -> Int]
  <2>1. (IF strategy = "consistent_hash" THEN Hashes ELSE {0}) \subseteq Int
    BY SelectionAssumption
  <2> QED
    BY <2>1 DEF Strategy!Init
<1>3. index \in 0..(Cycle - 1)
  BY SelectionAssumption DEF Strategy!Init
<1> QED
  BY <1>1, <1>2, <1>3, <1>4 DEF Strategy!Init, StrategyIInv

(* A whole round gives each server its share: the wrapped places are a        *)
(* permutation of the round.                                                 *)
LEMMA RoundIsFair ==
    ASSUME StrategyIInv, strategy \in Strategy!Turning, usable # {},
           Len(picks) = Cardinality(Strategy!Turns(usable)), NEW i \in usable
    PROVE  Cardinality({k \in 1..Len(picks) : picks[k] = i}) = Strategy!Share(i)
<1> DEFINE T == Strategy!Turns(usable)
           n == Cardinality(T)
           K == {k \in 1..n : picks[k] = i}
           Own == {t \in T : t[2] = i}
<1>1. T \in SUBSET Candidates /\ IsFiniteSet(T) /\ n \in Nat \ {0}
  BY TurnsCounted DEF StrategyIInv
<1>2. PICK s \in 0..(n - 1) : PicksFollow(T, picks, index, s)
  BY DEF StrategyIInv
<1> DEFINE f == [k \in K |-> Place(T, Wrap(n, s + k - 1))]
<1>3. \A k \in 1..n : Wrap(n, s + k - 1) \in 0..(n - 1)
  BY <1>1 DEF Wrap
<1> HIDE DEF T
<1>4. \A k \in 1..n : /\ Place(T, Wrap(n, s + k - 1)) \in T
                      /\ Rank(Place(T, Wrap(n, s + k - 1)), T) = Wrap(n, s + k - 1)
                      /\ picks[k] = Place(T, Wrap(n, s + k - 1))[2]
  <2>1. ASSUME NEW k \in 1..n
        PROVE  /\ Place(T, Wrap(n, s + k - 1)) \in T
               /\ Rank(Place(T, Wrap(n, s + k - 1)), T) = Wrap(n, s + k - 1)
    BY <1>1, <1>3, Places
  <2>2. Len(picks) = n
    BY DEF T
  <2> QED
    BY <1>2, <2>1, <2>2 DEF PicksFollow
<1> HIDE DEF n
<1>5. f \in Injection(K, Own)
  <2>1. f \in [K -> Own]
    BY <1>4
  <2>2. ASSUME NEW k \in K, NEW l \in K, f[k] = f[l] PROVE k = l
    <3>1. Wrap(n, s + k - 1) = Wrap(n, s + l - 1)
      BY <1>4, <2>2
    <3> QED
      BY <1>1, <3>1 DEF Wrap
  <2> QED
    BY <2>1, <2>2 DEF Injection, IsInjective
<1>6. f \in Surjection(K, Own)
  <2>1. f \in [K -> Own]
    BY <1>4
  <2>2. ASSUME NEW t \in Own PROVE \E k \in K : f[k] = t
    <3>1. t \in T /\ Rank(t, T) \in 0..(n - 1) /\ t[2] = i
      BY <1>1, RanksDiffer DEF n
    <3>2. PICK k \in 1..n : Wrap(n, s + k - 1) = Rank(t, T)
      <4>1. CASE Rank(t, T) >= s
        <5>1. Rank(t, T) - s + 1 \in 1..n /\ Wrap(n, s + (Rank(t, T) - s + 1) - 1) = Rank(t, T)
          BY <1>1, <3>1, <4>1 DEF Wrap
        <5> QED
          BY <5>1
      <4>2. CASE Rank(t, T) < s
        <5>1. /\ Rank(t, T) + n - s + 1 \in 1..n
              /\ Wrap(n, s + (Rank(t, T) + n - s + 1) - 1) = Rank(t, T)
          BY <1>1, <3>1, <4>2 DEF Wrap
        <5> QED
          BY <5>1
      <4> QED
        BY <1>1, <3>1, <4>1, <4>2
    <3>3. Place(T, Wrap(n, s + k - 1)) = t
      BY <1>1, <1>4, <3>1, <3>2, RanksDiffer
    <3> QED
      BY <1>4, <3>1, <3>3
  <2> QED
    BY <2>1, <2>2 DEF Surjection
<1>7. IsFiniteSet(K)
  <2>1. IsFiniteSet(1..n) /\ K \in SUBSET (1..n)
    BY <1>1, FS_Interval
  <2> QED
    BY <2>1, FS_Subset
<1>8. Cardinality(Own) = Cardinality(K)
  BY <1>5, <1>6, <1>7, FS_Bijection DEF Bijection, ExistsBijection
<1>9. Cardinality(Own) = Strategy!Share(i)
  BY ServersTurns DEF StrategyIInv, T
<1> QED
  BY <1>8, <1>9 DEF n, T

(* The picks after one more choice of a turn.                                *)
LEMMA TurnTaken ==
    ASSUME StrategyIInv, strategy \in Strategy!Turning, usable # {},
           NEW x, x = Strategy!RoundRobin, index' = Strategy!Advanced(index),
           picks' = Append(IF Len(picks) = Strategy!Round THEN Tail(picks) ELSE picks, x),
           UNCHANGED <<strategy, usable>>
    PROVE  /\ picks' \in Seq(Choices) /\ Len(picks') <= Cardinality(Strategy!Turns(usable))
           /\ index' \in 0..(Cycle - 1)
           /\ \E s \in 0..(Cardinality(Strategy!Turns(usable)) - 1) :
                PicksFollow(Strategy!Turns(usable), picks', index', s)
<1> DEFINE T == Strategy!Turns(usable)
           n == Cardinality(T)
<1>1. T \in SUBSET Candidates /\ IsFiniteSet(T) /\ n \in Nat \ {0} /\ Cycle % n = 0
  BY TurnsCounted DEF StrategyIInv
<1>2. Strategy!Round = n
  BY StrategyCounts DEF Strategy!Round
<1>3. PICK s \in 0..(n - 1) : PicksFollow(T, picks, index, s)
  BY DEF StrategyIInv
<1>4. index % n = Wrap(n, s + Len(picks)) /\ Len(picks) \in 0..n
  BY <1>3 DEF PicksFollow, StrategyIInv
<1>5. /\ index % n \in 0..(n - 1) /\ index' \in 0..(Cycle - 1)
      /\ index' % n = IF (index % n) + 1 = n THEN 0 ELSE (index % n) + 1
  BY <1>1, IndexAdvances DEF StrategyIInv, Strategy!Advanced
<1>6. x = Place(T, index % n)[2] /\ x \in Choices
  <2>1. x = Strategy!Nth(T, index % n)
    BY <1>2 DEF Strategy!RoundRobin
  <2>2. Place(T, index % n) \in T /\ Strategy!Nth(T, index % n) = Place(T, index % n)[2]
    BY <1>1, <1>5, Places
  <2> QED
    BY <2>1, <2>2, TurnsCounted DEF StrategyIInv
<1> HIDE DEF T, n
<1>7. picks \in Seq(Choices)
  BY DEF StrategyIInv
<1>8. CASE Len(picks) < n
  <2>1. picks' = Append(picks, x)
    BY <1>2, <1>8
  <2>2. /\ picks' \in Seq(Choices) /\ Len(picks') = Len(picks) + 1
        /\ \A k \in 1..Len(picks) : picks'[k] = picks[k]
        /\ picks'[Len(picks) + 1] = x
    BY ONLY <1>6, <1>7, <2>1
  <2>3. index' % n = Wrap(n, s + Len(picks'))
    BY <1>1, <1>4, <1>5, <1>8, <2>2 DEF Wrap
  <2>4. \A k \in 1..Len(picks') : picks'[k] = Place(T, Wrap(n, s + k - 1))[2]
    <3>1. \A k \in 1..Len(picks) : picks'[k] = Place(T, Wrap(n, s + k - 1))[2]
      BY <1>3, <2>2 DEF PicksFollow, n
    <3>2. picks'[Len(picks) + 1] = Place(T, Wrap(n, s + (Len(picks) + 1) - 1))[2]
      <4>1. s + (Len(picks) + 1) - 1 = s + Len(picks)
        BY <1>4
      <4> QED
        BY <1>4, <1>6, <2>2, <4>1
    <3> QED
      BY ONLY <1>4, <2>2, <3>1, <3>2
  <2>5. PicksFollow(T, picks', index', s)
    BY <2>3, <2>4 DEF PicksFollow, n
  <2> QED
    BY <1>1, <1>4, <1>5, <1>8, <2>2, <2>5 DEF n, T
<1>9. CASE Len(picks) = n
  <2> DEFINE z == IF s + 1 = n THEN 0 ELSE s + 1
  <2>1. picks' = Append(Tail(picks), x)
    BY <1>2, <1>9
  <2>2. /\ picks' \in Seq(Choices) /\ Len(picks') = n
        /\ \A k \in 1..(n - 1) : picks'[k] = picks[k + 1]
        /\ picks'[n] = x
    <3>1. /\ Tail(picks) \in Seq(Choices) /\ Len(Tail(picks)) = n - 1
          /\ \A k \in 1..(n - 1) : Tail(picks)[k] = picks[k + 1]
      BY <1>1, <1>7, <1>9
    <3> HIDE <1>9
    <3> QED
      BY <1>1, <1>6, <2>1, <3>1
  <2>3. z \in 0..(n - 1) /\ index' % n = Wrap(n, z + Len(picks')) /\ index % n = s
    <3>1. index % n = s
      BY <1>1, <1>4, <1>9 DEF Wrap
    <3>2. index' % n = z /\ z \in 0..(n - 1)
      BY <1>1, <1>5, <3>1
    <3>3. Wrap(n, z + n) = z
      BY <1>1, <3>2 DEF Wrap
    <3> QED
      BY <2>2, <3>1, <3>2, <3>3
  <2>4. ASSUME NEW k \in 1..Len(picks')
        PROVE  picks'[k] = Place(T, Wrap(n, z + k - 1))[2]
    <3>1. CASE k < n
      <4>1. picks'[k] = picks[k + 1] /\ k + 1 \in 1..Len(picks)
        BY <1>1, <1>9, <2>2, <3>1
      <4>2. picks[k + 1] = Place(T, Wrap(n, s + (k + 1) - 1))[2]
        BY <1>3, <4>1 DEF PicksFollow, n
      <4>3. Wrap(n, s + (k + 1) - 1) = Wrap(n, z + k - 1)
        BY <1>1, <3>1, <2>2 DEF Wrap
      <4> QED
        BY <4>1, <4>2, <4>3
    <3>2. CASE k = n
      <4>1. Wrap(n, z + k - 1) = s
        BY <1>1, <3>2 DEF Wrap
      <4> QED
        BY <1>6, <2>2, <2>3, <3>2, <4>1
    <3> QED
      BY <1>1, <2>2, <3>1, <3>2
  <2> HIDE DEF z
  <2>5. PicksFollow(T, picks', index', z)
    BY <2>3, <2>4 DEF PicksFollow, n
  <2> QED
    BY <1>1, <1>5, <2>2, <2>3, <2>5 DEF n, T
<1> QED
  BY <1>1, <1>4, <1>8, <1>9

(* What is chosen without a hash is a server.                                *)
LEMMA ChosenServers ==
    ASSUME StrategyIInv, usable # {}, strategy \notin Strategy!Hashing, NEW x \in Strategy!Chosen
    PROVE  x \in Choices
<1>1. strategy \in Strategy!Turning \cup {"least_connections", "least_response_time"}
  BY DEF StrategyIInv, Strategy!Strategies
<1>2. CASE strategy \in Strategy!Turning
  <2> DEFINE T == Strategy!Turns(usable)
             n == Cardinality(T)
  <2>1. /\ T \in SUBSET Candidates /\ IsFiniteSet(T) /\ n \in Nat \ {0} /\ Cycle % n = 0
        /\ \A t \in T : t[2] \in Choices
    BY TurnsCounted DEF StrategyIInv
  <2>2. x = Strategy!Nth(T, index % n)
    BY <1>2, StrategyCounts
       DEF Strategy!Chosen, Strategy!RoundRobin, Strategy!Round, Strategy!Turning
  <2>3. index % n \in 0..(n - 1)
    BY <2>1, IndexAdvances DEF StrategyIInv
  <2>4. Place(T, index % n) \in T /\ Strategy!Nth(T, index % n) = Place(T, index % n)[2]
    BY <2>1, <2>3, Places
  <2> QED
    BY <2>1, <2>2, <2>4
<1>3. CASE strategy = "least_connections"
  <2> DEFINE P == {<<connections[i], i, 1>> : i \in usable}
  <2>1. P \in SUBSET Candidates /\ P # {} /\ \A p \in P : p[2] \in Choices
    <3>1. ASSUME NEW i \in usable
          PROVE  <<connections[i], i, 1>> \in Candidates /\ i \in Choices
      BY SelectionAssumption DEF StrategyIInv, Candidates
    <3>2. \A p \in P : p \in Candidates /\ p[2] \in Choices
      BY <3>1
    <3>3. PICK i \in usable : TRUE
      OBVIOUS
    <3>4. <<connections[i], i, 1>> \in P
      OBVIOUS
    <3> QED
      BY <3>2, <3>4
  <2>2. IsFiniteSet(P)
    <3>1. [i \in usable |-> <<connections[i], i, 1>>] \in Surjection(usable, P)
      BY DEF Surjection
    <3>2. IsFiniteSet(usable)
      BY SelectionAssumption, FS_Subset DEF StrategyIInv
    <3> QED
      BY <3>1, <3>2, FS_Surjection
  <2>3. x = Strategy!Nth(P, 0)
    BY <1>3
       DEF Strategy!Chosen, Strategy!LeastConnections, Strategy!Turning, Strategy!Hashing
  <2> HIDE DEF P
  <2> QED
    BY <2>1, <2>2, <2>3, FirstPlace
<1>4. CASE strategy = "least_response_time"
  BY <1>4 DEF Strategy!Chosen, Strategy!Turning, Strategy!Hashing, StrategyIInv
<1> QED
  BY <1>1, <1>2, <1>3, <1>4

(* A change of other variables leaves the hashed choice alone.               *)
LEMMA HashedStays ==
    ASSUME UNCHANGED <<strategy, node, client>>, NEW S
    PROVE  Strategy!Hashed(S)' = Strategy!Hashed(S) /\ Strategy!Turns(S)' = Strategy!Turns(S)
  BY DEF Strategy!Hashed, Strategy!IpHash, Strategy!ConsistentHash, Strategy!Ring, Strategy!Turns,
         Strategy!Share

LEMMA StrategyStep == StrategyIInv /\ [Strategy!Next]_Strategy!vars => StrategyIInv'
<1> SUFFICES ASSUME StrategyIInv, [Strategy!Next]_Strategy!vars PROVE StrategyIInv'
  OBVIOUS
<1>1. UNCHANGED <<strategy, node, client>>
  BY DEF Strategy!Next, Strategy!vars, Strategy!GetServer, Strategy!HealthyServersChange,
         Strategy!UpdateServerConnectionCount
<1>2. Strategy!Turns(usable') = Strategy!Turns(usable)'
  BY <1>1 DEF Strategy!Turns, Strategy!Share
<1> DEFINE Typed == /\ strategy' \in Strategy!Strategies
                    /\ usable' \in SUBSET Choices /\ index' \in 0..(Cycle - 1)
                    /\ connections' \in [Choices -> Nat]
                    /\ node' \in [Choices \X Virtual -> Int] /\ client' \in Int
           Picked == /\ picks' \in Seq(Choices)
                     /\ Len(picks') <= Cardinality(Strategy!Turns(usable'))
                     /\ strategy \in Strategy!Turning /\ usable' # {} =>
                          \E s \in 0..(Cardinality(Strategy!Turns(usable')) - 1) :
                              PicksFollow(Strategy!Turns(usable'), picks', index', s)
           Stays == /\ last'.among \in SUBSET Choices
                    /\ strategy \in Strategy!Hashing /\ last'.among # {} =>
                         last'.server = Strategy!Hashed(last'.among)
<1>3. ASSUME Typed, Picked, Stays PROVE StrategyIInv'
  <2>1. Strategy!Hashed(last.among)' = Strategy!Hashed(last'.among)
    BY <1>1 DEF Strategy!Hashed, Strategy!IpHash, Strategy!ConsistentHash, Strategy!Ring,
                Strategy!Turns, Strategy!Share
  <2> QED
    BY <1>1, <1>2, <1>3, <2>1 DEF StrategyIInv
<1>5. UNCHANGED last => Stays
  BY DEF StrategyIInv
<1>6. CASE Strategy!GetServer
  <2>1. PICK x \in Strategy!Chosen :
          IF strategy \in Strategy!Hashing
          THEN last' = [server |-> x, among |-> usable] /\ UNCHANGED picks
          ELSE /\ picks' = Append(IF Len(picks) = Strategy!Round THEN Tail(picks) ELSE picks, x)
               /\ UNCHANGED last
    BY <1>6 DEF Strategy!GetServer
  <2>2. /\ usable # {} /\ UNCHANGED <<usable, connections>>
        /\ index' = IF strategy \in Strategy!Turning THEN Strategy!Advanced(index) ELSE index
    BY <1>6 DEF Strategy!GetServer
  <2>3. Typed
    <3>1. Cycle \in Nat \ {0} /\ index \in 0..(Cycle - 1)
      BY SelectionAssumption DEF StrategyIInv
    <3>2. index' \in 0..(Cycle - 1)
      BY <2>2, <3>1 DEF Strategy!Advanced
    <3> QED
      BY <1>1, <2>2, <3>2 DEF StrategyIInv
  <2>4. CASE strategy \in Strategy!Hashing
    <3>1. Strategy!Chosen = {Strategy!Hashed(usable)}
      BY <2>4 DEF Strategy!Chosen, Strategy!Turning, Strategy!Hashing
    <3>2. last' = [server |-> Strategy!Hashed(usable), among |-> usable] /\ UNCHANGED picks
      BY <2>1, <2>4, <3>1
    <3>3. strategy \notin Strategy!Turning
      BY <2>4 DEF Strategy!Turning, Strategy!Hashing
    <3>4. Stays
      BY <3>2 DEF StrategyIInv
    <3>5. Picked
      BY <2>2, <3>2, <3>3 DEF StrategyIInv
    <3> QED
      BY <1>3, <2>3, <3>4, <3>5
  <2>5. CASE strategy \in Strategy!Turning
    <3>1. strategy \notin Strategy!Hashing /\ Strategy!Chosen = {Strategy!RoundRobin}
      BY <2>5 DEF Strategy!Chosen, Strategy!Turning, Strategy!Hashing
    <3>2. /\ UNCHANGED last
          /\ picks' = Append(IF Len(picks) = Strategy!Round THEN Tail(picks) ELSE picks,
                             Strategy!RoundRobin)
      BY <2>1, <3>1
    <3>3. Picked
      BY <1>1, <2>2, <2>5, <3>2, TurnTaken
    <3> QED
      BY <1>3, <1>5, <2>3, <3>2, <3>3
  <2>6. CASE strategy \notin Strategy!Hashing /\ strategy \notin Strategy!Turning
    <3>1. x \in Choices
      BY <2>2, <2>6, ChosenServers
    <3>2. /\ UNCHANGED last
          /\ picks' = Append(IF Len(picks) = Strategy!Round THEN Tail(picks) ELSE picks, x)
      BY <2>1, <2>6
    <3> DEFINE n == Cardinality(Strategy!Turns(usable))
    <3>3. /\ n \in Nat \ {0} /\ Strategy!Round = n
          /\ picks \in Seq(Choices) /\ Len(picks) <= n
      BY <2>2, TurnsCounted, StrategyCounts DEF StrategyIInv, Strategy!Round
    <3> HIDE DEF n
    <3>4. picks' \in Seq(Choices) /\ Len(picks') <= n
      <4>1. CASE Len(picks) = n
        <5>1. Tail(picks) \in Seq(Choices) /\ Len(Tail(picks)) = n - 1
          BY ONLY <3>3, <4>1
        <5>2. picks' = Append(Tail(picks), x)
          BY <3>2, <3>3, <4>1
        <5> HIDE <4>1
        <5> QED
          BY ONLY <3>1, <3>3, <5>1, <5>2
      <4>2. CASE Len(picks) # n
        <5>1. picks' = Append(picks, x)
          BY <3>2, <3>3, <4>2
        <5> QED
          BY ONLY <3>1, <3>3, <4>2, <5>1
      <4> QED
        BY <4>1, <4>2
    <3>5. Picked
      BY <2>2, <2>6, <3>4 DEF n
    <3> QED
      BY <1>3, <1>5, <2>3, <3>2, <3>5
  <2> QED
    BY <2>4, <2>5, <2>6
<1>7. CASE Strategy!HealthyServersChange
  <2>1. /\ usable' \in SUBSET Choices /\ picks' = <<>> /\ UNCHANGED <<index, connections, last>>
    BY <1>7 DEF Strategy!HealthyServersChange
  <2>2. Typed
    BY <1>1, <2>1 DEF StrategyIInv
  <2>3. Picked
    <3> DEFINE T == Strategy!Turns(usable')
               n == Cardinality(T)
    <3>1. IsFiniteSet(T) /\ n \in Nat /\ (usable' # {} => n \in Nat \ {0} /\ Cycle % n = 0)
      <4>1. \A S \in SUBSET Choices :
              /\ IsFiniteSet(Strategy!Turns(S))
              /\ S # {} => /\ Cardinality(Strategy!Turns(S)) \in Nat \ {0}
                           /\ Cycle % Cardinality(Strategy!Turns(S)) = 0
        BY TurnsCounted
      <4> QED
        BY <2>1, <4>1, FS_CardinalityType
    <3> HIDE DEF T
    <3>2. picks' \in Seq(Choices) /\ Len(picks') = 0
      BY <2>1
    <3>3. ASSUME usable' # {} PROVE index' % n \in 0..(n - 1)
      BY <2>1, <3>1, <3>3, IndexAdvances DEF StrategyIInv
    <3>4. ASSUME usable' # {} PROVE PicksFollow(T, picks', index', index' % n)
      <4>1. Wrap(n, (index' % n) + 0) = index' % n
        BY <3>1, <3>3, <3>4 DEF Wrap
      <4> QED
        BY <3>2, <4>1 DEF PicksFollow
    <3> HIDE DEF n
    <3> QED
      BY <3>1, <3>2, <3>3, <3>4 DEF T, n
  <2> QED
    BY <1>3, <1>5, <2>1, <2>2, <2>3
<1>8. ASSUME NEW i \in Choices, NEW c \in Counts, Strategy!UpdateServerConnectionCount(i, c)
      PROVE  StrategyIInv'
  <2>1. /\ connections' = [connections EXCEPT ![i] = c] /\ c \in Nat
        /\ UNCHANGED <<usable, index, picks, last>>
    BY <1>8, SelectionAssumption DEF Strategy!UpdateServerConnectionCount
  <2>2. Typed
    BY <1>1, <2>1 DEF StrategyIInv
  <2>3. Picked
    BY <2>1 DEF StrategyIInv
  <2> QED
    BY <1>3, <1>5, <2>1, <2>2, <2>3
<1>9. CASE UNCHANGED Strategy!vars
  <2>1. UNCHANGED <<usable, index, picks, last, connections>>
    BY <1>9 DEF Strategy!vars
  <2>2. Typed /\ Picked
    BY <1>1, <2>1 DEF StrategyIInv
  <2> QED
    BY <1>3, <1>5, <2>1, <2>2
<1> QED
  BY <1>6, <1>7, <1>8, <1>9 DEF Strategy!Next

(* With consistent hashing, a server that is chosen is chosen also from a set *)
(* without some of the others: its virtual node stays the first.             *)
LEMMA RingCounted ==
    ASSUME StrategyIInv, NEW S \in SUBSET Choices
    PROVE  /\ Strategy!Ring(S) \in SUBSET Candidates /\ IsFiniteSet(Strategy!Ring(S))
           /\ S # {} => Strategy!Ring(S) # {}
<1>1. ASSUME NEW v \in S \X Virtual PROVE <<node[v], v[1], v[2]>> \in Candidates
  <2>1. v \in Choices \X Virtual /\ v[1] \in Choices /\ v[2] \in Virtual
    OBVIOUS
  <2>2. node[v] \in Int
    BY <2>1 DEF StrategyIInv
  <2> QED
    BY <2>1, <2>2, SelectionAssumption DEF Candidates
<1>2. IsFiniteSet(S \X Virtual)
  BY SelectionAssumption, FS_Subset, FS_Product
<1>3. [v \in S \X Virtual |-> <<node[v], v[1], v[2]>>] \in Surjection(S \X Virtual, Strategy!Ring(S))
  BY DEF Surjection, Strategy!Ring
<1>4. ASSUME S # {} PROVE S \X Virtual # {}
  <2>1. PICK i \in S, w \in Virtual : TRUE
    BY <1>4, SelectionAssumption
  <2>2. <<i, w>> \in S \X Virtual
    OBVIOUS
  <2> QED
    BY <2>2
<1> QED
  BY <1>1, <1>2, <1>3, <1>4, FS_Surjection DEF Strategy!Ring

LEMMA FewerServers ==
    ASSUME StrategyIInv, NEW A \in SUBSET Choices, NEW H \in SUBSET A,
           Strategy!ConsistentHash(A) \in H
    PROVE  Strategy!ConsistentHash(H) = Strategy!ConsistentHash(A)
<1> DEFINE After(S) == {p \in Strategy!Ring(S) : p[1] >= client}
           First(S) == IF After(S) = {} THEN Strategy!Ring(S) ELSE After(S)
<1>1. \A S \in {A, H} : /\ First(S) \in SUBSET Candidates /\ IsFiniteSet(First(S))
                        /\ First(S) # {}
                        /\ Strategy!ConsistentHash(S) = Strategy!Nth(First(S), 0)
  <2>1. ASSUME NEW S \in {A, H}
        PROVE  /\ Strategy!Ring(S) \in SUBSET Candidates /\ IsFiniteSet(Strategy!Ring(S))
               /\ Strategy!Ring(S) # {}
    BY RingCounted
  <2>2. ASSUME NEW S \in {A, H} PROVE IsFiniteSet(First(S))
    BY <2>1, FS_Subset
  <2> QED
    BY <2>1, <2>2 DEF Strategy!ConsistentHash
<1>2. \A p : p \in Strategy!Ring(H) <=> p \in Strategy!Ring(A) /\ p[2] \in H
  BY DEF Strategy!Ring
<1> DEFINE p == Place(First(A), 0)
<1>3. /\ p \in First(A) /\ Strategy!ConsistentHash(A) = p[2]
      /\ \A q \in First(A) : q = p \/ Strategy!Before(p, q)
  BY <1>1, FirstPlace
<1>4. p \in Strategy!Ring(H)
  BY <1>2, <1>3
<1>5. First(H) \in SUBSET First(A) /\ p \in First(H)
  BY <1>2, <1>3, <1>4
<1> HIDE DEF First, p
<1>6. p = Place(First(H), 0)
  BY <1>1, <1>3, <1>5, FirstPlace
<1> QED
  BY <1>1, <1>3, <1>6, FirstPlace

LEMMA StrategyIsSound ==
    StrategyIInv => Strategy!TypeOK /\ Strategy!ShareIsFair /\ Strategy!ClientStays
<1> SUFFICES ASSUME StrategyIInv
    PROVE  Strategy!TypeOK /\ Strategy!ShareIsFair /\ Strategy!ClientStays
  OBVIOUS
<1>1. Strategy!Round = Cardinality(Strategy!Turns(usable))
  BY StrategyCounts DEF Strategy!Round
<1>2. Strategy!TypeOK
  BY <1>1 DEF StrategyIInv, Strategy!TypeOK
<1>3. Strategy!ShareIsFair
  BY <1>1, RoundIsFair, StrategyCounts DEF Strategy!ShareIsFair
<1>4. ASSUME strategy \in Strategy!Hashing, usable # {}, Strategy!Kept
      PROVE  Strategy!Chosen = {last.server}
  <2>1. Strategy!Chosen = {Strategy!Hashed(usable)}
    BY <1>4 DEF Strategy!Chosen, Strategy!Turning, Strategy!Hashing
  <2>2. CASE strategy = "ip_hash"
    BY <1>4, <2>1, <2>2 DEF Strategy!Kept, StrategyIInv
  <2>3. CASE strategy # "ip_hash"
    <3>1. usable \in SUBSET last.among /\ last.server \in usable /\ last.among \in SUBSET Choices
      BY <1>4, <2>3 DEF Strategy!Kept, StrategyIInv
    <3>2. last.server = Strategy!ConsistentHash(last.among)
      BY <1>4, <2>3, <3>1 DEF StrategyIInv, Strategy!Hashed
    <3>3. Strategy!ConsistentHash(usable) = Strategy!ConsistentHash(last.among)
      BY <3>1, <3>2, FewerServers
    <3> QED
      BY <2>1, <2>3, <3>2, <3>3 DEF Strategy!Hashed
  <2> QED
    BY <2>2, <2>3
<1> QED
  BY <1>2, <1>3, <1>4 DEF Strategy!ClientStays

-----------------------------------------------------------------------------
(* The whole.  Only the subject moves, so that every part takes its own steps *)
(* or rests; the tool moves the second breaker.  The invariants of the tool   *)
(* and of the strategies are claimed while they are the subject.             *)
ServersIInv ==
    /\ PerfIInv /\ UtilsIInv /\ BalancerIInv /\ DiscoveryIInv
    /\ subject = "tool" => ToolIInv
    /\ subject = "strategy" => StrategyIInv

LEMMA PartsMove ==
    [ServersNext]_serversVars =>
        /\ [Next]_vars /\ [Utils!Next]_Utils!vars
        /\ [Balancer!Next]_Balancer!vars /\ [Discovery!Next]_Discovery!vars
        /\ UNCHANGED subject
        /\ IF subject = "tool" THEN [Tool!ToolNext]_Tool!toolVars ELSE UNCHANGED callVars
        /\ subject = "strategy" => [Strategy!Next]_Strategy!vars
<1> SUFFICES ASSUME [ServersNext]_serversVars
    PROVE  /\ [Next]_vars /\ [Utils!Next]_Utils!vars
           /\ [Balancer!Next]_Balancer!vars /\ [Discovery!Next]_Discovery!vars
           /\ UNCHANGED subject
           /\ IF subject = "tool" THEN [Tool!ToolNext]_Tool!toolVars ELSE UNCHANGED callVars
           /\ subject = "strategy" => [Strategy!Next]_Strategy!vars
  OBVIOUS
<1>1. /\ UNCHANGED utilsVars => UNCHANGED Utils!vars
      /\ UNCHANGED balancerVars => UNCHANGED Balancer!vars
      /\ UNCHANGED discoveryVars => UNCHANGED Discovery!vars
      /\ UNCHANGED strategyVars => UNCHANGED Strategy!vars
      /\ UNCHANGED <<utilsVars, callVars>> => UNCHANGED Tool!toolVars
  BY DEF utilsVars, Utils!vars, Utils!observers, balancerVars, Balancer!vars, discoveryVars,
         Discovery!vars, strategyVars, Strategy!vars, callVars, Tool!toolVars, Tool!vars,
         Tool!observers, Tool!callVars
<1>2. CASE UNCHANGED serversVars
  BY <1>1, <1>2 DEF serversVars, breakersVars, othersVars
<1>3. CASE PerfMoves(Next)
  BY <1>1, <1>3 DEF PerfMoves, Subject, othersVars
<1>4. CASE UtilsMoves(Utils!Next)
  BY <1>1, <1>4 DEF UtilsMoves, Subject, othersVars
<1>5. CASE ToolMoves(Tool!ToolNext)
  BY <1>1, <1>5, ToolMovesBreaker DEF ToolMoves, Subject, othersVars
<1>6. CASE BalancerMoves(Balancer!Next)
  BY <1>1, <1>6 DEF BalancerMoves, Subject, breakersVars
<1>7. CASE StrategyMoves(Strategy!Next)
  BY <1>1, <1>7 DEF StrategyMoves, Subject, breakersVars
<1>8. CASE DiscoveryMoves(Discovery!Next)
  BY <1>1, <1>8 DEF DiscoveryMoves, Subject, breakersVars
<1> QED
  BY <1>2, <1>3, <1>4, <1>5, <1>6, <1>7, <1>8 DEF ServersNext

LEMMA PartsBegin ==
    ServersInit => Init /\ Utils!Init /\ Balancer!Init /\ Discovery!Init /\ Tool!ToolInit
                       /\ (subject = "strategy" => Strategy!Init)
<1>1. Tool!ToolInit => Utils!Init
  BY DEF Tool!ToolInit, Tool!Init, Utils!Init, Tool!NoFailure, Utils!NoFailure
<1> QED
  BY <1>1 DEF ServersInit

(* While another part is the subject, its rest keeps what is claimed of it.  *)
LEMMA ServersStep == ServersIInv /\ [ServersNext]_serversVars => ServersIInv'
<1> SUFFICES ASSUME ServersIInv, [ServersNext]_serversVars PROVE ServersIInv'
  OBVIOUS
<1>1. PerfIInv' /\ UtilsIInv' /\ BalancerIInv' /\ DiscoveryIInv'
  BY PartsMove, PerfStep, UtilsStep, BalancerStep, DiscoveryStep DEF ServersIInv
<1>2. subject = "tool" => ToolIInv'
  BY PartsMove, ToolStep DEF ServersIInv
<1>3. subject = "strategy" => StrategyIInv'
  BY PartsMove, StrategyStep DEF ServersIInv
<1> QED
  BY <1>1, <1>2, <1>3, PartsMove DEF ServersIInv

THEOREM ServersInvariant == ServersSpec => []ServersIInv
<1>1. ServersInit => ServersIInv
  BY PartsBegin, PerfInit, UtilsInit, BalancerInit, DiscoveryInit, ToolInitHolds, StrategyInit
     DEF ServersIInv
<1> QED
  BY <1>1, ServersStep, PTL DEF ServersSpec

(* All types, of every part; and the server runs a call of a tool at most     *)
(* once per endpoint and attempt.                                            *)
THEOREM ServersTypes == ServersSpec => []AllTypesOK
<1>1. ServersIInv => AllTypesOK
  BY StrategyIsSound
     DEF ServersIInv, AllTypesOK, PerfIInv, UtilsIInv, BalancerIInv, DiscoveryIInv, ToolIInv
<1> QED
  BY <1>1, ServersInvariant, PTL

(* Servers are checked exactly while the balancer runs, a service that is gone *)
(* is not found, a round is fair, and a client keeps its server.             *)
THEOREM ServersChoices == ServersSpec => []ChoicesAreSound
<1>1. ServersIInv => ChoicesAreSound
  BY StrategyIsSound DEF ServersIInv, ChoicesAreSound, BalancerIInv, DiscoveryIInv
<1> QED
  BY <1>1, ServersInvariant, PTL

(* Each breaker is, within the whole, the breaker of its own module.         *)
LEMMA BreakersWithin == ServersSpec => Spec /\ Utils!Spec
  BY PartsBegin, PartsMove, PTL DEF ServersSpec, Spec, Utils!Spec

(* TransitionsAreEarned, OpenRejects and the promise of both breakers, in     *)
(* every behaviour of the whole.                                             *)
THEOREM ServersTransitions == ServersSpec => TransitionsAreEarned
  BY BreakersWithin, PerfChangesEarned, PTL

THEOREM ServersReject == ServersSpec => OpenRejects
  BY BreakersWithin, OpenCircuitRejects, PTL

THEOREM ServersPromise == ServersSpec => BothKeepPromise
  BY BreakersWithin, PerfKeepsPromise, UtilsKeepsPromise, PTL DEF BothKeepPromise

(* The circuit of a tool opens only after its failures, a server changes its  *)
(* status only by the checks that earn it, and a call that has its 200 is not  *)
(* run again.                                                                *)
THEOREM ServersChanges == ServersSpec => ChangesAreEarned
<1>1. ServersIInv /\ [ServersNext]_serversVars =>
        [\A c \in Callers : call[c].ok => served'[c] = served[c]]_Tool!toolVars
  <2> SUFFICES ASSUME ServersIInv, [ServersNext]_serversVars
      PROVE  \A c \in Callers : call[c].ok => served'[c] = served[c]
    OBVIOUS
  <2>1. CASE subject = "tool"
    BY <2>1, PartsMove, ToolStep DEF ServersIInv
  <2>2. CASE subject # "tool"
    BY <2>2, PartsMove DEF callVars
  <2> QED
    BY <2>1, <2>2
<1>2. ServersIInv /\ [ServersNext]_serversVars =>
        [\A c \in Balancer!Checkers : checker[c].status # checker'[c].status =>
            \/ checker'[c].status = "healthy" /\ outcomes'[c] = [ok |-> TRUE, length |-> RecoveryThreshold]
            \/ checker'[c].status = "unhealthy" /\ outcomes'[c] = [ok |-> FALSE, length |-> FailoverThreshold]]_Balancer!vars
  BY PartsMove, BalancerStep DEF ServersIInv
<1>3. ServersSpec => Tool!StopsAtSuccess
  BY <1>1, ServersInvariant, PTL DEF ServersSpec, Tool!StopsAtSuccess
<1>4. ServersSpec => Balancer!StatusIsEarned
  BY <1>2, ServersInvariant, PTL DEF ServersSpec, Balancer!StatusIsEarned
<1> QED
  BY <1>3, <1>4, BreakersWithin, UtilsOpening, PTL DEF ChangesAreEarned
=============================================================================
