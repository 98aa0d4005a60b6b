--------------------------- MODULE Workflows_proofs ---------------------------
(***************************************************************************)
(* What holds of the composition subsystem (MCWorkflows) for workflows of    *)
(* any number of steps, with any dependencies, kinds, parts and attempts,    *)
(* any set of definitions handed to registration, and any number of          *)
(* executions, clients and versions: each part has an inductive invariant of *)
(* its own, and together they are the invariant of the composition.          *)
(***************************************************************************)
EXTENDS MCWorkflows, FiniteSetTheorems, SequenceTheorems, TLAPS
-----------------------------------------------------------------------------
(* One execution of one workflow, composition/engine.py.                      *)

(* The coroutine of a step and its entry in step_statuses go together.       *)
PhaseFits ==
    \A s \in Steps :
        /\ phase[s] = "idle" <=> stepStatus[s] = "pending"
        /\ phase[s] \in {"calling", "backoff", "parts"}
               <=> stepStatus[s] = "running"
        /\ phase[s] = "returned" <=> stepStatus[s] \in {"completed", "skipped"}
        /\ phase[s] = "raised" <=> stepStatus[s] = "failed"

(* The workflow's status follows the main coroutine.                         *)
StatusFits ==
    /\ status = "idle" => pc = "scan" /\ executed = {}
    /\ status = "running" <=> pc # "done" /\ status # "idle"
    /\ status = "failed" <=> error # "none"
    /\ status = "completed" => executed = Steps

(* Outside the current wave a step is either executed or not yet entered.    *)
WaveFits ==
    /\ \A s \in wave : wf.deps[s] \subseteq executed
    /\ pc # "done" =>
           \A s \in Steps : s \in executed \/ s \in wave
                                \/ stepStatus[s] = "pending"
    /\ pc # "wave" => wave = {}

(* The sequential loop has executed every earlier step of the wave before it *)
(* enters the next.                                                          *)
SequentialFits ==
    pc = "wave" /\ ~wf.parallel =>
        \A s \in wave : stepStatus[s] # "pending" =>
            \A r \in wave : r < s => r \in executed

(* Parts run only under a step that waits for them; a loop has dealt with    *)
(* the earlier bodies before it starts the next.                             *)
PartFits(s, i) ==
    /\ i \notin PartsOf(s) => partStatus[s][i] = "none"
    /\ partStatus[s][i] # "none" => phase[s] # "idle"
    /\ partStatus[s][i] = "running" => phase[s] = "parts"
    /\ partStatus[s][i] # "none" /\ wf.kind[s] = "loop" =>
           \A j \in 1..MaxParts : j < i =>
               \/ partStatus[s][j] = "completed"
               \/ partStatus[s][j] = "failed" /\ wf.lenient[s]
    /\ phase[s] = "parts" => wf.kind[s] \in {"parallel", "loop"}
    /\ phase[s] \in {"calling", "backoff"} => wf.kind[s] \in {"tool", "single"}
    /\ /\ stepStatus[s] = "completed" /\ i \in PartsOf(s)
       /\ \/ wf.kind[s] = "parallel"
          \/ wf.kind[s] = "loop" /\ ~wf.lenient[s]
       => partStatus[s][i] = "completed"

PartsFit == \A s \in Steps, i \in 1..MaxParts : PartFits(s, i)

(* Calls of a tool step, by phase.                                           *)
CallsOf(s) ==
    /\ phase[s] = "backoff" => wf.kind[s] = "tool"
    /\ wf.kind[s] = "tool" =>
        /\ calls[s] <= wf.attempts[s]
        /\ phase[s] = "idle" => calls[s] = 0
        /\ phase[s] = "calling" => calls[s] > 0
        /\ phase[s] = "backoff" => calls[s] \in 1..(wf.attempts[s] - 1)
        /\ phase[s] = "parts" => FALSE
        /\ stepStatus[s] = "failed" => calls[s] \in {0, wf.attempts[s]}
        /\ stepStatus[s] = "completed" /\ wf.attempts[s] > 0 => calls[s] > 0

CallsFit == \A s \in Steps : CallsOf(s)

(* What concerns waves, steps and the outcome, parts and calls aside.        *)
ControlFits ==
    /\ DependenciesFirst
    /\ ExecutedSucceeded
    /\ NoOrphans
    /\ NoFalseCycle
    /\ PhaseFits
    /\ StatusFits
    /\ WaveFits
    /\ SequentialFits

IInv ==
    /\ TypeOK
    /\ Acyclic(wf)
    /\ ControlFits
    /\ PartsFit
    /\ CallsFit

(* A definition in Workflows has the fields of a WorkflowDefinition.         *)
LEMMA DefinitionFields ==
    ASSUME NEW w \in Workflows
    PROVE  /\ w.deps \in [Steps -> SUBSET (Steps \cup {NoStep})]
           /\ w.parallel \in BOOLEAN
           /\ w.kind \in [Steps -> Kinds]
           /\ w.guarded \in [Steps -> BOOLEAN]
           /\ w.attempts \in [Steps -> 0..MaxAttempts]
           /\ w.parts \in [Steps -> 0..MaxParts]
           /\ w.lenient \in [Steps -> BOOLEAN]
  BY WorkflowsAssumption DEF WorkflowDefinition

(* The ranges of what the workflow and the invariant say of one step.        *)
LEMMA StepRanges ==
    ASSUME TypeOK, NEW s \in Steps
    PROVE  /\ wf.deps[s] \subseteq Steps \cup {NoStep}
           /\ wf.kind[s] \in Kinds
           /\ wf.attempts[s] \in 0..MaxAttempts
           /\ wf.parts[s] \in 0..MaxParts
           /\ PartsOf(s) \subseteq 1..MaxParts
           /\ stepStatus[s] \in StepStatuses
           /\ phase[s] \in Phases
           /\ calls[s] \in 0..MaxAttempts
           /\ partStatus[s] \in [1..MaxParts -> PartStatuses]
  BY DefinitionFields, MaxPartsAssumption, MaxAttemptsAssumption
     DEF TypeOK, PartsOf

(* No step changes the definition that is being executed.                    *)
LEMMA WorkflowFixed == [Next]_vars => wf' = wf
  BY DEF Next, Engine, Answer, Control, vars, Terminated, ExecuteWorkflow,
         PickWave, ReportCircular, CompleteWorkflow, GatherWave, SkipStep,
         RejectStep, CompleteAtOnce, StartActivity, StartParts, RetryCall,
         StartPart, PartsSucceed, PartsFail, AdvanceSequential,
         AbortSequential, CallReturns, CallRaises, CallRaisesEarly,
         PartReturns, PartRaises

(* The call counter of a step follows its phase.                             *)
LEMMA CallsStep == IInv /\ [Next]_vars => CallsFit'
<1> SUFFICES ASSUME IInv, [Next]_vars, NEW r \in Steps PROVE CallsOf(r)'
  BY DEF CallsFit
<1> USE MaxAttemptsAssumption DEF CallsOf
<1>0. /\ TypeOK /\ CallsOf(r) /\ wf' = wf /\ r \in Nat
      /\ wf.attempts[r] \in 0..MaxAttempts /\ calls[r] \in 0..MaxAttempts
      /\ phase[r] = "idle" <=> stepStatus[r] = "pending"
      /\ phase[r] \in {"calling", "backoff", "parts"} <=> stepStatus[r] = "running"
  BY StepRanges, WorkflowFixed, NumStepsAssumption DEF IInv, ControlFits, CallsFit, PhaseFits, Steps
<1>1. ASSUME NEW s \in Steps,
             SkipStep(s) \/ RejectStep(s) \/ CompleteAtOnce(s)
      PROVE  CallsOf(r)'
  BY <1>0, <1>1 DEF SkipStep, RejectStep, CompleteAtOnce, Reached, Immediate,
                    StepEnds, TypeOK
<1>2. ASSUME NEW s \in Steps, StartActivity(s) PROVE CallsOf(r)'
  BY <1>0, <1>2 DEF StartActivity, Reached, Immediate, TypeOK
<1>3. ASSUME NEW s \in Steps, StartParts(s) PROVE CallsOf(r)'
  BY <1>0, <1>3 DEF StartParts, Reached, TypeOK
<1>4. ASSUME NEW s \in Steps,
             CallReturns(s) \/ CallRaises(s) \/ CallRaisesEarly(s)
      PROVE  CallsOf(r)'
  BY <1>0, <1>4 DEF CallReturns, CallRaises, CallRaisesEarly, StepEnds,
                    LastAttempt, TypeOK
<1>5. ASSUME NEW s \in Steps, RetryCall(s) PROVE CallsOf(r)'
  BY <1>0, <1>5 DEF RetryCall, NextCall, TypeOK
<1>6. ASSUME NEW s \in Steps, PartsSucceed(s) \/ PartsFail(s)
      PROVE  CallsOf(r)'
  BY <1>0, <1>6 DEF PartsSucceed, PartsFail, StepEnds, TypeOK
<1>7. CASE PickWave
  <2>1. r \in Ready => phase[r] = "idle"
    BY <1>7 DEF PickWave, Scanning, IInv, ControlFits, WaveFits, PhaseFits, Ready
  <2> QED
    BY <1>0, <1>7, <2>1 DEF PickWave
<1>8. CASE /\ UNCHANGED <<stepStatus, phase, calls>>
  BY <1>0, <1>8
<1> QED
  BY <1>1, <1>2, <1>3, <1>4, <1>5, <1>6, <1>7, <1>8
     DEF Next, Engine, Answer, Control, vars, Terminated, ExecuteWorkflow,
         ReportCircular, CompleteWorkflow, GatherWave, AdvanceSequential,
         AbortSequential, StartPart, PartReturns, PartRaises

(* Sub-steps and bodies run only under a step that waits for them, a loop    *)
(* runs its bodies in turn, and a step answers for its parts.                *)
LEMMA PartsStep == IInv /\ [Next]_vars => PartsFit'
<1> SUFFICES ASSUME IInv, [Next]_vars, NEW r \in Steps, NEW k \in 1..MaxParts
             PROVE  PartFits(r, k)'
  BY DEF PartsFit
<1> DEFINE Parts == 1..MaxParts
           Settled(j) == \/ partStatus[r][j] = "completed"
                         \/ partStatus[r][j] = "failed" /\ wf.lenient[r]
           Strict == \/ wf.kind[r] = "parallel"
                     \/ wf.kind[r] = "loop" /\ ~wf.lenient[r]
<1>0. /\ TypeOK /\ wf' = wf /\ PartsOf(r)' = PartsOf(r)
      /\ \A j \in Parts : PartFits(r, j)
      /\ wf.kind[r] \in Kinds /\ MaxParts \in Nat
      /\ PartsOf(r) = 1..wf.parts[r] /\ wf.parts[r] \in 0..MaxParts
      /\ phase[r] = "idle" <=> stepStatus[r] = "pending"
      /\ phase[r] \in {"calling", "backoff", "parts"} <=> stepStatus[r] = "running"
  BY StepRanges, WorkflowFixed, MaxPartsAssumption
     DEF IInv, ControlFits, PartsFit, PhaseFits, PartsOf
<1>1. ASSUME NEW s \in Steps,
             SkipStep(s) \/ RejectStep(s) \/ CompleteAtOnce(s)
      PROVE  PartFits(r, k)'
  BY <1>0, <1>1 DEF SkipStep, RejectStep, CompleteAtOnce, Reached, Immediate,
                    StepEnds, PartFits, TypeOK
<1>2. ASSUME NEW s \in Steps, StartActivity(s) \/ StartParts(s)
      PROVE  PartFits(r, k)'
  BY <1>0, <1>2 DEF StartActivity, StartParts, Reached, PartFits, TypeOK
<1>3. ASSUME NEW s \in Steps,
             \/ CallReturns(s) \/ CallRaises(s) \/ CallRaisesEarly(s)
             \/ RetryCall(s)
      PROVE  PartFits(r, k)'
  <2>1. /\ phase[s] \in {"calling", "backoff"} /\ partStatus' = partStatus
        /\ r = s => wf.kind[r] \in {"tool", "single"}
    BY <1>0, <1>3 DEF CallReturns, CallRaises, CallRaisesEarly, RetryCall,
                      PartFits
  <2>2. /\ r # s => phase'[r] = phase[r] /\ stepStatus'[r] = stepStatus[r]
        /\ phase'[s] \in {"calling", "backoff", "returned", "raised"}
    BY <1>0, <1>3 DEF CallReturns, CallRaises, CallRaisesEarly, RetryCall,
                      StepEnds, TypeOK
  <2> QED
    BY <1>0, <2>1, <2>2 DEF PartFits
<1>4. ASSUME NEW s \in Steps, PartsSucceed(s) PROVE PartFits(r, k)'
  <2>1. r = s => /\ \A j \in PartsOf(r) : partStatus[r][j] \in {"completed", "failed"}
                 /\ Strict => \A j \in PartsOf(r) : partStatus[r][j] = "completed"
    BY <1>4 DEF PartsSucceed, PartsEnded, BrokenParts, Tolerated
  <2>2. /\ phase[s] = "parts" /\ partStatus' = partStatus
        /\ r # s => phase'[r] = phase[r] /\ stepStatus'[r] = stepStatus[r]
        /\ phase'[s] = "returned" /\ stepStatus'[s] = "completed"
    BY <1>0, <1>4 DEF PartsSucceed, StepEnds, TypeOK
  <2>3. r = s => partStatus[r][k] # "running"
    BY <1>0, <2>1 DEF PartFits
  <2> QED
    BY <1>0, <2>1, <2>2, <2>3 DEF PartFits
<1>5. ASSUME NEW s \in Steps, PartsFail(s) PROVE PartFits(r, k)'
  <2>1. /\ phase[s] = "parts" /\ partStatus' = partStatus
        /\ r # s => phase'[r] = phase[r] /\ stepStatus'[r] = stepStatus[r]
        /\ phase'[s] = "raised" /\ stepStatus'[s] = "failed"
    BY <1>0, <1>5 DEF PartsFail, StepEnds, TypeOK
  <2>2. ASSUME r = s PROVE partStatus[r][k] # "running"
    <3>1. CASE wf.kind[s] = "parallel"
      BY <1>0, <1>5, <2>2, <3>1 DEF PartsFail, PartsEnded, PartFits
    <3>2. CASE wf.kind[s] = "loop"
      <4>1. PICK b \in PartsOf(r) : partStatus[r][b] = "failed" /\ ~wf.lenient[r]
        BY <1>5, <2>2, <3>2 DEF PartsFail, BrokenParts
      <4>2. \A j \in Parts : j < b => partStatus[r][j] = "completed"
        BY <1>0, <2>2, <3>2, <4>1 DEF PartFits
      <4>3. k > b => partStatus[r][k] = "none"
        BY <1>0, <2>2, <3>2, <4>1 DEF PartFits
      <4> QED
        BY <1>0, <4>1, <4>2, <4>3
    <3> QED
      BY <1>5, <3>1, <3>2 DEF PartsFail
  <2> QED
    BY <1>0, <2>1, <2>2 DEF PartFits
<1>6. ASSUME NEW s \in Steps, NEW i \in PartsOf(s), StartPart(s, i)
      PROVE  PartFits(r, k)'
  <2>1. /\ UNCHANGED <<stepStatus, phase>>
        /\ phase[s] = "parts" /\ partStatus[s][i] = "none"
        /\ s # r \/ i # k => partStatus'[r][k] = partStatus[r][k]
        /\ s # r => partStatus'[r] = partStatus[r]
        /\ s = r => /\ partStatus'[r][i] = "running" /\ i \in Parts
                    /\ \A j \in Parts : j # i => partStatus'[r][j] = partStatus[r][j]
        /\ s = r /\ wf.kind[r] = "loop" => \A j \in 1..(i - 1) : Settled(j)
    BY <1>0, <1>6 DEF StartPart, PartReached, TypeOK
  <2> QED
    BY <1>0, <2>1 DEF PartFits
<1>7. ASSUME NEW s \in Steps, NEW i \in PartsOf(s),
             PartReturns(s, i) \/ PartRaises(s, i)
      PROVE  PartFits(r, k)'
  <2>1. /\ UNCHANGED <<stepStatus, phase>>
        /\ partStatus[s][i] = "running"
        /\ s # r => partStatus'[r] = partStatus[r]
        /\ s = r => /\ i \in Parts
                    /\ partStatus'[r][i] \in {"completed", "failed"}
                    /\ \A j \in Parts : j # i => partStatus'[r][j] = partStatus[r][j]
    BY <1>0, <1>7 DEF PartReturns, PartRaises, TypeOK
  <2> QED
    BY <1>0, <2>1 DEF PartFits
<1>8. CASE PickWave
  <2>1. r \in Ready => phase[r] = "idle"
    BY <1>8 DEF PickWave, Scanning, IInv, ControlFits, WaveFits, PhaseFits, Ready
  <2> QED
    BY <1>0, <1>8, <2>1 DEF PickWave, PartFits
<1>9. CASE UNCHANGED <<stepStatus, partStatus, phase>>
  BY <1>0, <1>9 DEF PartFits
<1> QED
  BY <1>1, <1>2, <1>3, <1>4, <1>5, <1>6, <1>7, <1>8, <1>9
     DEF Next, Engine, Answer, Control, vars, Terminated, ExecuteWorkflow,
         ReportCircular, CompleteWorkflow, GatherWave, AdvanceSequential,
         AbortSequential

(* The entry of step s and its coroutine change together, nothing else does. *)
Move(s, st, ph) ==
    /\ stepStatus' = [stepStatus EXCEPT ![s] = st]
    /\ phase' = [phase EXCEPT ![s] = ph]
    /\ UNCHANGED <<wf, status, error, executed, recorded, pc, wave>>

Fitting(st, ph) ==
    \/ st = "running" /\ ph \in {"calling", "backoff", "parts"}
    \/ st \in {"completed", "skipped"} /\ ph = "returned"
    \/ st = "failed" /\ ph = "raised"

(* Entering a step that has been reached keeps the control invariant.        *)
LEMMA EnterKeeps ==
    ASSUME TypeOK, ControlFits, NEW s \in Steps, Reached(s),
           NEW st, NEW ph, Fitting(st, ph), Move(s, st, ph)
    PROVE  ControlFits'
<1> USE StepRanges DEF ControlFits, TypeOK, Move, Fitting, Reached
<1>1. DependenciesFirst'
  BY DEF DependenciesFirst, WaveFits
<1>2. ExecutedSucceeded'
  BY DEF ExecutedSucceeded, PhaseFits
<1>3. NoOrphans' /\ NoFalseCycle' /\ StatusFits'
  BY DEF NoOrphans, NoFalseCycle, StatusFits
<1>4. PhaseFits'
  BY DEF PhaseFits
<1>5. WaveFits'
  BY DEF WaveFits
<1>6. SequentialFits'
  BY DEF SequentialFits
<1> QED
  BY <1>1, <1>2, <1>3, <1>4, <1>5, <1>6

(* So does a change of a step that is under way.                             *)
LEMMA ProgressKeeps ==
    ASSUME TypeOK, ControlFits, NEW s \in Steps, stepStatus[s] = "running",
           NEW st, NEW ph, Fitting(st, ph), Move(s, st, ph)
    PROVE  ControlFits'
<1> USE StepRanges DEF ControlFits, TypeOK, Move, Fitting
<1>1. DependenciesFirst'
  BY DEF DependenciesFirst
<1>2. ExecutedSucceeded'
  BY DEF ExecutedSucceeded
<1>3. pc # "done"
  BY DEF NoOrphans, PhaseFits
<1>4. NoOrphans' /\ NoFalseCycle' /\ StatusFits'
  BY <1>3 DEF NoOrphans, NoFalseCycle, StatusFits
<1>5. PhaseFits'
  BY DEF PhaseFits
<1>6. WaveFits'
  BY DEF WaveFits
<1>7. SequentialFits'
  BY DEF SequentialFits
<1> QED
  BY <1>1, <1>2, <1>4, <1>5, <1>6, <1>7

(* Scheduling, the waves and the outcome: dependencies first, no orphan, no  *)
(* false alarm, and the books that these rest on.                            *)
LEMMA ControlStep == IInv /\ [Next]_vars => ControlFits'
<1> SUFFICES ASSUME IInv, [Next]_vars PROVE ControlFits'
  OBVIOUS
<1>0. TypeOK /\ ControlFits /\ wf' = wf
  BY WorkflowFixed DEF IInv
<1>1. ASSUME NEW s \in Steps,
             \/ SkipStep(s) \/ RejectStep(s) \/ CompleteAtOnce(s)
             \/ StartActivity(s) \/ StartParts(s)
      PROVE  ControlFits'
  <2>1. Reached(s) /\ \E st, ph : Fitting(st, ph) /\ Move(s, st, ph)
    BY <1>1 DEF SkipStep, RejectStep, CompleteAtOnce, StartActivity,
                StartParts, StepEnds, Move, Fitting
  <2> QED
    BY <1>0, <2>1, EnterKeeps
<1>2. ASSUME NEW s \in Steps,
             \/ CallReturns(s) \/ CallRaises(s) \/ CallRaisesEarly(s)
             \/ RetryCall(s) \/ PartsSucceed(s) \/ PartsFail(s)
      PROVE  ControlFits'
  <2>1. phase[s] \in {"calling", "backoff", "parts"}
    BY <1>2 DEF CallReturns, CallRaises, CallRaisesEarly, RetryCall,
                PartsSucceed, PartsFail
  <2>2. stepStatus[s] = "running"
    BY <1>0, <2>1 DEF ControlFits, PhaseFits
  <2>3. \E st, ph : Fitting(st, ph) /\ Move(s, st, ph)
    <3>1. CASE CallReturns(s) \/ CallRaises(s) \/ PartsSucceed(s) \/ PartsFail(s)
      BY <3>1 DEF CallReturns, CallRaises, PartsSucceed, PartsFail, StepEnds,
                  Move, Fitting
    <3>2. CASE CallRaisesEarly(s) \/ RetryCall(s)
      <4>1. stepStatus = [stepStatus EXCEPT ![s] = "running"]
        BY <1>0, <2>2 DEF TypeOK
      <4>2. \E ph \in {"calling", "backoff"} : Move(s, "running", ph)
        BY <3>2, <4>1 DEF CallRaisesEarly, RetryCall, Move
      <4> QED
        BY <4>2 DEF Fitting
    <3> QED
      BY <1>2, <3>1, <3>2
  <2> QED
    BY <1>0, <2>2, <2>3, ProgressKeeps
<1>3. ASSUME NEW s \in Steps, NEW i \in PartsOf(s),
             StartPart(s, i) \/ PartReturns(s, i) \/ PartRaises(s, i)
      PROVE  ControlFits'
  <2>1. UNCHANGED <<wf, status, error, stepStatus, executed, recorded, pc,
                    wave, phase>>
    BY <1>3 DEF StartPart, PartReturns, PartRaises
  <2>2. phase[s] = "parts"
    BY <1>0, <1>3, StepRanges
       DEF StartPart, PartReturns, PartRaises, PartReached, IInv, PartsFit,
           PartFits
  <2>3. pc # "done"
    BY <1>0, <2>2 DEF ControlFits, NoOrphans
  <2> QED
    BY <1>0, <2>1, <2>3
       DEF ControlFits, DependenciesFirst, ExecutedSucceeded, NoOrphans,
           NoFalseCycle, PhaseFits, StatusFits, WaveFits, SequentialFits
<1>4. CASE ExecuteWorkflow \/ PickWave \/ CompleteWorkflow
  <2> USE <1>0, <1>4
      DEF ExecuteWorkflow, PickWave, CompleteWorkflow, Scanning, ControlFits,
          TypeOK
  <2>1. DependenciesFirst' /\ ExecutedSucceeded' /\ NoFalseCycle'
    BY DEF DependenciesFirst, ExecutedSucceeded, NoFalseCycle
  <2>2. NoOrphans'
    BY DEF NoOrphans, PhaseFits, WaveFits, ExecutedSucceeded, StatusFits, IInv,
           PartsFit, PartFits
  <2>3. PhaseFits'
    BY DEF PhaseFits, WaveFits, Ready
  <2>4. StatusFits'
    BY DEF StatusFits
  <2>5. WaveFits' /\ SequentialFits'
    BY DEF WaveFits, SequentialFits, Ready
  <2> QED
    BY <2>1, <2>2, <2>3, <2>4, <2>5
<1>5. CASE ReportCircular
  <2> USE <1>0, <1>5 DEF ReportCircular, Abort, Scanning, ControlFits, TypeOK
  <2>1. \A s \in Steps \ executed : stepStatus[s] = "pending"
    BY DEF WaveFits
  <2>2. NoOrphans'
    BY <2>1 DEF NoOrphans, PhaseFits, ExecutedSucceeded, IInv, PartsFit, PartFits
  <2>3. NoFalseCycle'
    <3> SUFFICES ASSUME \A s \in Steps : NoStep \notin wf.deps[s] PROVE FALSE
      BY DEF NoFalseCycle
    <3> DEFINE Remaining == Steps \ executed
    <3>1. Remaining # {} /\ Remaining \in SUBSET Steps
      OBVIOUS
    <3>2. \A s \in Remaining : wf.deps[s] \cap Remaining # {}
      BY StepRanges DEF Ready
    <3> QED
      BY <3>1, <3>2 DEF IInv, Acyclic
  <2>4. DependenciesFirst' /\ ExecutedSucceeded' /\ PhaseFits' /\ StatusFits'
          /\ WaveFits' /\ SequentialFits'
    BY DEF DependenciesFirst, ExecutedSucceeded, PhaseFits, StatusFits,
           WaveFits, SequentialFits
  <2> QED
    BY <2>2, <2>3, <2>4
<1>6. CASE GatherWave
  <2> USE <1>0, <1>6 DEF GatherWave, ControlFits, TypeOK
  <2> DEFINE Kept == {s \in wave : \A r \in Raised : s < r}
  <2>1. /\ \A s \in wave : phase[s] \in {"returned", "raised"}
        /\ Kept \subseteq wave /\ \A s \in Kept : phase[s] = "returned"
        /\ Raised = {} => Kept = wave
    BY DEF Ended, Raised, Steps
  <2>2. ExecutedSucceeded' /\ DependenciesFirst'
    BY <2>1 DEF Record, ExecutedSucceeded, DependenciesFirst, PhaseFits
  <2>3. NoOrphans'
    BY <2>1 DEF Abort, NoOrphans, WaveFits, ExecutedSucceeded, PhaseFits, IInv,
                PartsFit, PartFits
  <2>4. NoFalseCycle' /\ PhaseFits'
    BY DEF Abort, NoFalseCycle, PhaseFits
  <2>5. StatusFits'
    BY DEF Abort, StatusFits, Record
  <2>6. WaveFits' /\ SequentialFits'
    BY <2>1 DEF Abort, Record, WaveFits, SequentialFits
  <2> QED
    BY <2>2, <2>3, <2>4, <2>5, <2>6
<1>7. ASSUME NEW s \in Steps, AdvanceSequential(s) PROVE ControlFits'
  <2> USE <1>0, <1>7 DEF AdvanceSequential, Record, ControlFits, TypeOK
  <2>1. ExecutedSucceeded' /\ DependenciesFirst'
    BY DEF ExecutedSucceeded, DependenciesFirst, PhaseFits
  <2>2. NoOrphans' /\ NoFalseCycle' /\ PhaseFits' /\ StatusFits'
    BY DEF NoOrphans, NoFalseCycle, PhaseFits, StatusFits
  <2>3. WaveFits' /\ SequentialFits'
    BY DEF WaveFits, SequentialFits
  <2> QED
    BY <2>1, <2>2, <2>3
<1>8. ASSUME NEW s \in Steps, AbortSequential(s) PROVE ControlFits'
  <2> USE <1>0, <1>8 DEF AbortSequential, Abort, ControlFits, TypeOK
  <2>1. \A r \in wave : r < s => phase[r] = "returned"
    BY DEF SequentialFits, ExecutedSucceeded, PhaseFits
  <2>2. \A r \in wave : s < r => stepStatus[r] = "pending"
    BY DEF SequentialFits, ExecutedSucceeded, PhaseFits
  <2>3. \A r \in wave : r < s \/ s < r \/ r = s
    BY DEF Steps
  <2>4. \A r \in Steps : phase[r] \in {"idle", "returned", "raised"}
    BY <2>1, <2>2, <2>3 DEF WaveFits, ExecutedSucceeded, PhaseFits
  <2>5. NoOrphans'
    BY <2>4 DEF NoOrphans, IInv, PartsFit, PartFits
  <2>6. DependenciesFirst' /\ ExecutedSucceeded' /\ NoFalseCycle' /\ PhaseFits'
          /\ StatusFits' /\ WaveFits' /\ SequentialFits'
    BY DEF DependenciesFirst, ExecutedSucceeded, NoFalseCycle, PhaseFits,
           StatusFits, WaveFits, SequentialFits
  <2> QED
    BY <2>5, <2>6
<1>9. CASE UNCHANGED vars
  BY <1>0, <1>9
     DEF vars, ControlFits, DependenciesFirst, ExecutedSucceeded, NoOrphans,
         NoFalseCycle, PhaseFits, StatusFits, WaveFits, SequentialFits
<1> QED
  BY <1>1, <1>2, <1>3, <1>4, <1>5, <1>6, <1>7, <1>8, <1>9
     DEF Next, Engine, Answer, Control, Terminated

(* The inductive invariant holds initially.                                  *)
LEMMA InitIInv == Init => IInv
<1> SUFFICES ASSUME Init PROVE IInv
  OBVIOUS
<1> USE NumStepsAssumption, MaxPartsAssumption, MaxAttemptsAssumption
     DEF Init, Steps
<1>1. wf \in Workflows /\ Acyclic(wf)
  BY DEF Valid
<1>2. TypeOK
  BY <1>1 DEF TypeOK, StepStatuses, PartStatuses, Phases
<1>3. PartsFit
  BY <1>1, DefinitionFields DEF PartsFit, PartFits, PartsOf
<1>4. CallsFit
  BY <1>1, DefinitionFields DEF CallsFit, CallsOf
<1> QED
  BY <1>1, <1>2, <1>3, <1>4 DEF IInv, ControlFits, DependenciesFirst, ExecutedSucceeded, NoOrphans,
     NoFalseCycle, PhaseFits, StatusFits, WaveFits, SequentialFits
(* Every action keeps the types.                                             *)
LEMMA TypeStep == IInv /\ [Next]_vars => TypeOK'
<1> SUFFICES ASSUME IInv, [Next]_vars PROVE TypeOK'
  OBVIOUS
<1>0. TypeOK /\ CallsFit
  BY DEF IInv
<1>a. \A s \in Steps : /\ wf.attempts[s] \in 0..MaxAttempts
                       /\ calls[s] \in 0..MaxAttempts
  BY <1>0, StepRanges
<1> USE DEF TypeOK, StepStatuses, PartStatuses, Phases
<1>1. ASSUME NEW s \in Steps,
             \/ SkipStep(s) \/ RejectStep(s) \/ CompleteAtOnce(s)
             \/ CallReturns(s) \/ CallRaises(s) \/ CallRaisesEarly(s)
             \/ StartParts(s) \/ PartsSucceed(s) \/ PartsFail(s)
      PROVE  TypeOK'
  BY <1>0, <1>1
     DEF SkipStep, RejectStep, CompleteAtOnce, CallReturns, CallRaises,
         CallRaisesEarly, StartParts, PartsSucceed, PartsFail, StepEnds
<1>2. ASSUME NEW s \in Steps, StartActivity(s) PROVE TypeOK'
  <2>1. wf.kind[s] = "tool" => 1 \in 0..MaxAttempts
    BY <1>a, <1>2, MaxAttemptsAssumption DEF StartActivity, Immediate
  <2>2. (IF wf.kind[s] = "tool" THEN 1 ELSE 0) \in 0..MaxAttempts
    BY <2>1, MaxAttemptsAssumption
  <2> QED
    BY <1>0, <1>2, <2>2 DEF StartActivity
<1>3. ASSUME NEW s \in Steps, RetryCall(s) PROVE TypeOK'
  <2>1. NextCall(s) \in 0..MaxAttempts
    BY <1>0, <1>a, <1>3, MaxAttemptsAssumption DEF RetryCall, NextCall, CallsFit,
       CallsOf
  <2> QED
    BY <1>0, <1>3, <2>1 DEF RetryCall
<1>4. ASSUME NEW s \in Steps, NEW i \in PartsOf(s),
             StartPart(s, i) \/ PartReturns(s, i) \/ PartRaises(s, i)
      PROVE  TypeOK'
  <2>1. PICK st \in PartStatuses : partStatus' = [partStatus EXCEPT ![s][i] = st]
    BY <1>4 DEF StartPart, PartReturns, PartRaises
  <2>2. [partStatus[s] EXCEPT ![i] = st] \in [1..MaxParts -> PartStatuses]
    BY <1>0
  <2>3. partStatus' \in [Steps -> [1..MaxParts -> PartStatuses]]
    BY <1>0, <2>1, <2>2
  <2> QED
    BY <1>0, <1>4, <2>3 DEF StartPart, PartReturns, PartRaises
<1>5. CASE ExecuteWorkflow \/ PickWave \/ CompleteWorkflow
  BY <1>0, <1>5
     DEF ExecuteWorkflow, PickWave, CompleteWorkflow, Scanning, Ready
<1>6. CASE ReportCircular \/ GatherWave
  BY <1>0, <1>6 DEF ReportCircular, GatherWave, Scanning, Abort, Record
<1>7. ASSUME NEW s \in Steps, AdvanceSequential(s) \/ AbortSequential(s)
      PROVE  TypeOK'
  BY <1>0, <1>7 DEF AdvanceSequential, AbortSequential, Abort, Record
<1>8. CASE UNCHANGED vars
  BY <1>0, <1>8 DEF vars
<1> QED
  BY <1>1, <1>2, <1>3, <1>4, <1>5, <1>6, <1>7, <1>8
     DEF Next, Engine, Answer, Control, Terminated

(* IInv is inductive.                                                        *)
LEMMA NextIInv == IInv /\ [Next]_vars => IInv'
  BY TypeStep, ControlStep, PartsStep, CallsStep, WorkflowFixed
     DEF IInv, Acyclic

(* Of every execution of every workflow that registration accepts: its       *)
(* bookkeeping is consistent at every step.                                  *)
THEOREM EngineInvariant == Spec => []IInv
<1>1. Init => IInv
  BY InitIInv
<1>2. IInv /\ [Next]_vars => IInv'
  BY NextIInv
<1> QED
  BY <1>1, <1>2, PTL DEF Spec

(* The engine's state keeps its types; in particular no step ever makes more *)
(* than the largest number of calls that some workflow asks for.             *)
THEOREM TypeCorrect == Spec => []TypeOK
<1>1. IInv => TypeOK
  BY DEF IInv
<1> QED
  BY <1>1, EngineInvariant, PTL

(* _get_ready_steps lets no step run before its dependencies, in any graph.  *)
THEOREM DependenciesRunFirst == Spec => []DependenciesFirst
<1>1. IInv => DependenciesFirst
  BY DEF IInv, ControlFits
<1> QED
  BY <1>1, EngineInvariant, PTL

(* gather at both levels leaves no coroutine behind.                         *)
THEOREM NothingOrphaned == Spec => []NoOrphans
<1>1. IInv => NoOrphans
  BY DEF IInv, ControlFits
<1> QED
  BY <1>1, EngineInvariant, PTL

(* Failed steps are never among the executed ones.                           *)
THEOREM OnlySuccessCounts == Spec => []ExecutedSucceeded
<1>1. IInv => ExecutedSucceeded
  BY DEF IInv, ControlFits
<1> QED
  BY <1>1, EngineInvariant, PTL

(* The outcome of a workflow is what its steps justify.                      *)
THEOREM OutcomeJustified == Spec => []OutcomeIsHonest
<1>1. IInv => OutcomeIsHonest
  BY DEF IInv, ControlFits, StatusFits, ExecutedSucceeded, OutcomeIsHonest,
         TypeOK
<1> QED
  BY <1>1, EngineInvariant, PTL

(* The run-time circularity error means an unknown dependency: with acyclic  *)
(* known dependencies some remaining step is always ready.                   *)
THEOREM NoFalseAlarm == Spec => []NoFalseCycle
<1>1. IInv => NoFalseCycle
  BY DEF IInv, ControlFits
<1> QED
  BY <1>1, EngineInvariant, PTL

(* The retry loop of a tool step makes exactly its budget before it fails.   *)
THEOREM RetriesWithinBudget == Spec => []RetryBudget
<1>1. IInv => RetryBudget
  BY DEF IInv, CallsFit, CallsOf, RetryBudget
<1> QED
  BY <1>1, EngineInvariant, PTL

(* A step that completes answers for all of its parts.                       *)
THEOREM PartsCompleteStep == Spec => []PartsAnswerForStep
<1>1. IInv => PartsAnswerForStep
  <2> SUFFICES ASSUME IInv, NEW s \in Steps, stepStatus[s] = "completed",
                      \/ wf.kind[s] = "parallel"
                      \/ wf.kind[s] = "loop" /\ ~wf.lenient[s],
                      NEW i \in PartsOf(s)
               PROVE  partStatus[s][i] = "completed"
    BY DEF PartsAnswerForStep
  <2>1. i \in 1..MaxParts
    BY StepRanges DEF IInv
  <2> QED
    BY <2>1 DEF IInv, PartsFit, PartFits
<1> QED
  BY <1>1, EngineInvariant, PTL

-----------------------------------------------------------------------------
(* Actions.                                                                  *)

(* Only the coroutine of a step changes its entry: when it is reached, or    *)
(* from running to an end.                                                   *)
StepMoves(s, st) ==
    /\ stepStatus' = [stepStatus EXCEPT ![s] = st]
    /\ UNCHANGED status
    /\ \/ Reached(s) /\ st \in {"running", "completed", "skipped", "failed"}
       \/ stepStatus[s] = "running" /\ st \in {"completed", "failed"}

LEMMA StatusMoves ==
    ASSUME IInv, [Next]_vars
    PROVE  \/ UNCHANGED stepStatus
           \/ \E s \in Steps : \E st : StepMoves(s, st)
<1>1. ASSUME NEW s \in Steps,
             \/ SkipStep(s) \/ RejectStep(s) \/ CompleteAtOnce(s)
             \/ StartActivity(s) \/ StartParts(s)
      PROVE  \E st : StepMoves(s, st)
  BY <1>1 DEF SkipStep, RejectStep, CompleteAtOnce, StartActivity, StartParts,
              StepEnds, StepMoves
<1>2. ASSUME NEW s \in Steps,
             \/ CallReturns(s) \/ CallRaises(s)
             \/ PartsSucceed(s) \/ PartsFail(s)
      PROVE  \E st : StepMoves(s, st)
  <2>1. phase[s] \in {"calling", "parts"}
    BY <1>2 DEF CallReturns, CallRaises, PartsSucceed, PartsFail
  <2>2. stepStatus[s] = "running"
    BY <2>1 DEF IInv, ControlFits, PhaseFits
  <2> QED
    BY <1>2, <2>2
       DEF CallReturns, CallRaises, PartsSucceed, PartsFail, StepEnds, StepMoves
<1> QED
  BY <1>1, <1>2
     DEF Next, Engine, Answer, Control, vars, Terminated, ExecuteWorkflow,
         PickWave, ReportCircular, CompleteWorkflow, GatherWave, RetryCall,
         StartPart, AdvanceSequential, AbortSequential, CallRaisesEarly,
         PartReturns, PartRaises

(* A step that was reached is pending.                                       *)
LEMMA ReachedPending ==
    ASSUME IInv, NEW s \in Steps, Reached(s)
    PROVE  /\ stepStatus[s] = "pending" /\ status = "running"
           /\ wf.deps[s] \subseteq executed
  BY DEF IInv, ControlFits, PhaseFits, StatusFits, WaveFits, Reached, TypeOK

(* No step runs twice, whatever is retried or waited for.                    *)
THEOREM StatusIsFinal == Spec => StatusSticks
<1> DEFINE Sticks == \A s \in Steps :
                        stepStatus[s] \in {"completed", "failed", "skipped"}
                            => stepStatus'[s] = stepStatus[s]
<1>1. IInv /\ [Next]_vars => Sticks
  BY StatusMoves, ReachedPending DEF StepMoves, IInv, TypeOK
<1>2. IInv /\ [Next]_vars => [Sticks]_vars
  BY <1>1
<1> QED
  BY <1>2, EngineInvariant, PTL DEF Spec, StatusSticks

(* The failure of a step stops the workflow: only the steps already          *)
(* scheduled with it are still entered.                                      *)
THEOREM FailureStops == Spec => FailStop
<1> DEFINE Stops == \A s, f \in Steps :
                       (/\ stepStatus[f] = "failed"
                        /\ stepStatus[s] = "pending" /\ stepStatus'[s] # "pending")
                       => wf.parallel /\ s \in wave /\ f \in wave
<1>1. IInv /\ [Next]_vars => Stops
  <2> SUFFICES ASSUME IInv, [Next]_vars, NEW s \in Steps, NEW f \in Steps,
                      stepStatus[f] = "failed", stepStatus[s] = "pending",
                      stepStatus'[s] # "pending"
               PROVE  wf.parallel /\ s \in wave /\ f \in wave
    OBVIOUS
  <2>1. Reached(s)
    BY StatusMoves DEF StepMoves, IInv, TypeOK
  <2>2. f \in wave
    BY <2>1 DEF IInv, ControlFits, WaveFits, ExecutedSucceeded, Reached
  <2>3. s < f \/ f < s
    BY DEF Steps
  <2>4. f \notin executed /\ s \notin executed
    BY DEF IInv, ControlFits, ExecutedSucceeded
  <2> QED
    BY <2>1, <2>2, <2>3, <2>4
       DEF Reached, IInv, ControlFits, SequentialFits
<1>2. IInv /\ [Next]_vars => [Stops]_vars
  BY <1>1
<1> QED
  BY <1>2, EngineInvariant, PTL DEF Spec, FailStop

(* The verdict of an execution, and the alarm about a cycle, are both earned. *)
THEOREM VerdictEarned == Spec => []VerdictIsHonest
<1>1. OutcomeIsHonest /\ NoFalseCycle => VerdictIsHonest
  BY DEF VerdictIsHonest
<1> QED
  BY <1>1, OutcomeJustified, NoFalseAlarm, PTL

(* Retries and parts are counted as they should be.                          *)
THEOREM WorkAccounted == Spec => []WorkIsAccounted
<1>1. RetryBudget /\ PartsAnswerForStep => WorkIsAccounted
  BY DEF WorkIsAccounted
<1> QED
  BY <1>1, RetriesWithinBudget, PartsCompleteStep, PTL

(* An ended step stays ended, and a failed one ends the workflow.            *)
THEOREM EndIsFinal == Spec => EndedIsFinal
  BY StatusIsFinal, FailureStops, PTL DEF EndedIsFinal

-----------------------------------------------------------------------------
(* Refinement.                                                               *)

LEMMA MarkValues ==
    /\ MarkOf("pending") = "waiting"
    /\ MarkOf("running") = "active"
    /\ MarkOf("completed") = "good"
    /\ MarkOf("skipped") = "good"
    /\ MarkOf("failed") = "bad"
  BY DEF MarkOf

(* The good steps of the abstraction.                                        *)
LEMMA GoodSteps ==
    ASSUME TypeOK
    PROVE  Promise!Good = {s \in Steps : stepStatus[s] \in {"completed", "skipped"}}
<1>1. \A s \in Steps : MarkOf(stepStatus[s]) = "good"
                         <=> stepStatus[s] \in {"completed", "skipped"}
  BY MarkValues DEF TypeOK, StepStatuses
<1> QED
  BY <1>1 DEF Promise!Good

LEMMA InitKeepsPromise == Init => Promise!Init
  BY MarkValues DEF Init, Promise!Init, OutcomeOf

LEMMA StepKeepsPromise ==
    IInv /\ [Next]_vars => [Promise!Next]_(Promise!vars)
<1> SUFFICES ASSUME IInv, [Next]_vars PROVE [Promise!Next]_(Promise!vars)
  OBVIOUS
<1>0. TypeOK /\ ControlFits /\ wf' = wf /\ executed \subseteq Promise!Good
  BY WorkflowFixed, GoodSteps DEF IInv, ControlFits, ExecutedSucceeded, TypeOK
<1>1. ASSUME NEW s \in Steps, NEW st, StepMoves(s, st)
      PROVE  Promise!Enter(s) \/ Promise!End(s)
  <2>1. [r \in Steps |-> MarkOf(stepStatus[r])]'
          = [[r \in Steps |-> MarkOf(stepStatus[r])] EXCEPT ![s] = MarkOf(st)]
    BY <1>0, <1>1 DEF StepMoves, TypeOK
  <2>2. UNCHANGED <<wf.deps, OutcomeOf(status)>>
    BY <1>0, <1>1 DEF StepMoves
  <2>3. CASE Reached(s)
    <3>1. MarkOf(st) \in {"active", "good", "bad"}
      BY <1>1, <2>3, ReachedPending, MarkValues DEF StepMoves
    <3>2. /\ MarkOf(stepStatus[s]) = "waiting"
          /\ OutcomeOf(status) = "open"
          /\ wf.deps[s] \subseteq Promise!Good
      BY <1>0, <2>3, ReachedPending, MarkValues DEF OutcomeOf
    <3> QED
      BY <2>1, <2>2, <3>1, <3>2 DEF Promise!Enter
  <2>4. CASE stepStatus[s] = "running"
    <3>1. MarkOf(st) \in {"good", "bad"} /\ MarkOf(stepStatus[s]) = "active"
      BY <1>1, <2>4, ReachedPending, MarkValues DEF StepMoves
    <3>2. OutcomeOf(status) = "open"
      BY <1>0, <2>4 DEF ControlFits, NoOrphans, PhaseFits, StatusFits,
                        ExecutedSucceeded, WaveFits, OutcomeOf, TypeOK
    <3> QED
      BY <2>1, <2>2, <3>1, <3>2 DEF Promise!End
  <2> QED
    BY <1>1, <2>3, <2>4 DEF StepMoves
<1>2. ASSUME UNCHANGED stepStatus
      PROVE  /\ UNCHANGED [r \in Steps |-> MarkOf(stepStatus[r])]
             /\ UNCHANGED wf.deps
  BY <1>0, <1>2
<1>3. CASE ExecuteWorkflow
  BY <1>2, <1>3 DEF ExecuteWorkflow, Promise!Next, Promise!Open, OutcomeOf
<1>4. CASE CompleteWorkflow
  BY <1>0, <1>2, <1>4, GoodSteps
     DEF CompleteWorkflow, Scanning, Promise!Next, Promise!Succeed, OutcomeOf
<1>5. CASE ReportCircular
  <2>1. Promise!Good = executed
    BY <1>0, <1>5, GoodSteps DEF ReportCircular, Scanning, ControlFits, WaveFits
  <2>2. \A s \in Steps : MarkOf(stepStatus[s]) # "active"
    BY <1>0, <1>5, MarkValues DEF ReportCircular, Scanning, ControlFits,
       WaveFits, ExecutedSucceeded
  <2>3. \A s \in Steps : MarkOf(stepStatus[s]) = "waiting"
                             => ~(wf.deps[s] \subseteq executed)
    <3>1. \A s \in executed : MarkOf(stepStatus[s]) = "good"
      BY <1>0, MarkValues DEF ControlFits, ExecutedSucceeded
    <3> QED
      BY <1>5, <3>1 DEF ReportCircular, Ready
  <2> QED
    BY <1>2, <1>5, <2>1, <2>2, <2>3
       DEF ReportCircular, Abort, Scanning, Promise!Next, Promise!Fail, OutcomeOf
<1>6. ASSUME NEW f \in Steps, phase[f] = "raised", Abort("step"),
             UNCHANGED <<stepStatus, partStatus, phase>>, status = "running",
             ControlFits'
      PROVE  Promise!Fail
  <2>1. MarkOf(stepStatus[f]) = "bad"
    BY <1>0, <1>6, MarkValues DEF ControlFits, PhaseFits
  <2>2. \A s \in Steps : stepStatus[s] \in StepStatuses /\ stepStatus[s] # "running"
    BY <1>0, <1>6 DEF Abort, ControlFits, NoOrphans, PhaseFits, TypeOK
  <2>3. \A s \in Steps : MarkOf(stepStatus[s]) # "active"
    BY <2>2, MarkValues DEF StepStatuses
  <2> QED
    BY <1>2, <1>6, <2>1, <2>3 DEF Abort, Promise!Fail, OutcomeOf
<1>7. CASE GatherWave \/ \E s \in Steps : AbortSequential(s)
  <2>1. /\ status = "running" /\ ControlFits'
        /\ UNCHANGED <<stepStatus, partStatus, phase>>
    BY <1>0, <1>7, ControlStep
       DEF GatherWave, AbortSequential, ControlFits, StatusFits, TypeOK
  <2>2. \/ UNCHANGED status
        \/ Abort("step") /\ \E f \in Steps : phase[f] = "raised"
    BY <1>0, <1>7 DEF GatherWave, AbortSequential, Raised, TypeOK
  <2> QED
    BY <1>2, <1>6, <2>1, <2>2 DEF Promise!Next, Promise!vars
<1>8. CASE UNCHANGED <<stepStatus, status>>
  BY <1>2, <1>8 DEF Promise!vars
<1>9. CASE \E s \in Steps : \E st : StepMoves(s, st)
  BY <1>1, <1>9 DEF Promise!Next
<1> QED
  <2>1. CASE UNCHANGED stepStatus
    <3>1. \/ ExecuteWorkflow \/ CompleteWorkflow \/ ReportCircular
          \/ GatherWave \/ \E s \in Steps : AbortSequential(s)
          \/ UNCHANGED status
      BY DEF Next, Engine, Answer, Control, vars, Terminated, PickWave,
             SkipStep, RejectStep, CompleteAtOnce, StartActivity, StartParts,
             RetryCall, StartPart, PartsSucceed, PartsFail, AdvanceSequential,
             CallReturns, CallRaises, CallRaisesEarly, PartReturns, PartRaises
    <3> QED
      BY <1>3, <1>4, <1>5, <1>7, <1>8, <2>1, <3>1
  <2> QED
    BY <1>9, <2>1, StatusMoves

(* The engine, with its waves, coroutines, retries and parts, implements     *)
(* the promise made to whoever submits a workflow.                           *)
THEOREM EngineKeepsPromise == Spec => KeepsPromise
  BY InitKeepsPromise, StepKeepsPromise, EngineInvariant, PTL
     DEF Spec, KeepsPromise, Promise!Spec
-----------------------------------------------------------------------------
(* Registration, register_workflow of composition/engine.py.                 *)

(* The nodes whose call of dfs has returned.                                 *)
Finished == visited \ recStack

(* The node of a call, its neighbours and those it has looked at.            *)
NodeAt(k) == frames[k].node
Around(n) == Validation!Neighbors(submitted, n)
LookedAt(k) == Around(NodeAt(k)) \ frames[k].todo

Frame == [node : StepIds, todo : SUBSET StepIds]

SearchTypeOK ==
    /\ submitted \in Definitions
    /\ verdict \in {"none", "searching", "registered", "refused"}
    /\ frames \in Seq(Frame)

(* rec_stack holds the nodes of the calls under way, each once.              *)
StackFits ==
    /\ recStack = {NodeAt(k) : k \in 1..Len(frames)}
    /\ recStack \subseteq visited
    /\ \A j, k \in 1..Len(frames) : NodeAt(j) = NodeAt(k) => j = k

(* Each call came from a neighbour of the one before it, and has looked only *)
(* at nodes that are finished or of the call it waits for.                   *)
PathFits ==
    /\ \A k \in 1..Len(frames) : frames[k].todo \subseteq Around(NodeAt(k))
    /\ \A j, k \in 1..Len(frames) : k = j + 1 =>
           NodeAt(k) \in Around(NodeAt(j)) /\ LookedAt(j) \subseteq Finished \cup {NodeAt(k)}
    /\ frames # <<>> => LookedAt(Len(frames)) \subseteq Finished

(* A set of nodes each of which has a neighbour in it.                       *)
Circular(S) == S # {} /\ \A n \in S : Around(n) \cap S # {}

(* What is finished leads only to what is finished, and holds no cycle.      *)
FinishedFits ==
    /\ \A n \in Finished : Around(n) \subseteq Finished
    /\ \A S \in SUBSET Finished : ~Circular(S)

VerdictFits ==
    /\ verdict \in {"searching", "registered"} => Validation!WellNamed(submitted)
    /\ verdict = "registered" => frames = <<>> /\ Validation!Range(submitted.ids) \subseteq visited
    /\ verdict = "refused" => ~Validation!WellFormed(submitted)

(* The inductive invariant of the search.                                    *)
SearchIInv == SearchTypeOK /\ StackFits /\ PathFits /\ FinishedFits /\ VerdictFits

(* What a definition is.                                                     *)
LEMMA DefinitionShape ==
    ASSUME NEW w \in Definitions
    PROVE  /\ w.ids \in Seq(StepIds) /\ w.deps \in [DOMAIN w.ids -> SUBSET StepIds]
           /\ DOMAIN w.ids = 1..Len(w.ids) /\ Len(w.ids) \in Nat
           /\ Validation!Range(w.ids) = {w.ids[i] : i \in DOMAIN w.ids}
           /\ Validation!Range(w.ids) \subseteq StepIds
<1>1. /\ w.ids \in Seq(StepIds) /\ w.deps \in [DOMAIN w.ids -> SUBSET StepIds]
      /\ Validation!Range(w.ids) = {w.ids[i] : i \in DOMAIN w.ids}
  BY DefinitionsAssumption DEF Validation!Range
<1>2. DOMAIN w.ids = 1..Len(w.ids) /\ Len(w.ids) \in Nat
  BY <1>1
<1> QED
  BY <1>1, <1>2

(* No id occurs twice exactly if the set of ids is as large as the list.     *)
LEMMA NamesDistinct ==
    ASSUME NEW w \in Definitions
    PROVE  Validation!WellNamed(w) <=>
               /\ \A i, j \in DOMAIN w.ids : i # j => w.ids[i] # w.ids[j]
               /\ \E i \in DOMAIN w.ids : w.ids[i] = w.entry
<1> DEFINE f == w.ids
           names == Validation!Range(f)
<1>1. /\ DOMAIN f = 1..Len(f) /\ Len(f) \in Nat /\ f \in Seq(StepIds)
      /\ names = {f[i] : i \in DOMAIN f}
  BY DefinitionShape
<1>2. IsFiniteSet(1..Len(f)) /\ Cardinality(1..Len(f)) = Len(f)
  BY <1>1, FS_Interval
<1>3. Validation!Cardinality(names) = Cardinality(names)
  BY DEF Validation!Cardinality, Cardinality, Validation!IsFiniteSet, IsFiniteSet
<1>4. f \in Surjection(1..Len(f), names)
  BY <1>1 DEF Surjection
<1>5. Cardinality(names) = Len(f) <=> f \in Injection(1..Len(f), names)
  BY <1>2, <1>4, FS_Surjection
<1>6. f \in Injection(1..Len(f), names)
        <=> \A i, j \in DOMAIN f : i # j => f[i] # f[j]
  BY <1>1, <1>4 DEF Injection, Surjection, IsInjective
<1> QED
  BY <1>1, <1>3, <1>5, <1>6 DEF Validation!WellNamed

(* The graph of a well-named definition is its list of dependencies.         *)
LEMMA GraphOf ==
    ASSUME NEW w \in Definitions, Validation!WellNamed(w)
    PROVE  /\ \A i \in DOMAIN w.ids : Validation!Neighbors(w, w.ids[i]) = w.deps[i]
           /\ \A n : n \notin Validation!Range(w.ids) => Validation!Neighbors(w, n) = {}
<1>1. /\ DOMAIN w.ids = 1..Len(w.ids) /\ Len(w.ids) \in Nat
      /\ Validation!Range(w.ids) = {w.ids[i] : i \in DOMAIN w.ids}
  BY DefinitionShape
<1>2. ASSUME NEW i \in DOMAIN w.ids
      PROVE  Validation!Neighbors(w, w.ids[i]) = w.deps[i]
  <2> DEFINE Latest(k) == /\ w.ids[k] = w.ids[i]
                          /\ \A j \in DOMAIN w.ids : w.ids[j] = w.ids[i] => j <= k
             last == CHOOSE k \in DOMAIN w.ids : Latest(k)
  <2>1. \A j \in DOMAIN w.ids : w.ids[j] = w.ids[i] => j = i
    BY NamesDistinct
  <2>2. \A k \in DOMAIN w.ids : Latest(k) <=> k = i
    BY <1>1, <2>1
  <2>3. last = i
    <3> HIDE DEF Latest
    <3> QED
      BY <2>2
  <2>4. w.ids[i] \in Validation!Range(w.ids)
    BY <1>1
  <2>5. Validation!BuildStepGraph(w)[w.ids[i]] = w.deps[last]
    BY <2>4 DEF Validation!BuildStepGraph, Validation!Positions
  <2> QED
    BY <2>3, <2>4, <2>5 DEF Validation!Neighbors
<1> QED
  BY <1>2 DEF Validation!Neighbors

(* A cycle of positions is a cycle of nodes.                                 *)
LEMMA CycleOfNodes ==
    ASSUME submitted \in Definitions, Validation!WellNamed(submitted)
    PROVE  Validation!HasCycle(submitted)
               <=> \E S \in SUBSET Validation!Range(submitted.ids) : Circular(S)
<1> DEFINE w == submitted
           names == Validation!Range(w.ids)
<1>1. names = {w.ids[i] : i \in DOMAIN w.ids}
  BY DefinitionShape
<1>2. \A i \in DOMAIN w.ids : Around(w.ids[i]) = w.deps[i]
  BY GraphOf DEF Around
<1>3. ASSUME NEW S \in SUBSET DOMAIN w.ids, S # {},
             \A i \in S : \E j \in S : w.ids[j] \in w.deps[i]
      PROVE  \E T \in SUBSET names : Circular(T)
  <2> DEFINE T == {w.ids[i] : i \in S}
  <2>1. T \in SUBSET names /\ T # {}
    BY <1>1, <1>3
  <2>2. ASSUME NEW n \in T PROVE Around(n) \cap T # {}
    <3>1. PICK i \in S : n = w.ids[i]
      OBVIOUS
    <3>2. PICK j \in S : w.ids[j] \in w.deps[i]
      BY <1>3
    <3> QED
      BY <1>2, <3>1, <3>2
  <2> HIDE DEF T
  <2> QED
    BY <2>1, <2>2 DEF Circular
<1>4. ASSUME NEW T \in SUBSET names, Circular(T)
      PROVE  \E S \in SUBSET DOMAIN w.ids :
                 S # {} /\ \A i \in S : \E j \in S : w.ids[j] \in w.deps[i]
  <2> DEFINE S == {i \in DOMAIN w.ids : w.ids[i] \in T}
  <2>1. S \in SUBSET DOMAIN w.ids /\ S # {}
    BY <1>1, <1>4 DEF Circular
  <2>2. ASSUME NEW i \in S PROVE \E j \in S : w.ids[j] \in w.deps[i]
    <3>1. PICK n \in T : n \in Around(w.ids[i])
      BY <1>4 DEF Circular
    <3>2. PICK j \in DOMAIN w.ids : w.ids[j] = n
      BY <1>1, <3>1
    <3> QED
      BY <1>2, <3>1, <3>2
  <2> HIDE DEF S
  <2> QED
    BY <2>1, <2>2
<1> QED
  BY <1>3, <1>4 DEF Validation!HasCycle, Validation!Positions

(* The sequence operators that the module of the search brings with it.      *)
LEMMA FrameOps ==
    ASSUME NEW s \in Seq(Frame)
    PROVE  Validation!Last(s) = s[Len(s)] /\ Validation!Front(s) = SubSeq(s, 1, Len(s) - 1)
BY DEF Validation!Last, Validation!Front

(* The call under way.                                                       *)
LEMMA TopFrame ==
    ASSUME SearchTypeOK, frames # <<>>
    PROVE  /\ Len(frames) \in Nat \ {0} /\ DOMAIN frames = 1..Len(frames)
           /\ \A k \in 1..Len(frames) :
                  frames[k] \in Frame /\ NodeAt(k) \in StepIds
                      /\ frames[k].todo \subseteq StepIds
           /\ Validation!Last(frames) = frames[Len(frames)]
<1>1. frames \in Seq(Frame)
  BY DEF SearchTypeOK
<1>2. Len(frames) \in Nat \ {0} /\ DOMAIN frames = 1..Len(frames)
  BY <1>1
<1>3. \A k \in 1..Len(frames) : frames[k] \in Frame
  BY <1>1, <1>2
<1> QED
  BY <1>1, <1>2, <1>3, FrameOps DEF Frame, NodeAt

(* What the neighbours of a node are depends on the definition only.         *)
LEMMA AroundStays == UNCHANGED submitted => \A n : Around(n)' = Around(n)
  BY DEF Around, Validation!Neighbors, Validation!Range, Validation!BuildStepGraph,
         Validation!Positions

LEMMA AroundIds ==
    ASSUME submitted \in Definitions, Validation!WellNamed(submitted), NEW n
    PROVE  /\ Around(n) \subseteq StepIds
           /\ Around(n) # {} => n \in Validation!Range(submitted.ids)
<1>1. CASE n \in Validation!Range(submitted.ids)
  <2>1. PICK i \in DOMAIN submitted.ids : submitted.ids[i] = n
    BY <1>1, DefinitionShape
  <2>2. Around(n) = submitted.deps[i]
    BY <2>1, GraphOf DEF Around
  <2> QED
    BY <1>1, <2>2, DefinitionShape
<1>2. CASE n \notin Validation!Range(submitted.ids)
  BY <1>2, GraphOf DEF Around
<1> QED
  BY <1>1, <1>2

(* A search that has not begun.                                              *)
LEMMA SearchInit == Validation!Init => SearchIInv
<1> SUFFICES ASSUME Validation!Init PROVE SearchIInv
  OBVIOUS
<1>1. /\ submitted \in Definitions /\ verdict = "none" /\ visited = {} /\ recStack = {}
      /\ frames = <<>>
  BY DEF Validation!Init
<1>2. frames \in Seq(Frame) /\ Len(frames) = 0
  BY <1>1
<1>3. StackFits /\ PathFits
  BY <1>1, <1>2 DEF StackFits, PathFits
<1>4. FinishedFits
  BY <1>1 DEF FinishedFits, Finished, Circular
<1> QED
  BY <1>1, <1>2, <1>3, <1>4 DEF SearchIInv, SearchTypeOK, VerdictFits

(* The call of dfs for a node that was not visited, from calls that have     *)
(* looked at nothing unfinished but this node.                               *)
LEMMA DfsKeeps ==
    ASSUME SearchIInv, verdict = "searching", NEW n \in StepIds \ visited,
           NEW callers \in Seq(Frame), Validation!Dfs(n, callers),
           Len(callers) = Len(frames),
           \A k \in 1..Len(frames) :
               /\ callers[k].node = frames[k].node
               /\ callers[k].todo = frames[k].todo \ (IF k = Len(frames) THEN {n} ELSE {}),
           frames # <<>> => n \in frames[Len(frames)].todo
    PROVE  SearchIInv'
<1> USE DEF SearchIInv
<1> DEFINE top == [node |-> n, todo |-> Around(n)]
<1>len. PICK len : len = Len(frames)
  OBVIOUS
<1>1. /\ visited' = visited \cup {n} /\ recStack' = recStack \cup {n}
      /\ frames' = Append(callers, top)
      /\ submitted' = submitted /\ verdict' = verdict
  BY DEF Validation!Dfs, Around
<1>2. /\ frames \in Seq(Frame) /\ len \in Nat /\ submitted \in Definitions
      /\ Validation!WellNamed(submitted) /\ len = Len(frames)
  BY <1>len DEF SearchTypeOK, VerdictFits
<1>3. top \in Frame
  BY <1>2, AroundIds DEF Frame
<1>4. /\ frames' \in Seq(Frame) /\ Len(frames') = len + 1
      /\ frames'[len + 1] = top
      /\ \A k \in 1..len : frames'[k] = callers[k]
  <2> HIDE DEF top
  <2> QED
    BY <1>1, <1>2, <1>3
<1>5. /\ NodeAt(len + 1)' = n
      /\ \A k \in 1..len : NodeAt(k)' = NodeAt(k) /\ NodeAt(k) \in recStack
  BY <1>2, <1>4 DEF NodeAt, StackFits
<1>6. Finished' = Finished /\ n \notin Finished /\ n \notin recStack
  BY <1>1 DEF Finished, StackFits
<1>7. \A m : Around(m)' = Around(m)
  BY <1>1, AroundStays
<1>8. SearchTypeOK'
  BY <1>1, <1>2, <1>4 DEF SearchTypeOK
<1>9. StackFits'
  <2>1. 1..(len + 1) = 1..len \cup {len + 1}
    BY <1>2
  <2>2. recStack' = {NodeAt(k)' : k \in 1..(len + 1)}
    BY <1>1, <1>2, <1>5, <2>1 DEF StackFits
  <2>3. \A j, k \in 1..(len + 1) : NodeAt(j)' = NodeAt(k)' => j = k
    BY <1>2, <1>5, <1>6, <2>1 DEF StackFits
  <2> QED
    BY <1>1, <1>4, <2>2, <2>3 DEF StackFits
<1>10. \A k \in 1..len :
          /\ frames'[k].todo = frames[k].todo \ (IF k = len THEN {n} ELSE {})
          /\ k < len => LookedAt(k)' = LookedAt(k)
          /\ k = len => LookedAt(k)' \subseteq LookedAt(k) \cup {n}
  BY <1>2, <1>4, <1>5, <1>7 DEF LookedAt
<1>11. PathFits'
  <2>1. ASSUME NEW k \in 1..(len + 1)
        PROVE  frames'[k].todo \subseteq Around(NodeAt(k)')
    BY <1>2, <1>4, <1>5, <1>10, <2>1 DEF PathFits
  <2>2. ASSUME NEW j \in 1..(len + 1), NEW k \in 1..(len + 1), k = j + 1
        PROVE  /\ NodeAt(k)' \in Around(NodeAt(j)')
               /\ LookedAt(j)' \subseteq Finished \cup {NodeAt(k)'}
    <3>1. CASE k = len + 1
      <4>1. j = len /\ j \in 1..len /\ frames # <<>>
        BY <1>2, <2>2, <3>1
      <4>2. LookedAt(j) \subseteq Finished /\ frames[j].todo \subseteq Around(NodeAt(j))
        BY <1>2, <4>1 DEF PathFits
      <4> QED
        BY <1>2, <1>5, <1>10, <3>1, <4>1, <4>2
    <3>2. CASE k # len + 1
      <4>1. k \in 1..len /\ j \in 1..len /\ j < len
        BY <1>2, <2>2, <3>2
      <4> QED
        BY <1>2, <1>5, <1>10, <2>2, <4>1 DEF PathFits
    <3> QED
      BY <3>1, <3>2
  <2>3. LookedAt(len + 1)' = {}
    BY <1>4, <1>5, <1>7 DEF LookedAt
  <2>4. /\ \A k \in 1..(len + 1) : frames'[k].todo \subseteq Around(NodeAt(k))'
        /\ \A j, k \in 1..(len + 1) : k = j + 1 =>
             NodeAt(k)' \in Around(NodeAt(j))' /\ LookedAt(j)' \subseteq Finished' \cup {NodeAt(k)'}
    <3>1. \A k : Around(NodeAt(k))' = Around(NodeAt(k)')
      BY <1>1 DEF Around, Validation!Neighbors, Validation!Range, Validation!BuildStepGraph,
                  Validation!Positions, NodeAt
    <3> QED
      BY <1>6, <2>1, <2>2, <3>1
  <2> QED
    BY <1>4, <2>3, <2>4 DEF PathFits
<1>12. FinishedFits'
  BY <1>6, <1>7 DEF FinishedFits, Circular
<1>13. VerdictFits'
  BY <1>1, <1>2 DEF VerdictFits
<1> QED
  BY <1>8, <1>9, <1>11, <1>12, <1>13

(* The call under way goes over to a neighbour.                              *)
LEMMA RestShape ==
    ASSUME SearchTypeOK, frames # <<>>, NEW n
    PROVE  /\ Validation!Rest(n) \in Seq(Frame) /\ Len(Validation!Rest(n)) = Len(frames)
           /\ \A k \in 1..Len(frames) :
                  /\ Validation!Rest(n)[k].node = frames[k].node
                  /\ Validation!Rest(n)[k].todo
                       = frames[k].todo \ (IF k = Len(frames) THEN {n} ELSE {})
<1> DEFINE len == Len(frames)
           top == [frames[len] EXCEPT !.todo = @ \ {n}]
<1>1. /\ frames \in Seq(Frame) /\ len \in 1..len /\ frames[len] \in Frame
      /\ DOMAIN frames = 1..len
  BY TopFrame DEF SearchTypeOK
<1>2. /\ top \in Frame /\ top.node = frames[len].node
      /\ top.todo = frames[len].todo \ {n}
  BY <1>1 DEF Frame
<1>3. Validation!Rest(n) = [frames EXCEPT ![len] = top]
  BY <1>1 DEF Validation!Rest
<1> HIDE DEF top
<1>4. \A k \in 1..len : Validation!Rest(n)[k] = IF k = len THEN top ELSE frames[k]
  BY <1>1, <1>3
<1>5. Validation!Rest(n) \in Seq(Frame) /\ Len(Validation!Rest(n)) = len
  BY <1>1, <1>2, <1>3
<1> QED
  BY <1>2, <1>4, <1>5

(* A step that leaves the calls and the sets alone.                          *)
LEMMA VerdictOnly ==
    ASSUME SearchIInv, UNCHANGED <<submitted, visited, recStack, frames>>,
           verdict' \in {"none", "searching", "registered", "refused"}, VerdictFits'
    PROVE  SearchIInv'
<1>1. \A n : Around(n)' = Around(n)
  BY AroundStays
<1>2. Finished' = Finished
  BY DEF Finished
<1>3. \A k : NodeAt(k)' = NodeAt(k) /\ LookedAt(k)' = LookedAt(k)
  <2>1. \A k : NodeAt(k)' = NodeAt(k)
    BY DEF NodeAt
  <2>2. \A k : Around(NodeAt(k))' = Around(NodeAt(k))
    BY DEF Around, NodeAt, Validation!Neighbors, Validation!Range, Validation!BuildStepGraph,
           Validation!Positions
  <2> QED
    BY <2>1, <2>2 DEF LookedAt
<1>4. SearchTypeOK' /\ StackFits'
  BY <1>3 DEF SearchIInv, SearchTypeOK, StackFits
<1>5. PathFits'
  <2>1. \A k : Around(NodeAt(k))' = Around(NodeAt(k))
    BY DEF Around, NodeAt, Validation!Neighbors, Validation!Range, Validation!BuildStepGraph,
           Validation!Positions
  <2> QED
    BY <1>2, <1>3, <2>1 DEF SearchIInv, PathFits
<1>6. FinishedFits'
  BY <1>1, <1>2 DEF SearchIInv, FinishedFits, Circular
<1> QED
  BY <1>4, <1>5, <1>6 DEF SearchIInv

(* A neighbour that is still on the way closes a cycle of steps.             *)
LEMMA CycleFound ==
    ASSUME SearchIInv, NEW n, Validation!FindsCycle(n)
    PROVE  ~Validation!WellFormed(submitted)
<1> USE DEF SearchIInv
<1>1. /\ frames # <<>> /\ n \in frames[Len(frames)].todo /\ n \in recStack
      /\ verdict = "searching"
  BY TopFrame DEF Validation!FindsCycle, Validation!InCall
<1>len. PICK len \in Nat \ {0} : len = Len(frames)
  BY <1>1, TopFrame
<1>2. PICK j \in 1..len : n = NodeAt(j)
  BY <1>1, <1>len DEF StackFits
<1>3. submitted \in Definitions /\ Validation!WellNamed(submitted)
  BY <1>1 DEF SearchTypeOK, VerdictFits
<1> DEFINE S == {NodeAt(k) : k \in j..len}
<1>4. \A k \in j..len : Around(NodeAt(k)) \cap S # {}
  <2> SUFFICES ASSUME NEW k \in j..len PROVE Around(NodeAt(k)) \cap S # {}
    OBVIOUS
  <2>1. CASE k = len
    <3>1. n \in Around(NodeAt(k))
      BY <1>1, <1>len, <2>1 DEF PathFits
    <3>2. n \in S
      BY <1>2, <1>len
    <3> QED
      BY <3>1, <3>2
  <2>2. CASE k # len
    <3>1. k + 1 \in j..len /\ k + 1 \in 1..len /\ k \in 1..len
      BY <1>len, <2>2
    <3>2. NodeAt(k + 1) \in Around(NodeAt(k))
      BY <1>len, <3>1 DEF PathFits
    <3> QED
      BY <3>1, <3>2
  <2> QED
    BY <2>1, <2>2
<1>5. Circular(S)
  <2>1. NodeAt(j) \in S
    BY <1>2, <1>len
  <2> QED
    BY <1>4, <2>1 DEF Circular
<1>6. S \subseteq Validation!Range(submitted.ids)
  <2>1. \A m \in S : Around(m) # {}
    BY <1>4
  <2> HIDE DEF S
  <2> QED
    BY <1>3, <2>1, AroundIds
<1> HIDE DEF S
<1>7. Validation!HasCycle(submitted)
  BY <1>3, <1>5, <1>6, CycleOfNodes
<1> QED
  BY <1>7 DEF Validation!WellFormed

(* A call that returns is done with its node: no cycle runs through it.      *)
LEMMA ReturnKeeps ==
    ASSUME SearchIInv, Validation!Returns
    PROVE  SearchIInv'
<1> USE DEF SearchIInv
<1>1. frames # <<>> /\ verdict = "searching" /\ frames \in Seq(Frame)
  BY DEF Validation!Returns, Validation!InCall, SearchTypeOK
<1>len. PICK len \in Nat \ {0} : len = Len(frames)
  BY <1>1, TopFrame
<1>node. PICK n : n = NodeAt(len)
  OBVIOUS
<1>2. /\ frames[len].todo = {} /\ recStack' = recStack \ {n}
      /\ frames' = SubSeq(frames, 1, len - 1)
      /\ submitted' = submitted /\ verdict' = verdict /\ visited' = visited
  BY <1>1, <1>len, <1>node, TopFrame, FrameOps
  DEF Validation!Returns, Validation!Unwound, NodeAt
<1>3. /\ frames' \in Seq(Frame) /\ Len(frames') = len - 1
      /\ \A k \in 1..(len - 1) : frames'[k] = frames[k]
  BY <1>1, <1>2, <1>len
<1>4. n \in recStack /\ Finished' = Finished \cup {n} /\ n \notin Finished
  BY <1>2, <1>len, <1>node DEF Finished, StackFits
<1>5. Around(n) \subseteq Finished
  BY <1>1, <1>2, <1>len, <1>node DEF PathFits, LookedAt
<1>6. \A m : Around(m)' = Around(m)
  BY <1>2, AroundStays
<1>7. \A k \in 1..(len - 1) :
          /\ NodeAt(k)' = NodeAt(k) /\ Around(NodeAt(k))' = Around(NodeAt(k))
          /\ LookedAt(k)' = LookedAt(k)
  <2>1. \A k \in 1..(len - 1) : NodeAt(k)' = NodeAt(k)
    BY <1>3 DEF NodeAt
  <2>2. \A k \in 1..(len - 1) : Around(NodeAt(k))' = Around(NodeAt(k))
    <3>1. \A k : Around(NodeAt(k))' = Around(NodeAt(k)')
      BY <1>2 DEF Around, Validation!Neighbors, Validation!Range, Validation!BuildStepGraph,
                  Validation!Positions, NodeAt
    <3> QED
      BY <2>1, <3>1
  <2> QED
    BY <1>3, <2>1, <2>2 DEF LookedAt
<1>8. SearchTypeOK'
  BY <1>2, <1>3 DEF SearchTypeOK
<1>9. StackFits'
  <2>1. \A k \in 1..(len - 1) : NodeAt(k) # n /\ k \in 1..len /\ k # len
    BY <1>len, <1>node DEF StackFits
  <2>2. recStack \ {n} = {NodeAt(k) : k \in 1..(len - 1)}
    <3>1. 1..len = 1..(len - 1) \cup {len}
      BY <1>len
    <3> QED
      BY <1>len, <1>node, <2>1, <3>1 DEF StackFits
  <2>3. recStack' = {NodeAt(k)' : k \in 1..(len - 1)}
    BY <1>2, <1>7, <2>2
  <2>4. recStack' \subseteq visited'
    BY <1>2 DEF StackFits
  <2>5. \A j, k \in 1..(len - 1) : NodeAt(j)' = NodeAt(k)' => j = k
    BY <1>7, <1>len, <2>1 DEF StackFits
  <2> QED
    BY <1>3, <2>3, <2>4, <2>5 DEF StackFits
<1>10. PathFits'
  <2>1. \A k \in 1..(len - 1) : frames'[k].todo \subseteq Around(NodeAt(k))'
    BY <1>3, <1>7, <1>len DEF PathFits
  <2>2. \A j, k \in 1..(len - 1) : k = j + 1 =>
            NodeAt(k)' \in Around(NodeAt(j))' /\ LookedAt(j)' \subseteq Finished' \cup {NodeAt(k)'}
    BY <1>4, <1>7, <1>len DEF PathFits
  <2>3. len - 1 # 0 => LookedAt(len - 1) \subseteq Finished \cup {n}
    BY <1>len, <1>node DEF PathFits
  <2>4. frames' # <<>> => LookedAt(Len(frames))' \subseteq Finished'
    <3> SUFFICES ASSUME frames' # <<>> PROVE LookedAt(Len(frames))' \subseteq Finished'
      OBVIOUS
    <3>1. len - 1 \in 1..(len - 1)
      BY <1>3, <1>len
    <3>2. LookedAt(Len(frames))' = LookedAt(len - 1)'
      BY <1>3 DEF LookedAt, NodeAt
    <3> QED
      BY <1>4, <1>7, <2>3, <3>1, <3>2
  <2> QED
    BY <1>3, <2>1, <2>2, <2>4 DEF PathFits
<1>11. FinishedFits'
  <2>1. \A m \in Finished \cup {n} : Around(m) \subseteq Finished
    BY <1>5 DEF FinishedFits
  <2>2. ASSUME NEW S \in SUBSET (Finished \cup {n}), S # {},
               \A m \in S : Around(m) \cap S # {}
        PROVE  FALSE
    <3> DEFINE T == S \ {n}
    <3>1. \A m \in S : Around(m) \cap T # {}
      BY <1>4, <2>1, <2>2
    <3>2. T \in SUBSET Finished /\ T # {}
      BY <2>2, <3>1
    <3>3. \A m \in T : Around(m) \cap T # {}
      BY <3>1
    <3> HIDE DEF T
    <3> QED
      BY <3>2, <3>3 DEF FinishedFits, Circular
  <2> QED
    BY <1>4, <1>6, <2>1, <2>2 DEF FinishedFits, Circular
<1>12. VerdictFits'
  BY <1>1, <1>2 DEF VerdictFits
<1> QED
  BY <1>8, <1>9, <1>10, <1>11, <1>12

(* A finished neighbour is passed over.                                      *)
LEMMA PassKeeps ==
    ASSUME SearchIInv, NEW n, Validation!Passes(n)
    PROVE  SearchIInv'
<1> USE DEF SearchIInv
<1>1. frames # <<>> /\ verdict = "searching" /\ frames \in Seq(Frame)
  BY DEF Validation!Passes, Validation!InCall, SearchTypeOK
<1>len. PICK len \in Nat \ {0} : len = Len(frames)
  BY <1>1, TopFrame
<1>2. /\ frames' = Validation!Rest(n) /\ n \in Finished
      /\ submitted' = submitted /\ verdict' = verdict /\ visited' = visited
      /\ recStack' = recStack
  BY DEF Validation!Passes, Finished
<1>3. /\ frames' \in Seq(Frame) /\ Len(frames') = len
      /\ \A k \in 1..len :
            /\ frames'[k].node = frames[k].node
            /\ frames'[k].todo = frames[k].todo \ (IF k = len THEN {n} ELSE {})
  BY <1>1, <1>2, <1>len, RestShape
<1>4. Finished' = Finished
  BY <1>2 DEF Finished
<1>5. \A m : Around(m)' = Around(m)
  BY <1>2, AroundStays
<1>6. \A k \in 1..len :
          NodeAt(k)' = NodeAt(k) /\ Around(NodeAt(k))' = Around(NodeAt(k))
  <2>1. \A k \in 1..len : NodeAt(k)' = NodeAt(k)
    BY <1>3 DEF NodeAt
  <2>2. \A k : Around(NodeAt(k))' = Around(NodeAt(k)')
    BY <1>2 DEF Around, Validation!Neighbors, Validation!Range, Validation!BuildStepGraph,
                Validation!Positions, NodeAt
  <2> QED
    BY <2>1, <2>2
<1>7. \A k \in 1..len :
          /\ k # len => LookedAt(k)' = LookedAt(k)
          /\ k = len => LookedAt(k)' \subseteq LookedAt(k) \cup {n}
  BY <1>3, <1>6 DEF LookedAt
<1>8. SearchTypeOK'
  BY <1>2, <1>3 DEF SearchTypeOK
<1>9. StackFits'
  <2>1. recStack' = {NodeAt(k)' : k \in 1..len}
    BY <1>2, <1>6, <1>len DEF StackFits
  <2>2. \A j, k \in 1..len : NodeAt(j)' = NodeAt(k)' => j = k
    BY <1>6, <1>len DEF StackFits
  <2> QED
    BY <1>2, <1>3, <2>1, <2>2 DEF StackFits
<1>10. PathFits'
  <2>1. \A k \in 1..len : frames'[k].todo \subseteq Around(NodeAt(k))'
    BY <1>3, <1>6, <1>len DEF PathFits
  <2>2. \A j, k \in 1..len : k = j + 1 =>
            NodeAt(k)' \in Around(NodeAt(j))' /\ LookedAt(j)' \subseteq Finished' \cup {NodeAt(k)'}
    <3> SUFFICES ASSUME NEW j \in 1..len, NEW k \in 1..len, k = j + 1
                 PROVE  /\ NodeAt(k)' \in Around(NodeAt(j))'
                        /\ LookedAt(j)' \subseteq Finished' \cup {NodeAt(k)'}
      OBVIOUS
    <3>1. j # len
      BY <1>len
    <3> QED
      BY <1>4, <1>6, <1>7, <1>len, <3>1 DEF PathFits
  <2>3. LookedAt(len)' \subseteq Finished'
    BY <1>1, <1>2, <1>4, <1>7, <1>len DEF PathFits
  <2> QED
    BY <1>3, <2>1, <2>2, <2>3 DEF PathFits
<1>11. FinishedFits' /\ VerdictFits'
  BY <1>1, <1>2, <1>4, <1>5 DEF FinishedFits, Circular, VerdictFits
<1> QED
  BY <1>8, <1>9, <1>10, <1>11

(* All roots are finished, so no cycle is left.                              *)
LEMMA NoCycleLeft ==
    ASSUME SearchIInv, Validation!Registers
    PROVE  /\ Validation!Range(submitted.ids) \subseteq visited /\ frames = <<>>
           /\ verdict = "searching" /\ ~Validation!HasCycle(submitted)
<1>1. /\ Validation!Range(submitted.ids) \subseteq visited /\ frames = <<>>
      /\ verdict = "searching"
  BY DEF Validation!Registers, Validation!Roots
<1>2. recStack = {}
  BY <1>1 DEF SearchIInv, StackFits
<1>3. Validation!Range(submitted.ids) \subseteq Finished
  BY <1>1, <1>2 DEF Finished
<1> QED
  BY <1>1, <1>3, CycleOfNodes
  DEF SearchIInv, SearchTypeOK, VerdictFits, FinishedFits

(* Every step of the search keeps its invariant.                             *)
LEMMA SearchKept == SearchIInv /\ [Validation!Next]_validationVars => SearchIInv'
<1> SUFFICES ASSUME SearchIInv, [Validation!Next]_validationVars PROVE SearchIInv'
  OBVIOUS
<1>1. submitted \in Definitions
  BY DEF SearchIInv, SearchTypeOK
<1>2. CASE Validation!ValidateWorkflow
  <2>1. verdict = "none" /\ UNCHANGED <<submitted, visited, recStack, frames>>
        /\ verdict' = IF Validation!WellNamed(submitted) THEN "searching" ELSE "refused"
    BY <1>2 DEF Validation!ValidateWorkflow
  <2>2. ~Validation!WellNamed(submitted) => ~Validation!WellFormed(submitted)
    BY <1>1, NamesDistinct DEF Validation!WellFormed, Validation!Positions
  <2>3. VerdictFits'
    BY <2>1, <2>2 DEF VerdictFits, Validation!WellFormed, Validation!HasCycle, Validation!Positions
  <2> QED
    BY <2>1, <2>3, VerdictOnly
<1>3. ASSUME NEW i \in Validation!Positions(submitted), Validation!SearchFrom(i)
      PROVE  SearchIInv'
  <2>1. /\ verdict = "searching" /\ frames = <<>> /\ submitted.ids[i] \notin visited
        /\ Validation!Dfs(submitted.ids[i], <<>>)
    BY <1>3 DEF Validation!SearchFrom
  <2>2. submitted.ids[i] \in StepIds /\ <<>> \in Seq(Frame)
    BY <1>1, <1>3, DefinitionShape DEF Validation!Positions
  <2>3. 1..Len(frames) = {} /\ Len(<<>>) = Len(frames)
    BY <2>1
  <2> QED
    BY <2>1, <2>2, <2>3, DfsKeeps
<1>4. ASSUME NEW n, Validation!GoesDeeper(n) PROVE SearchIInv'
  <2>1. /\ verdict = "searching" /\ frames # <<>> /\ n \in frames[Len(frames)].todo \ visited
        /\ Validation!Dfs(n, Validation!Rest(n))
    BY <1>4, TopFrame DEF Validation!GoesDeeper, Validation!InCall, SearchIInv
  <2>2. n \in StepIds \ visited
    BY <2>1, TopFrame DEF SearchIInv
  <2> QED
    BY <2>1, <2>2, DfsKeeps, RestShape DEF SearchIInv
<1>5. ASSUME NEW n, Validation!FindsCycle(n) PROVE SearchIInv'
  <2>1. verdict' = "refused" /\ UNCHANGED <<submitted, visited, recStack, frames>>
    BY <1>5 DEF Validation!FindsCycle
  <2>2. ~Validation!WellFormed(submitted)
    BY <1>5, CycleFound
  <2>3. VerdictFits'
    BY <2>1, <2>2 DEF VerdictFits, Validation!WellFormed, Validation!HasCycle, Validation!Positions
  <2> QED
    BY <2>1, <2>3, VerdictOnly
<1>6. CASE Validation!Registers
  <2>1. verdict' = "registered" /\ UNCHANGED <<submitted, visited, recStack, frames>>
    BY <1>6 DEF Validation!Registers
  <2>2. VerdictFits'
    BY <1>6, <2>1, NoCycleLeft DEF SearchIInv, VerdictFits, Validation!WellNamed
  <2> QED
    BY <2>1, <2>2, VerdictOnly
<1>7. CASE UNCHANGED validationVars
  <2>1. UNCHANGED <<submitted, verdict, visited, recStack, frames>>
    BY <1>7 DEF validationVars
  <2>2. VerdictFits' /\ verdict' \in {"none", "searching", "registered", "refused"}
    BY <2>1 DEF SearchIInv, SearchTypeOK, VerdictFits, Validation!WellFormed, Validation!HasCycle,
                Validation!Positions, Validation!WellNamed
  <2> QED
    BY <2>1, <2>2, VerdictOnly
<1>8. Validation!Done => UNCHANGED validationVars
  BY DEF Validation!Done, Validation!vars, validationVars
<1> QED
  BY <1>2, <1>3, <1>4, <1>5, <1>6, <1>7, <1>8, ReturnKeeps, PassKeeps DEF Validation!Next

(* The verdict is right, both ways.                                          *)
LEMMA VerdictHolds ==
    SearchIInv => Validation!RegisteredIsWellFormed /\ Validation!RefusedIsIllFormed
<1> SUFFICES ASSUME SearchIInv, verdict = "registered" PROVE Validation!WellFormed(submitted)
  BY DEF SearchIInv, VerdictFits, Validation!RegisteredIsWellFormed, Validation!RefusedIsIllFormed
<1>1. recStack = {}
  BY DEF SearchIInv, VerdictFits, StackFits
<1>2. Validation!Range(submitted.ids) \subseteq Finished /\ Validation!WellNamed(submitted)
  BY <1>1 DEF SearchIInv, VerdictFits, Finished
<1>3. ~Validation!HasCycle(submitted)
  BY <1>2, CycleOfNodes DEF SearchIInv, SearchTypeOK, FinishedFits
<1> QED
  BY <1>2, <1>3, NamesDistinct DEF SearchIInv, SearchTypeOK, Validation!WellFormed,
                               Validation!Positions
-----------------------------------------------------------------------------
(* The second interpreter of steps, composition/executor.py.                  *)

(* A unit sleeps only before an attempt that it still has.                   *)
AttemptsFit ==
    \A u \in Executor!Units :
        /\ unit[u].calls <= Executor!Attempts(u)
        /\ unit[u].phase = "sleeping" => unit[u].calls < Executor!Attempts(u)

(* The first m items of a loop have been started; all but the last of them   *)
(* are over, and none of those failed unless errors are tolerated.           *)
ItemsFit(m) ==
    /\ \A u \in 1..step.parts : unit[u].phase # "idle" <=> u <= m
    /\ \A u \in 1..step.parts : u < m =>
           Executor!Over(u) /\ (unit[u].phase = "completed" \/ step.lenient)

LoopFits ==
    step.kind = "loop" =>
        /\ unitStatus = "new" => \A u \in 1..step.parts : unit[u].phase = "idle"
        /\ \E m \in 0..step.parts : ItemsFit(m)
        /\ unitStatus = "completed" /\ ~step.lenient =>
               \A u \in 1..step.parts : unit[u].phase = "completed"

(* The inductive invariant of the interpreter.                               *)
ExecutorIInv == Executor!TypeOK /\ AttemptsFit /\ LoopFits

(* A step, its units and how often they may call.                            *)
LEMMA StepShape ==
    ASSUME Executor!TypeOK
    PROVE  /\ step.parts \in Nat /\ 1..step.parts \subseteq Executor!Units
           /\ Executor!Units = 0..MaxParts /\ step.attempts \in Nat
           /\ \A u \in Executor!Units : Executor!Attempts(u) \in Nat
BY MaxPartsAssumption, MaxAttemptsAssumption
DEF Executor!TypeOK, Executor!StepConfig, Executor!Units, Executor!Attempts

(* A loop is at the last item that it started.                               *)
LEMMA LoopIsAt ==
    ASSUME Executor!TypeOK, NEW m \in 0..step.parts, ItemsFit(m)
    PROVE  Executor!LoopAt = m
<1>1. {u \in 1..step.parts : unit[u].phase # "idle"} = 1..m
  BY StepShape DEF ItemsFit
<1>2. 1 \in Int /\ m \in Int
  BY StepShape
<1>3. IsFiniteSet(1..m)
  BY <1>2, FS_Interval
<1>4. Cardinality(1..m) = m
  BY <1>2, StepShape, FS_Interval
<1>5. Executor!Cardinality(1..m) = Cardinality(1..m)
  BY DEF Executor!Cardinality, Cardinality, Executor!IsFiniteSet, IsFiniteSet
<1> QED
  BY <1>1, <1>4, <1>5 DEF Executor!LoopAt

(* What becomes of the units that enter their retry loops.                   *)
LEMMA UnitsEnter ==
    ASSUME ExecutorIInv, NEW us \in SUBSET Executor!Units, UNCHANGED step,
           unit' = Executor!Running(us)
    PROVE  /\ unit' \in [Executor!Units -> [phase : {"idle", "calling", "sleeping", "completed", "failed"},
                                            calls : Nat]]
           /\ AttemptsFit'
           /\ \A u \in Executor!Units : u \notin us => unit'[u] = unit[u]
           /\ \A u \in us : unit'[u].phase \in {"calling", "completed", "failed"}
<1>1. \A u \in Executor!Units :
          unit'[u] = IF u \in us THEN Executor!Entered(u) ELSE unit[u]
  BY DEF Executor!Running
<1>2. \A u \in Executor!Units :
          /\ Executor!Entered(u) \in [phase : {"idle", "calling", "sleeping", "completed", "failed"},
                                      calls : Nat]
          /\ Executor!Entered(u).phase \in {"calling", "completed", "failed"}
          /\ Executor!Entered(u).calls <= Executor!Attempts(u)
  BY StepShape DEF Executor!Entered, ExecutorIInv
<1>3. /\ unit' = [u \in Executor!Units |-> unit'[u]]
      /\ unit \in [Executor!Units -> [phase : {"idle", "calling", "sleeping", "completed", "failed"},
                                      calls : Nat]]
  BY DEF Executor!Running, ExecutorIInv, Executor!TypeOK
<1>4. \A u : Executor!Attempts(u)' = Executor!Attempts(u)
  BY DEF Executor!Attempts
<1>5. AttemptsFit'
  BY <1>1, <1>2, <1>4 DEF AttemptsFit, ExecutorIInv, Executor!Units
<1> HIDE DEF AttemptsFit
<1> QED
  BY <1>1, <1>2, <1>3, <1>5

(* What a unit may be while its step runs.                                   *)
UnitMay(u, to) ==
    /\ to \in [phase : {"calling", "sleeping", "completed", "failed"}, calls : Nat]
    /\ to.calls <= Executor!Attempts(u)
    /\ to.phase = "sleeping" => to.calls < Executor!Attempts(u)

(* A unit that calls its tool goes over to a state that it may have then.    *)
LEMMA UnitMoves ==
    ASSUME ExecutorIInv, NEW u \in Executor!Units, UNCHANGED <<step, unitStatus>>,
           unitStatus = "running",
           NEW new, UnitMay(u, new),
           unit[u].phase \in {"calling", "sleeping"},
           unit' = [unit EXCEPT ![u] = new]
    PROVE  ExecutorIInv'
<1>1. /\ unit \in [Executor!Units -> [phase : {"idle", "calling", "sleeping", "completed", "failed"},
                                      calls : Nat]]
      /\ new \in [phase : {"idle", "calling", "sleeping", "completed", "failed"}, calls : Nat]
      /\ step.parts \in Nat /\ 1..step.parts \subseteq Executor!Units
  BY StepShape DEF ExecutorIInv, Executor!TypeOK, UnitMay
<1>2. /\ unit'[u] = new /\ \A v \in Executor!Units : v # u => unit'[v] = unit[v]
      /\ new.phase # "idle"
  BY <1>1 DEF UnitMay
<1>3. Executor!TypeOK'
  BY <1>1 DEF ExecutorIInv, Executor!TypeOK, Executor!Units, Executor!StepConfig
<1>4. AttemptsFit'
  <2>1. \A v : Executor!Attempts(v)' = Executor!Attempts(v)
    BY DEF Executor!Attempts
  <2> QED
    BY <1>2, <2>1 DEF AttemptsFit, ExecutorIInv, Executor!Units, UnitMay
<1>5. LoopFits'
  <2> SUFFICES ASSUME step.kind = "loop" PROVE LoopFits'
    BY DEF LoopFits
  <2>1. PICK m \in 0..step.parts : ItemsFit(m)
    BY DEF ExecutorIInv, LoopFits
  <2>2. ItemsFit(m)'
    <3>1. \A v \in 1..step.parts : unit'[v].phase # "idle" <=> v <= m
      BY <1>1, <1>2, <2>1 DEF ItemsFit
    <3>2. \A v \in 1..step.parts : v < m => v # u
      BY <2>1 DEF ItemsFit, Executor!Over
    <3> QED
      BY <1>1, <1>2, <2>1, <3>1, <3>2 DEF ItemsFit, Executor!Over
  <2>3. \E k \in 0..step'.parts : ItemsFit(k)'
    BY <2>2
  <2> QED
    BY <2>3 DEF LoopFits
<1> QED
  BY <1>3, <1>4, <1>5 DEF ExecutorIInv

(* An end of the step, which a loop reaches only as it should.               *)
LEMMA EndKeeps ==
    ASSUME ExecutorIInv, NEW result \in {"completed", "failed"}, Executor!Ends(result),
           step.kind = "loop" /\ result = "completed" /\ ~step.lenient =>
               \A u \in 1..step.parts : unit[u].phase = "completed"
    PROVE  ExecutorIInv'
<1>1. UNCHANGED <<step, unit>> /\ unitStatus' = result
  BY DEF Executor!Ends
<1>2. Executor!TypeOK' /\ AttemptsFit'
  BY <1>1 DEF ExecutorIInv, Executor!TypeOK, AttemptsFit, Executor!Units, Executor!StepConfig,
              Executor!Attempts
<1>3. \A m : ItemsFit(m)' <=> ItemsFit(m)
  BY <1>1 DEF ItemsFit, Executor!Over
<1>4. LoopFits'
  BY <1>1, <1>3 DEF ExecutorIInv, LoopFits
<1> QED
  BY <1>2, <1>4 DEF ExecutorIInv

(* A step that has been handed over and not begun.                           *)
LEMMA ExecutorInit == Executor!Init => ExecutorIInv
<1> SUFFICES ASSUME Executor!Init PROVE ExecutorIInv
  OBVIOUS
<1>1. /\ step \in Executor!StepConfig /\ unitStatus = "new"
      /\ unit = [u \in Executor!Units |-> [phase |-> "idle", calls |-> 0]]
  BY DEF Executor!Init, SmallSteps, Executor!StepConfig, Executor!Units
<1>2. Executor!TypeOK
  BY <1>1 DEF Executor!TypeOK
<1>3. \A u \in Executor!Units : unit[u].phase = "idle" /\ unit[u].calls = 0
  BY <1>1
<1>4. AttemptsFit
  BY <1>2, <1>3, StepShape DEF AttemptsFit
<1>5. ItemsFit(0) /\ 0 \in 0..step.parts
  BY <1>2, <1>3, StepShape DEF ItemsFit
<1>6. LoopFits
  BY <1>1, <1>2, <1>3, <1>5, StepShape DEF LoopFits
<1> QED
  BY <1>2, <1>4, <1>6 DEF ExecutorIInv

(* execute_step begins.                                                      *)
LEMMA ExecuteKeeps ==
    ASSUME ExecutorIInv, Executor!ExecuteStep
    PROVE  ExecutorIInv'
<1>1. /\ unitStatus = "new" /\ UNCHANGED step
      /\ unitStatus' \in {"running", "failed"}
      /\ step \in Executor!StepConfig
  BY DEF Executor!ExecuteStep, ExecutorIInv, Executor!TypeOK, Executor!StepConfig
<1>2. /\ step.parts \in Nat /\ 1..step.parts \subseteq Executor!Units
      /\ 0 \in Executor!Units
  BY StepShape, MaxPartsAssumption DEF ExecutorIInv
<1>3. PICK us \in SUBSET Executor!Units :
          /\ unit' = Executor!Running(us)
          /\ step.kind = "loop" => us = IF step.parts > 0 THEN {1} ELSE {}
  <2>1. unit = Executor!Running({})
    BY DEF ExecutorIInv, Executor!TypeOK, Executor!Running
  <2>2. CASE step.kind = "tool"
    BY <1>2, <2>2 DEF Executor!ExecuteStep
  <2>3. CASE step.kind = "parallel" /\ step.parts > 0
    BY <1>2, <2>3 DEF Executor!ExecuteStep
  <2>4. CASE step.kind = "loop"
    <3>1. unit' = IF step.parts > 0 THEN Executor!Running({1}) ELSE unit
      BY <2>4 DEF Executor!ExecuteStep
    <3>2. step.parts > 0 => 1 \in Executor!Units
      BY <1>2
    <3> QED
      BY <2>1, <2>4, <3>1, <3>2
  <2>5. CASE step.kind \notin {"tool", "loop"} /\ ~(step.kind = "parallel" /\ step.parts > 0)
    <3>1. UNCHANGED unit
      BY <2>5 DEF Executor!ExecuteStep
    <3> QED
      BY <2>1, <2>5, <3>1
  <2> QED
    BY <2>2, <2>3, <2>4, <2>5
<1>4. /\ unit' \in [Executor!Units -> [phase : {"idle", "calling", "sleeping", "completed", "failed"},
                                       calls : Nat]]
      /\ AttemptsFit'
      /\ \A u \in Executor!Units : u \notin us => unit'[u] = unit[u]
      /\ \A u \in us : unit'[u].phase \in {"calling", "completed", "failed"}
  BY <1>1, <1>3, UnitsEnter
<1>5. Executor!TypeOK'
  BY <1>1, <1>4 DEF Executor!TypeOK, Executor!Units, Executor!StepConfig
<1>6. LoopFits'
  <2> SUFFICES ASSUME step.kind = "loop" PROVE LoopFits'
    BY <1>1 DEF LoopFits
  <2>1. \A u \in 1..step.parts : unit[u].phase = "idle"
    BY <1>1 DEF ExecutorIInv, LoopFits
  <2>2. PICK m \in 0..step.parts : m = IF step.parts > 0 THEN 1 ELSE 0
    BY <1>2
  <2>3. \A u \in 1..step.parts : u \in us <=> u <= m
    BY <1>2, <1>3, <2>2
  <2>4. \A u \in 1..step.parts : ~(u < m)
    BY <1>2, <2>2
  <2>5. ItemsFit(m)'
    BY <1>1, <1>2, <1>4, <2>1, <2>3, <2>4 DEF ItemsFit
  <2>6. \E k \in 0..step'.parts : ItemsFit(k)'
    BY <1>1, <2>5
  <2> QED
    BY <1>1, <2>6 DEF LoopFits
<1> QED
  BY <1>4, <1>5, <1>6 DEF ExecutorIInv

(* The loop starts its next item.                                            *)
LEMMA LoopGoesOnKeeps ==
    ASSUME ExecutorIInv, Executor!LoopGoesOn
    PROVE  ExecutorIInv'
<1>1. PICK m \in 0..step.parts : ItemsFit(m)
  BY DEF Executor!LoopGoesOn, ExecutorIInv, LoopFits
<1>2. Executor!LoopAt = m
  BY <1>1, LoopIsAt DEF ExecutorIInv
<1>3. /\ step.kind = "loop" /\ unitStatus = "running" /\ m \in 1..(step.parts - 1)
      /\ Executor!Over(m)
      /\ unit[m].phase = "completed" \/ step.lenient
      /\ unit' = Executor!Running({m + 1}) /\ UNCHANGED <<step, unitStatus>>
  BY <1>2 DEF Executor!LoopGoesOn
<1>4. /\ step.parts \in Nat /\ 1..step.parts \subseteq Executor!Units
      /\ m + 1 \in 1..step.parts /\ m + 1 \in Executor!Units
  BY <1>3, StepShape DEF ExecutorIInv
<1>5. /\ unit' \in [Executor!Units -> [phase : {"idle", "calling", "sleeping", "completed", "failed"},
                                       calls : Nat]]
      /\ AttemptsFit'
      /\ \A u \in Executor!Units : u # m + 1 => unit'[u] = unit[u]
      /\ unit'[m + 1].phase \in {"calling", "completed", "failed"}
  <2>1. {m + 1} \in SUBSET Executor!Units
    BY <1>4
  <2> QED
    BY <1>3, <2>1, UnitsEnter
<1>6. Executor!TypeOK'
  BY <1>3, <1>5 DEF ExecutorIInv, Executor!TypeOK, Executor!Units, Executor!StepConfig
<1>7. ItemsFit(m + 1)'
  <2>1. ASSUME NEW u \in 1..step.parts
        PROVE  unit'[u].phase # "idle" <=> u <= m + 1
    <3>1. u \in Executor!Units /\ (u <= m + 1 <=> u <= m \/ u = m + 1)
      BY <1>4
    <3>2. unit[u].phase # "idle" <=> u <= m
      BY <1>1 DEF ItemsFit
    <3> QED
      BY <1>4, <1>5, <3>1, <3>2
  <2>2. \A u \in 1..step.parts : u < m + 1 =>
            /\ unit'[u] = unit[u] /\ unit[u].phase \in {"completed", "failed"}
            /\ unit[u].phase = "completed" \/ step.lenient
    <3> SUFFICES ASSUME NEW u \in 1..step.parts, u < m + 1
                 PROVE  /\ unit'[u] = unit[u] /\ unit[u].phase \in {"completed", "failed"}
                        /\ unit[u].phase = "completed" \/ step.lenient
      OBVIOUS
    <3>1. u \in Executor!Units /\ u # m + 1 /\ (u = m \/ u < m)
      BY <1>4
    <3>2. unit'[u] = unit[u]
      BY <1>5, <3>1
    <3> QED
      BY <1>1, <1>3, <3>1, <3>2 DEF ItemsFit, Executor!Over
  <2> QED
    BY <1>3, <2>1, <2>2 DEF ItemsFit, Executor!Over
<1>8. LoopFits'
  <2>1. \E k \in 0..step'.parts : ItemsFit(k)'
    BY <1>3, <1>4, <1>7
  <2> QED
    BY <1>3, <2>1 DEF LoopFits
<1> QED
  BY <1>5, <1>6, <1>8 DEF ExecutorIInv

(* Every step of the interpreter keeps its invariant.                        *)
LEMMA ExecutorKept == ExecutorIInv /\ [Executor!Next]_executorVars => ExecutorIInv'
<1> SUFFICES ASSUME ExecutorIInv, [Executor!Next]_executorVars PROVE ExecutorIInv'
  OBVIOUS
<1>1. ASSUME NEW u \in Executor!Units,
             \/ Executor!CallReturns(u) \/ Executor!CallRaises(u)
             \/ Executor!CallTimesOut(u) \/ Executor!RetryCall(u)
      PROVE  ExecutorIInv'
  <2>1. /\ UNCHANGED <<step, unitStatus>> /\ unitStatus = "running"
        /\ unit[u].phase \in {"calling", "sleeping"}
    BY <1>1 DEF Executor!CallReturns, Executor!CallRaises, Executor!CallTimesOut,
                Executor!RetryCall, Executor!UnitAction
  <2>2. /\ unit[u] \in [phase : {"idle", "calling", "sleeping", "completed", "failed"}, calls : Nat]
        /\ unit[u].calls \in Nat /\ unit[u].calls <= Executor!Attempts(u)
        /\ unit[u].phase = "sleeping" => unit[u].calls < Executor!Attempts(u)
        /\ Executor!Attempts(u) \in Nat /\ u \in DOMAIN unit
    BY StepShape DEF ExecutorIInv, Executor!TypeOK, AttemptsFit
  <2>3. ASSUME NEW p \in {"sleeping", "completed", "failed"},
               unit' = [unit EXCEPT ![u].phase = p],
               p = "sleeping" => unit[u].calls # Executor!Attempts(u)
        PROVE  \E to : UnitMay(u, to) /\ unit' = [unit EXCEPT ![u] = to]
    <3> DEFINE new == [unit[u] EXCEPT !.phase = p]
    <3>1. new.phase = p /\ new.calls = unit[u].calls
          /\ new \in [phase : {"calling", "sleeping", "completed", "failed"}, calls : Nat]
      BY <2>2
    <3>2. unit' = [unit EXCEPT ![u] = new]
      BY <2>2, <2>3
    <3> HIDE DEF new
    <3>3. UnitMay(u, new)
      BY <2>2, <2>3, <3>1 DEF UnitMay
    <3> QED
      BY <3>2, <3>3
  <2>4. ASSUME Executor!CallReturns(u)
        PROVE  \E to : UnitMay(u, to) /\ unit' = [unit EXCEPT ![u] = to]
    BY <2>3, <2>4 DEF Executor!CallReturns
  <2>5. ASSUME Executor!Failed(u)
        PROVE  \E to : UnitMay(u, to) /\ unit' = [unit EXCEPT ![u] = to]
    BY <2>3, <2>5 DEF Executor!Failed
  <2>6. ASSUME Executor!RetryCall(u)
        PROVE  \E to : UnitMay(u, to) /\ unit' = [unit EXCEPT ![u] = to]
    <3> DEFINE new == [phase |-> "calling", calls |-> unit[u].calls + 1]
    <3>1. unit' = [unit EXCEPT ![u] = new] /\ unit[u].phase = "sleeping"
      BY <2>2, <2>6 DEF Executor!RetryCall
    <3>2. new \in [phase : {"calling", "sleeping", "completed", "failed"}, calls : Nat]
      BY <2>2
    <3>3. UnitMay(u, new)
      BY <2>2, <3>1, <3>2 DEF UnitMay
    <3> QED
      BY <3>1, <3>3
  <2>7. PICK to : UnitMay(u, to) /\ unit' = [unit EXCEPT ![u] = to]
    BY <1>1, <2>4, <2>5, <2>6 DEF Executor!CallRaises, Executor!CallTimesOut
  <2> QED
    BY <2>1, <2>7, UnitMoves
<1>2. CASE Executor!ToolStepEnds \/ Executor!SingleStepEnds \/ Executor!ParallelStepEnds
  <2>1. \E r \in {"completed", "failed"} : Executor!Ends(r)
    BY <1>2 DEF Executor!ToolStepEnds, Executor!SingleStepEnds, Executor!ParallelStepEnds,
                Executor!Over
  <2>2. step.kind # "loop"
    BY <1>2 DEF Executor!ToolStepEnds, Executor!SingleStepEnds, Executor!ParallelStepEnds
  <2> QED
    BY <2>1, <2>2, EndKeeps
<1>3. CASE Executor!LoopStepEnds
  <2>1. PICK m \in 0..step.parts : ItemsFit(m)
    BY <1>3 DEF Executor!LoopStepEnds, ExecutorIInv, LoopFits
  <2>2. Executor!LoopAt = m /\ step.parts \in Nat /\ 1..step.parts \subseteq Executor!Units
    BY <2>1, LoopIsAt, StepShape DEF ExecutorIInv
  <2>3. CASE step.parts > 0 /\ unit[m].phase = "failed" /\ ~step.lenient
    <3>1. Executor!Ends("failed")
      BY <1>3, <2>2, <2>3 DEF Executor!LoopStepEnds
    <3> QED
      BY <3>1, EndKeeps
  <2>4. CASE ~(step.parts > 0 /\ unit[m].phase = "failed" /\ ~step.lenient)
    <3>1. /\ Executor!Ends("completed")
          /\ \A u \in 1..step.parts : unit[u].phase \in {"completed", "failed"}
      BY <1>3, <2>2, <2>4 DEF Executor!LoopStepEnds, Executor!Over
    <3>2. ASSUME NEW u \in 1..step.parts, ~step.lenient PROVE unit[u].phase = "completed"
      <4>1. u <= m
        BY <2>1, <2>2, <3>1 DEF ItemsFit
      <4>2. CASE u = m
        BY <2>2, <2>4, <3>1, <3>2, <4>2
      <4>3. CASE u < m
        BY <2>1, <3>2, <4>3 DEF ItemsFit
      <4> QED
        BY <2>2, <4>1, <4>2, <4>3
    <3> QED
      BY <3>1, <3>2, EndKeeps
  <2> QED
    BY <2>3, <2>4
<1>4. CASE UNCHANGED executorVars
  <2>1. UNCHANGED <<step, unitStatus, unit>>
    BY <1>4 DEF executorVars
  <2>2. \A m : ItemsFit(m)' <=> ItemsFit(m)
    BY <2>1 DEF ItemsFit, Executor!Over
  <2> QED
    BY <2>1, <2>2 DEF ExecutorIInv, Executor!TypeOK, AttemptsFit, LoopFits, Executor!Units,
                      Executor!StepConfig, Executor!Attempts
<1>5. Executor!Done => UNCHANGED executorVars
  BY DEF Executor!Done, Executor!vars, executorVars
<1> QED
  BY <1>1, <1>2, <1>3, <1>4, <1>5, ExecuteKeeps, LoopGoesOnKeeps
  DEF Executor!Next, Executor!StepEnds

(* A report of the interpreter is honest.                                    *)
LEMMA LoopHolds == ExecutorIInv => Executor!LoopIsHonest
<1> SUFFICES ASSUME ExecutorIInv PROVE Executor!LoopIsHonest
  OBVIOUS
<1>1. ASSUME step.kind = "loop", NEW u \in 2..step.parts, unit[u].phase # "idle"
      PROVE  Executor!Over(u - 1)
  <2>1. PICK m \in 0..step.parts : ItemsFit(m)
    BY <1>1 DEF ExecutorIInv, LoopFits
  <2>2. u \in 1..step.parts /\ u - 1 \in 1..step.parts /\ step.parts \in Nat
    BY StepShape DEF ExecutorIInv
  <2>3. u <= m
    BY <1>1, <2>1, <2>2 DEF ItemsFit
  <2>4. u - 1 < m
    BY <2>2, <2>3
  <2> QED
    BY <2>1, <2>2, <2>4 DEF ItemsFit
<1> QED
  BY <1>1 DEF ExecutorIInv, LoopFits, AttemptsFit, Executor!LoopIsHonest
-----------------------------------------------------------------------------
(* Executions and their results, composition/orchestrator.py.                *)

Run == [workflow : WorkflowIds, version : Versions,
        status : {"running", "completed", "failed", "lost"}]
Answers == {"nothing", "unknown"} \cup Orchestrator!Ended

(* n executions, as the orchestrator and its callers know them.              *)
ExecutionsFit(n) ==
    /\ runs \in [1..n -> Run]
    /\ told \in [1..n -> Answers]
    /\ history \in [DOMAIN history -> Orchestrator!Ended]
    /\ DOMAIN history \subseteq 1..n

(* What callers were told of an end is the end.                              *)
ToldFits == \A e \in Orchestrator!Executions :
                told[e] \in Orchestrator!Ended => runs[e].status = told[e]

(* With an orchestrator per request nothing stays registered.                *)
RegistryFits == deployment = "http" => \A w \in WorkflowIds : registry[w] = 0

(* The inductive invariant of the orchestrator.                              *)
OrchestratorIInv ==
    /\ Orchestrator!TypeOK
    /\ \E n \in 0..MaxExecutions : ExecutionsFit(n)
    /\ ToldFits
    /\ RegistryFits
    /\ Orchestrator!HistoryIsHonest

(* An orchestrator that has been initialized.                                *)
LEMMA OrchestratorInit == Orchestrator!Init => OrchestratorIInv
<1> SUFFICES ASSUME Orchestrator!Init PROVE OrchestratorIInv
  OBVIOUS
<1>1. /\ DOMAIN runs = {} /\ DOMAIN told = {} /\ DOMAIN history = {}
      /\ registry \in [WorkflowIds -> Versions \cup {0}] /\ restarts \in 0..MaxRestarts
      /\ \A w \in WorkflowIds : registry[w] = 0
      /\ deployment \in {"library", "http"}
  BY BoundsAssumption DEF Orchestrator!Init, Orchestrator!Nothing
<1>2. 1..0 = {} /\ 0 \in 0..MaxExecutions
  BY BoundsAssumption
<1>3. ExecutionsFit(0)
  BY <1>1, <1>2 DEF ExecutionsFit, Orchestrator!Init, Orchestrator!Nothing
<1>4. Orchestrator!TypeOK
  BY <1>1, <1>2, <1>3 DEF Orchestrator!TypeOK, ExecutionsFit, Run, Answers
<1> QED
  BY <1>1, <1>2, <1>3, <1>4
  DEF OrchestratorIInv, ToldFits, RegistryFits, Orchestrator!HistoryIsHonest,
      Orchestrator!Executions

(* Executions are numbered from 1.                                           *)
LEMMA ExecutionsNumbered ==
    ASSUME NEW n \in 0..MaxExecutions, ExecutionsFit(n)
    PROVE  /\ n \in Nat /\ Orchestrator!Executions = 1..n
           /\ Orchestrator!Cardinality(Orchestrator!Executions) = n
<1>1. n \in Nat /\ Orchestrator!Executions = 1..n
  BY BoundsAssumption DEF ExecutionsFit, Orchestrator!Executions
<1>2. 1 \in Int /\ n \in Int
  BY <1>1
<1>3. IsFiniteSet(1..n)
  BY <1>2, FS_Interval
<1>4. Cardinality(1..n) = n
  BY <1>1, <1>2, FS_Interval
<1>5. Orchestrator!Cardinality(1..n) = Cardinality(1..n)
  BY DEF Orchestrator!Cardinality, Cardinality, Orchestrator!IsFiniteSet, IsFiniteSet
<1> QED
  BY <1>1, <1>4, <1>5

(* A step that fits the executions is of the right types.                    *)
LEMMA OrchestratorTypes ==
    ASSUME NEW n \in 0..MaxExecutions, ExecutionsFit(n)',
           deployment' \in {"library", "http"},
           registry' \in [WorkflowIds -> Versions \cup {0}], restarts' \in 0..MaxRestarts
    PROVE  Orchestrator!TypeOK'
<1>1. /\ runs' \in [1..n -> Run] /\ told' \in [1..n -> Answers]
      /\ DOMAIN history' \subseteq 1..n /\ DOMAIN runs' = 1..n
      /\ \A e \in DOMAIN history' : history'[e] \in Orchestrator!Ended
  BY DEF ExecutionsFit
<1> QED
  BY <1>1 DEF Orchestrator!TypeOK, Run, Answers, Orchestrator!Executions, Orchestrator!Ended

(* The registry changes, and nothing else.                                   *)
LEMMA RegistryKeeps ==
    ASSUME OrchestratorIInv,
           \/ \E w \in WorkflowIds, v \in Versions : Orchestrator!RegisterWorkflow(w, v)
           \/ \E w \in WorkflowIds : Orchestrator!DeleteWorkflow(w)
    PROVE  OrchestratorIInv'
<1>1. UNCHANGED <<deployment, runs, history, told, restarts>>
  BY DEF Orchestrator!RegisterWorkflow, Orchestrator!DeleteWorkflow
<1>2. registry \in [WorkflowIds -> Versions \cup {0}]
      /\ deployment \in {"library", "http"} /\ restarts \in 0..MaxRestarts
  BY DEF OrchestratorIInv, Orchestrator!TypeOK
<1>3. registry' \in [WorkflowIds -> Versions \cup {0}]
  BY <1>2 DEF Orchestrator!RegisterWorkflow, Orchestrator!DeleteWorkflow, Orchestrator!Kept
<1>4. RegistryFits'
  BY <1>1, <1>2 DEF Orchestrator!RegisterWorkflow, Orchestrator!DeleteWorkflow, Orchestrator!Kept,
                    RegistryFits, OrchestratorIInv
<1>5. PICK n \in 0..MaxExecutions : ExecutionsFit(n)
  BY DEF OrchestratorIInv
<1>6. ExecutionsFit(n)'
  BY <1>1, <1>5 DEF ExecutionsFit
<1>7. Orchestrator!TypeOK'
  BY <1>1, <1>2, <1>3, <1>6, OrchestratorTypes
<1>8. ToldFits' /\ Orchestrator!HistoryIsHonest'
  BY <1>1 DEF OrchestratorIInv, ToldFits, Orchestrator!HistoryIsHonest, Orchestrator!Executions
<1> QED
  BY <1>4, <1>6, <1>7, <1>8 DEF OrchestratorIInv

(* A step of the executions there are.                                       *)
LEMMA ExecutionsKeep ==
    ASSUME OrchestratorIInv, NEW n \in 0..MaxExecutions, ExecutionsFit(n),
           UNCHANGED deployment, registry' \in [WorkflowIds -> Versions \cup {0}],
           RegistryFits', restarts' \in 0..MaxRestarts,
           ExecutionsFit(n)',
           \A e \in DOMAIN history' : runs'[e].status = history'[e],
           \A e \in 1..n : told'[e] \in Orchestrator!Ended => runs'[e].status = told'[e]
    PROVE  OrchestratorIInv'
<1>1. Orchestrator!TypeOK'
  BY OrchestratorTypes DEF OrchestratorIInv, Orchestrator!TypeOK
<1>2. Orchestrator!Executions = 1..n /\ Orchestrator!Executions' = 1..n
  BY DEF ExecutionsFit, Orchestrator!Executions
<1>3. ToldFits' /\ Orchestrator!HistoryIsHonest'
  BY <1>2 DEF OrchestratorIInv, ToldFits, Orchestrator!HistoryIsHonest
<1> QED
  BY <1>1, <1>3 DEF OrchestratorIInv

(* An execution starts.                                                      *)
LEMMA ExecuteWorkflowKeeps ==
    ASSUME OrchestratorIInv, NEW w \in WorkflowIds, Orchestrator!ExecuteWorkflow(w)
    PROVE  OrchestratorIInv'
<1>1. PICK n \in 0..MaxExecutions : ExecutionsFit(n)
  BY DEF OrchestratorIInv
<1>2. /\ n \in Nat /\ Orchestrator!Executions = 1..n
      /\ Orchestrator!Cardinality(Orchestrator!Executions) = n
  BY <1>1, ExecutionsNumbered
<1>3. /\ registry[w] # 0 /\ n < MaxExecutions
      /\ runs' = [d \in 1..(n + 1) |->
                     IF d = n + 1 THEN [workflow |-> w, version |-> registry[w],
                                        status |-> "running"] ELSE runs[d]]
      /\ told' = [d \in 1..(n + 1) |-> IF d = n + 1 THEN "nothing" ELSE told[d]]
      /\ UNCHANGED <<deployment, registry, history, restarts>>
  BY <1>2 DEF Orchestrator!ExecuteWorkflow, Orchestrator!RequestIsValid
<1>4. /\ registry \in [WorkflowIds -> Versions \cup {0}] /\ restarts \in 0..MaxRestarts
      /\ deployment \in {"library", "http"}
  BY DEF OrchestratorIInv, Orchestrator!TypeOK
<1>5. /\ n + 1 \in 0..MaxExecutions /\ \A d \in 1..(n + 1) : d # n + 1 => d \in 1..n
      /\ \A d \in 1..n : d \in 1..(n + 1) /\ d # n + 1
  BY <1>2, <1>3, BoundsAssumption
<1>6. ExecutionsFit(n + 1)'
  <2>1. runs' \in [1..(n + 1) -> Run]
    BY <1>1, <1>3, <1>4, <1>5 DEF ExecutionsFit, Run
  <2>2. told' \in [1..(n + 1) -> Answers]
    BY <1>1, <1>3, <1>5 DEF ExecutionsFit, Answers
  <2>3. history' \in [DOMAIN history' -> Orchestrator!Ended] /\ DOMAIN history' \subseteq 1..(n + 1)
    BY <1>1, <1>3, <1>5 DEF ExecutionsFit
  <2> QED
    BY <2>1, <2>2, <2>3 DEF ExecutionsFit
<1>7. /\ DOMAIN runs' = 1..(n + 1) /\ \A d \in 1..n : runs'[d] = runs[d] /\ told'[d] = told[d]
      /\ told'[n + 1] = "nothing"
  BY <1>2, <1>3, <1>5
<1>8. Orchestrator!TypeOK'
  BY <1>3, <1>4, <1>5, <1>6, OrchestratorTypes
<1>9. ToldFits'
  BY <1>2, <1>5, <1>7 DEF OrchestratorIInv, ToldFits, Orchestrator!Executions, Orchestrator!Ended
<1>10. deployment # "http"
  BY <1>3 DEF OrchestratorIInv, RegistryFits
<1>11. Orchestrator!HistoryIsHonest'
  <2>1. DOMAIN history \subseteq 1..n
    BY <1>1 DEF ExecutionsFit
  <2> QED
    BY <1>3, <1>7, <1>10, <2>1 DEF OrchestratorIInv, Orchestrator!HistoryIsHonest
<1>12. RegistryFits'
  BY <1>3 DEF OrchestratorIInv, RegistryFits
<1>13. \E k \in 0..MaxExecutions : ExecutionsFit(k)'
  BY <1>5, <1>6
<1> QED
  BY <1>8, <1>9, <1>11, <1>12, <1>13 DEF OrchestratorIInv

(* What the orchestrator writes about one execution.                         *)
LEMMA Written ==
    ASSUME NEW n, ExecutionsFit(n), NEW e \in 1..n, NEW r \in Orchestrator!Ended
    PROVE  /\ DOMAIN Orchestrator!With(history, e, r) = DOMAIN history \cup {e}
           /\ Orchestrator!With(history, e, r)
                \in [DOMAIN history \cup {e} -> Orchestrator!Ended]
           /\ Orchestrator!With(history, e, r)[e] = r
           /\ \A d \in DOMAIN history \ {e} : Orchestrator!With(history, e, r)[d] = history[d]
BY DEF ExecutionsFit, Orchestrator!With

(* Every step of the orchestrator keeps its invariant.                       *)
LEMMA OrchestratorKept == OrchestratorIInv /\ [Orchestrator!Next]_orchestratorVars => OrchestratorIInv'
<1> SUFFICES ASSUME OrchestratorIInv, [Orchestrator!Next]_orchestratorVars PROVE OrchestratorIInv'
  OBVIOUS
<1>1. PICK n \in 0..MaxExecutions : ExecutionsFit(n)
  BY DEF OrchestratorIInv
<1>2. /\ n \in Nat /\ Orchestrator!Executions = 1..n
  BY <1>1, ExecutionsNumbered
<1>3. /\ registry \in [WorkflowIds -> Versions \cup {0}] /\ restarts \in 0..MaxRestarts
      /\ deployment \in {"library", "http"} /\ RegistryFits
  BY DEF OrchestratorIInv, Orchestrator!TypeOK
<1>4. /\ runs \in [1..n -> Run] /\ told \in [1..n -> Answers]
      /\ history \in [DOMAIN history -> Orchestrator!Ended]
      /\ DOMAIN history \subseteq 1..n
      /\ \A e \in DOMAIN history : history[e] \in Orchestrator!Ended
      /\ \A e \in DOMAIN history : runs[e].status = history[e]
      /\ \A e \in 1..n : told[e] \in Orchestrator!Ended => runs[e].status = told[e]
  BY <1>1, <1>2 DEF ExecutionsFit, OrchestratorIInv, Orchestrator!HistoryIsHonest, ToldFits
<1>5. UNCHANGED registry => (UNCHANGED deployment => RegistryFits')
  BY <1>3 DEF RegistryFits
<1>6. ASSUME NEW e \in 1..n, Orchestrator!ExecutionReturns(e) \/ Orchestrator!ExecutionRaises(e)
      PROVE  OrchestratorIInv'
  <2>1. PICK s \in {"completed", "failed"} :
            /\ runs[e].status = "running" /\ runs' = [runs EXCEPT ![e].status = s]
            /\ history' \in {history, Orchestrator!With(history, e, s)}
            /\ UNCHANGED <<deployment, registry, told, restarts>>
    BY <1>6 DEF Orchestrator!ExecutionReturns, Orchestrator!ExecutionRaises
  <2>2. s \in Orchestrator!Ended /\ "running" \notin Orchestrator!Ended
    BY DEF Orchestrator!Ended
  <2>3. runs' = [runs EXCEPT ![e] = [runs[e] EXCEPT !.status = s]]
    BY <1>4, <2>1
  <2>4. [runs[e] EXCEPT !.status = s] \in Run /\ [runs[e] EXCEPT !.status = s].status = s
    BY <1>4 DEF Run
  <2>5. /\ runs' \in [1..n -> Run] /\ runs'[e].status = s
        /\ \A d \in 1..n : d # e => runs'[d] = runs[d]
    BY <1>4, <2>3, <2>4
  <2>6. e \notin DOMAIN history
    BY <1>4, <2>1, <2>2
  <2>7. /\ history' \in [DOMAIN history' -> Orchestrator!Ended] /\ DOMAIN history' \subseteq 1..n
        /\ \A d \in DOMAIN history' : runs'[d].status = history'[d]
    <3>1. CASE history' = history
      BY <1>4, <2>5, <2>6, <3>1
    <3>2. CASE history' = Orchestrator!With(history, e, s)
      <4>1. /\ DOMAIN history' = DOMAIN history \cup {e}
            /\ history' \in [DOMAIN history \cup {e} -> Orchestrator!Ended]
            /\ history'[e] = s
            /\ \A d \in DOMAIN history \ {e} : history'[d] = history[d]
        BY <1>1, <2>2, <3>2, Written
      <4> QED
        BY <1>4, <2>5, <2>6, <4>1
    <3> QED
      BY <2>1, <3>1, <3>2
  <2>8. ExecutionsFit(n)'
    BY <1>4, <2>1, <2>5, <2>7 DEF ExecutionsFit
  <2>9. \A d \in 1..n : told'[d] \in Orchestrator!Ended => runs'[d].status = told'[d]
    BY <1>4, <2>1, <2>2, <2>5
  <2>10. RegistryFits'
    BY <1>5, <2>1
  <2> QED
    BY <1>1, <1>3, <2>1, <2>7, <2>8, <2>9, <2>10, ExecutionsKeep
<1>7. ASSUME NEW e \in 1..n, Orchestrator!GetWorkflowStatus(e)
      PROVE  OrchestratorIInv'
  <2>1. PICK a : a = IF e \in DOMAIN history THEN history[e] ELSE "unknown"
    OBVIOUS
  <2>2. /\ told' = [told EXCEPT ![e] = a]
        /\ UNCHANGED <<deployment, registry, runs, history, restarts>>
    BY <1>7, <2>1 DEF Orchestrator!GetWorkflowStatus
  <2>3. a \in Answers /\ (a \in Orchestrator!Ended => runs[e].status = a)
    BY <1>4, <2>1 DEF Answers, Orchestrator!Ended
  <2>4. told' \in [1..n -> Answers]
        /\ \A d \in 1..n : told'[d] \in Orchestrator!Ended => runs'[d].status = told'[d]
    BY <1>4, <2>2, <2>3
  <2>5. ExecutionsFit(n)' /\ RegistryFits'
    BY <1>4, <1>5, <2>2, <2>4 DEF ExecutionsFit
  <2> QED
    BY <1>1, <1>3, <1>4, <2>2, <2>4, <2>5, ExecutionsKeep
<1>8. ASSUME NEW S \in SUBSET DOMAIN history, history' = [e \in S |-> history[e]],
             UNCHANGED <<deployment, registry, runs, told, restarts>>
      PROVE  OrchestratorIInv'
  <2>1. /\ DOMAIN history' = S /\ history' \in [S -> Orchestrator!Ended]
        /\ \A e \in S : history'[e] = history[e]
    BY <1>4, <1>8
  <2>2. ExecutionsFit(n)' /\ RegistryFits'
    BY <1>4, <1>5, <1>8, <2>1 DEF ExecutionsFit
  <2> QED
    BY <1>1, <1>3, <1>4, <1>8, <2>1, <2>2, ExecutionsKeep
<1>9. ASSUME NEW e, Orchestrator!CancelWorkflow(e) \/ Orchestrator!CleanupOldExecutions(e + 1)
      PROVE  OrchestratorIInv'
  <2>1. history = [d \in DOMAIN history |-> history[d]]
    BY <1>4
  <2>2. /\ UNCHANGED <<deployment, registry, runs, told, restarts>>
        /\ \E S \in SUBSET DOMAIN history : history' = [d \in S |-> history[d]]
    BY <1>9, <2>1 DEF Orchestrator!CancelWorkflow, Orchestrator!ActiveExecutions,
                      Orchestrator!CleanupOldExecutions
  <2> QED
    BY <1>8, <2>2
<1>10. CASE Orchestrator!Restart
  <2>1. /\ restarts < MaxRestarts /\ restarts' = restarts + 1
        /\ registry' = [w \in WorkflowIds |-> 0]
        /\ DOMAIN history' = {} /\ history' = [e \in {} |-> "none"]
        /\ runs' = [e \in 1..n |-> IF runs[e].status = "running"
                                   THEN [runs[e] EXCEPT !.status = "lost"] ELSE runs[e]]
        /\ UNCHANGED <<deployment, told>>
    BY <1>2, <1>10 DEF Orchestrator!Restart, Orchestrator!Nothing
  <2>2. restarts' \in 0..MaxRestarts
    BY <1>3, <2>1, BoundsAssumption
  <2>3. registry' \in [WorkflowIds -> Versions \cup {0}] /\ RegistryFits'
    BY <2>1 DEF RegistryFits
  <2>4. \A e \in 1..n : [runs[e] EXCEPT !.status = "lost"] \in Run
    BY <1>4 DEF Run
  <2>5. /\ runs' \in [1..n -> Run]
        /\ \A e \in 1..n : runs[e].status # "running" => runs'[e] = runs[e]
    BY <1>4, <2>1, <2>4
  <2>6. \A e \in 1..n : told'[e] \in Orchestrator!Ended => runs'[e].status = told'[e]
    BY <1>4, <2>1, <2>5 DEF Orchestrator!Ended
  <2>7. ExecutionsFit(n)'
    BY <1>4, <2>1, <2>5 DEF ExecutionsFit
  <2> QED
    BY <1>1, <2>1, <2>2, <2>3, <2>6, <2>7, ExecutionsKeep
<1>11. CASE UNCHANGED orchestratorVars
  <2>1. UNCHANGED <<deployment, registry, runs, history, told, restarts>>
    BY <1>11 DEF orchestratorVars
  <2> QED
    BY <1>4, <1>8, <2>1
<1> QED
  BY <1>2, <1>6, <1>7, <1>9, <1>10, <1>11, RegistryKeeps, ExecuteWorkflowKeeps
  DEF Orchestrator!Next, Orchestrator!HandleRegister, Orchestrator!HandleDelete,
      Orchestrator!HandleExecute, Orchestrator!HandleStatus, Orchestrator!HandleCancel

(* What a caller was told of an end stays true, step by step.                *)
LEMMA ToldStaysTrue ==
    OrchestratorIInv /\ [Orchestrator!Next]_orchestratorVars =>
        \A e \in Orchestrator!Executions :
            /\ told[e] \in Orchestrator!Ended => told'[e] \in {told[e], "unknown"}
            /\ told[e] \in Orchestrator!Ended => runs'[e].status = told[e]
<1> SUFFICES ASSUME OrchestratorIInv, [Orchestrator!Next]_orchestratorVars,
                    NEW e \in Orchestrator!Executions, told[e] \in Orchestrator!Ended
             PROVE  told'[e] \in {told[e], "unknown"} /\ runs'[e].status = told[e]
  OBVIOUS
<1>1. PICK n \in 0..MaxExecutions : ExecutionsFit(n)
  BY DEF OrchestratorIInv
<1>2. /\ n \in Nat /\ Orchestrator!Executions = 1..n /\ e \in 1..n
      /\ Orchestrator!Cardinality(Orchestrator!Executions) = n
  BY <1>1, ExecutionsNumbered
<1>3. /\ runs[e].status = told[e] /\ runs[e].status # "running"
      /\ runs \in [1..n -> Run] /\ told \in [1..n -> Answers]
      /\ \A d \in DOMAIN history : runs[d].status = history[d]
  BY <1>1 DEF OrchestratorIInv, ToldFits, Orchestrator!Ended, ExecutionsFit,
              Orchestrator!HistoryIsHonest
<1>4. ASSUME NEW w, Orchestrator!ExecuteWorkflow(w)
      PROVE  told'[e] = told[e] /\ runs'[e] = runs[e]
  <2>1. e \in 1..(n + 1) /\ e # n + 1
    BY <1>2
  <2> QED
    BY <1>2, <1>4, <2>1 DEF Orchestrator!ExecuteWorkflow
<1>5. ASSUME NEW d \in 1..n, Orchestrator!ExecutionReturns(d) \/ Orchestrator!ExecutionRaises(d)
      PROVE  told'[e] = told[e] /\ runs'[e] = runs[e]
  BY <1>2, <1>3, <1>5 DEF Orchestrator!ExecutionReturns, Orchestrator!ExecutionRaises
<1>6. ASSUME NEW d \in 1..n, Orchestrator!GetWorkflowStatus(d)
      PROVE  told'[e] \in {told[e], "unknown"} /\ runs'[e] = runs[e]
  BY <1>3, <1>6 DEF Orchestrator!GetWorkflowStatus
<1>7. CASE Orchestrator!Restart
  BY <1>2, <1>3, <1>7 DEF Orchestrator!Restart
<1>8. CASE UNCHANGED <<told, runs>>
  BY <1>3, <1>8
<1>9. CASE UNCHANGED orchestratorVars
  BY <1>3, <1>9 DEF orchestratorVars
<1> QED
  BY <1>2, <1>3, <1>4, <1>5, <1>6, <1>7, <1>8, <1>9
  DEF Orchestrator!Next, Orchestrator!HandleRegister, Orchestrator!HandleDelete,
      Orchestrator!HandleExecute, Orchestrator!HandleStatus, Orchestrator!HandleCancel,
      Orchestrator!RegisterWorkflow, Orchestrator!DeleteWorkflow, Orchestrator!CancelWorkflow,
      Orchestrator!CleanupOldExecutions
-----------------------------------------------------------------------------
(* The subsystem.                                                            *)

(* In the composition every part does what it does alone: the engine, the    *)
(* registration check, the table, the orchestrator and the executor.         *)
THEOREM PartsWithin ==
    WorkflowsSpec => /\ Spec
                     /\ Validation!Spec
                     /\ Persistence!StoreSpec
                     /\ Orchestrator!Spec
                     /\ Executor!Init /\ [][Executor!Next]_executorVars
<1>1. WorkflowsInit => /\ Init /\ Validation!Init /\ Persistence!StoreInit
                       /\ Orchestrator!Init /\ Executor!Init
  BY DEF WorkflowsInit
<1>2. [WorkflowsNext]_workflowsVars =>
          /\ [Next]_vars
          /\ [Validation!Next]_(Validation!vars)
          /\ [Persistence!StoreNext \/ Persistence!StoreRestarts]_(Persistence!storeVars)
          /\ [Orchestrator!Next]_(Orchestrator!vars)
          /\ [Executor!Next]_executorVars
  BY DEF WorkflowsNext, workflowsVars, EngineMoves, ValidationStep, StoreStep, OrchestratorStep,
         ExecutorMoves, validationVars, storeVars, orchestratorVars, executorVars,
         Validation!vars, Persistence!storeVars, Orchestrator!vars
<1> QED
  BY <1>1, <1>2, PTL
  DEF WorkflowsSpec, Spec, Validation!Spec, Persistence!StoreSpec, Orchestrator!Spec

(* The inductive invariant of the subsystem.                                 *)
WorkflowsIInv == IInv /\ SearchIInv /\ ExecutorIInv /\ OrchestratorIInv

(* Every part keeps its invariant, whoever the subject is.                   *)
THEOREM WorkflowsInvariant == WorkflowsSpec => []WorkflowsIInv
<1>1. [Validation!Next]_(Validation!vars) => [Validation!Next]_validationVars
  BY DEF Validation!vars, validationVars
<1>2. [Orchestrator!Next]_(Orchestrator!vars) => [Orchestrator!Next]_orchestratorVars
  BY DEF Orchestrator!vars, orchestratorVars
<1> QED
  BY <1>1, <1>2, PartsWithin, EngineInvariant, SearchInit, SearchKept, ExecutorInit, ExecutorKept,
     OrchestratorInit, OrchestratorKept, PTL
  DEF WorkflowsIInv, Validation!Spec, Orchestrator!Spec

(* register_workflow registers a definition exactly if its ids are distinct, *)
(* its entry point is one of them and no cycle runs through its steps: the   *)
(* depth-first search, with its shared sets and early returns, misses no     *)
(* cycle and takes no diamond or unknown id for one.                         *)
THEOREM RegistrationExact == WorkflowsSpec => []RegistrationIsExact
<1>1. WorkflowsIInv => RegistrationIsExact
  BY VerdictHolds DEF WorkflowsIInv, RegistrationIsExact
<1> QED
  BY <1>1, WorkflowsInvariant, PTL

(* A result in the history is of an execution that ended that way, over HTTP *)
(* nothing runs, a loop completes over completed bodies only, item by item,  *)
(* and no tool is called more often than its attempts.                       *)
THEOREM ReportsHonest == WorkflowsSpec => []ReportsAreHonest
<1>1. WorkflowsIInv => ReportsAreHonest
  BY LoopHolds DEF WorkflowsIInv, OrchestratorIInv, ReportsAreHonest
<1> QED
  BY <1>1, WorkflowsInvariant, PTL

(* The table finds WorkflowStore, and what a caller of the orchestrator was  *)
(* told of the end of an execution stays true.                               *)
THEOREM AnswersKept == WorkflowsSpec => AnswersHold
<1>1. Persistence!StoreSpec => Persistence!StoreKeepsPromise
  BY VersionsAssumption, Persistence!StoreIsAtomic
<1>2. WorkflowsIInv /\ [Orchestrator!Next]_(Orchestrator!vars) =>
          [\A e \in Orchestrator!Executions :
              /\ told[e] \in Orchestrator!Ended => told'[e] \in {told[e], "unknown"}
              /\ told[e] \in Orchestrator!Ended => runs'[e].status = told[e]]_(Orchestrator!vars)
  BY ToldStaysTrue DEF WorkflowsIInv, Orchestrator!vars, orchestratorVars
<1>3. WorkflowsSpec => Orchestrator!ToldIsFinal
  BY <1>2, PartsWithin, WorkflowsInvariant, PTL DEF Orchestrator!Spec, Orchestrator!ToldIsFinal
<1> QED
  BY <1>1, <1>3, PartsWithin, PTL DEF AnswersHold

(* The engine within the subsystem: types, order of steps, no step left      *)
(* behind, an outcome and counts that are earned, ends that are final, and   *)
(* the promise of WorkflowPromise.                                           *)
THEOREM EngineHolds ==
    WorkflowsSpec => /\ [](TypeOK /\ DependenciesFirst /\ NoOrphans)
                     /\ [](VerdictIsHonest /\ WorkIsAccounted)
                     /\ EndedIsFinal /\ KeepsPromise
  BY PartsWithin, TypeCorrect, DependenciesRunFirst, NothingOrphaned, VerdictEarned,
     WorkAccounted, EndIsFinal, EngineKeepsPromise, PTL
=============================================================================
