----------------------- MODULE BackgroundTasks_proofs -----------------------
(***************************************************************************)
(* What holds of the task manager for every set of tasks and workers, every *)
(* priority and retry limit, and any number of stops.                       *)
(***************************************************************************)
EXTENDS BackgroundTasks, TLAPS

-----------------------------------------------------------------------------
(* Queues without repetition.                                                *)

In(q, t) == \E i \in DOMAIN q : q[i] = t

NoRepeat(q) == \A i, j \in DOMAIN q : q[i] = q[j] => i = j

(* put(): the task joins the queue, which stays without repetition.          *)
LEMMA AppendTask ==
    ASSUME NEW q \in Seq(Tasks), NEW t \in Tasks
    PROVE  /\ Append(q, t) \in Seq(Tasks)
           /\ \A u : In(Append(q, t), u) <=> u = t \/ In(q, u)
           /\ NoRepeat(q) /\ ~In(q, t) => NoRepeat(Append(q, t))
<1>1. /\ Append(q, t) \in Seq(Tasks) /\ Len(q) \in Nat
      /\ DOMAIN q = 1..Len(q) /\ DOMAIN Append(q, t) = 1..(Len(q) + 1)
      /\ \A i \in 1..Len(q) : Append(q, t)[i] = q[i]
      /\ Append(q, t)[Len(q) + 1] = t
  OBVIOUS
<1>2. \A i \in DOMAIN Append(q, t) : i \in DOMAIN q \/ i = Len(q) + 1
  BY <1>1
<1>3. ASSUME NEW u PROVE In(Append(q, t), u) <=> u = t \/ In(q, u)
  BY <1>1, <1>2 DEF In
<1>4. ASSUME NoRepeat(q), ~In(q, t) PROVE NoRepeat(Append(q, t))
  BY <1>1, <1>2, <1>4 DEF In, NoRepeat
<1> QED
  BY <1>1, <1>3, <1>4

(* get(): the head leaves the queue, which no longer has it.                 *)
LEMMA TakeHead ==
    ASSUME NEW q \in Seq(Tasks), q # <<>>
    PROVE  /\ Tail(q) \in Seq(Tasks) /\ Head(q) \in Tasks
           /\ In(q, Head(q))
           /\ \A u : In(Tail(q), u) => In(q, u)
           /\ NoRepeat(q) => /\ NoRepeat(Tail(q)) /\ ~In(Tail(q), Head(q))
                             /\ \A u : In(q, u) => u = Head(q) \/ In(Tail(q), u)
<1>1. /\ Tail(q) \in Seq(Tasks) /\ Head(q) \in Tasks /\ Head(q) = q[1]
      /\ Len(q) \in Nat \ {0}
      /\ DOMAIN q = 1..Len(q) /\ DOMAIN Tail(q) = 1..(Len(q) - 1)
      /\ \A i \in 1..(Len(q) - 1) : Tail(q)[i] = q[i + 1]
  OBVIOUS
<1>2. In(q, Head(q)) /\ \A u : In(Tail(q), u) => In(q, u)
  BY <1>1 DEF In
<1>3. ASSUME NoRepeat(q) PROVE NoRepeat(Tail(q)) /\ ~In(Tail(q), Head(q))
  BY <1>1, <1>3 DEF In, NoRepeat
<1>4. ASSUME NEW u, In(q, u) PROVE u = Head(q) \/ In(Tail(q), u)
  <2>1. PICK i \in DOMAIN q : q[i] = u
    BY <1>4 DEF In
  <2>2. CASE i = 1
    BY <1>1, <2>1, <2>2
  <2>3. CASE i # 1
    <3>1. i - 1 \in DOMAIN Tail(q) /\ Tail(q)[i - 1] = u
      BY <1>1, <2>1, <2>3
    <3> QED
      BY <3>1 DEF In
  <2> QED
    BY <2>2, <2>3
<1> QED
  BY <1>1, <1>2, <1>3, <1>4

-----------------------------------------------------------------------------
(* The inductive invariant.                                                  *)

Free(t) ==
    /\ t \notin submitting
    /\ ~In(queue, t)
    /\ \A w \in Workers : holding[w] # t

(* The task was tried n times: each time its function ran, but for those the  *)
(* pool refused.                                                             *)
Ran(t, n) == runs[t] <= n /\ (runs[t] = n \/ Refused(t))

(* The status of a task, where the task is, and how often it was run.  A     *)
(* task gets its completed_at when its worker records the end, and only then *)
(* is it nowhere any more: this is why cleanup never takes a task away from  *)
(* the queue or from a worker.                                               *)
Books(t) ==
    /\ status[t] = "none" => Free(t) /\ runs[t] = 0 /\ retries[t] = 0
    /\ t \in dated <=> status[t] \in {"completed", "failed", "gone"}
    /\ t \in dated => Free(t) /\ runs[t] <= AtLeastOne(MaxRetries[t])
    /\ t \notin dated => /\ retries[t] < AtLeastOne(MaxRetries[t])
                         /\ runs[t] <= retries[t] + 1
    /\ status[t] = "failed" => retries[t] = AtLeastOne(MaxRetries[t]) /\ Ran(t, retries[t])
    /\ t \in submitting \/ In(queue, t) => Ran(t, retries[t])
    /\ \A w \in Workers : holding[w] = t =>
           Ran(t, IF pc[w] = "taken" THEN retries[t] ELSE retries[t] + 1)

(* A task is in one place only.                                              *)
OnePlace ==
    /\ NoRepeat(queue)
    /\ \A t \in submitting : ~In(queue, t)
    /\ \A w \in Workers :
          /\ holding[w] \notin submitting
          /\ ~In(queue, holding[w])
          /\ \A v \in Workers : holding[v] = holding[w] /\ holding[w] # NoTask
                                    => v = w

(* Nothing is lost but what a cancelled worker dropped.                      *)
NothingLost ==
    \A t \in Tasks \ dropped :
        /\ status[t] = "pending" =>
               \/ t \in submitting \/ In(queue, t)
               \/ \E w \in Workers : holding[w] = t /\ pc[w] = "taken"
        /\ status[t] = "running" =>
               \E w \in Workers : holding[w] = t /\ pc[w] # "taken"

(* Callers ask only for tasks that were submitted.                           *)
OnlySubmitted == \A t \in Tasks : answer[t] # "none" => status[t] # "none"

IInv ==
    /\ TypeOK
    /\ OnlySubmitted
    /\ \A t \in Tasks : Books(t)
    /\ OnePlace
    /\ NothingLost
    /\ AnswersStand

LEMMA InitIInv == Init => IInv
<1> SUFFICES ASSUME Init PROVE IInv
  OBVIOUS
<1> USE MaxRetriesAssumption, NoTaskAssumption, MaxStopsAssumption DEF Init
<1>1. queue \in Seq(Tasks) /\ DOMAIN queue = {} /\ \A t : ~In(queue, t)
  BY DEF In
<1>2. TypeOK
  <2>1. \A t \in Tasks : 0 <= AtLeastOne(MaxRetries[t])
    BY DEF AtLeastOne
  <2>2. \A t \in Tasks : retries[t] <= AtLeastOne(MaxRetries[t])
    BY <2>1
  <2>3. \A w \in Workers : holding[w] = NoTask <=> pc[w] \in {"off", "idle"}
    OBVIOUS
  <2>4. /\ status \in [Tasks -> Statuses]
        /\ retries \in [Tasks -> Nat] /\ runs \in [Tasks -> Nat]
        /\ answer \in [Tasks -> Answers]
        /\ pc \in [Workers -> WorkerPcs]
        /\ holding \in [Workers -> Tasks \cup {NoTask}]
        /\ stops \in 0..MaxStops
    BY DEF Statuses, WorkerPcs, Answers
  <2>5. /\ dated \subseteq Tasks /\ submitting \subseteq Tasks
        /\ tracked \subseteq Workers /\ cancelling \subseteq Workers
        /\ awaited \subseteq Workers /\ dropped \subseteq Tasks
        /\ running \in BOOLEAN /\ stopping \in BOOLEAN /\ poolOpen \in BOOLEAN
    OBVIOUS
  <2> HIDE DEF Init
  <2> QED
    BY <1>1, <2>2, <2>3, <2>4, <2>5 DEF TypeOK
<1>3. \A t \in Tasks : Books(t)
  BY <1>1 DEF Books, Free, AtLeastOne, Ran
<1>4. NoRepeat(queue)
  BY <1>1 DEF In, NoRepeat
<1>5. OnePlace
  BY <1>1, <1>4 DEF OnePlace
<1>6. NothingLost /\ AnswersStand /\ OnlySubmitted
  BY DEF NothingLost, AnswersStand, OnlySubmitted
<1> QED
  BY <1>2, <1>3, <1>5, <1>6 DEF IInv
(* How many runs and retries a worker has left for the task it holds.        *)
LEMMA LastRetry ==
    ASSUME IInv, NEW w \in Workers, holding[w] # NoTask
    PROVE  /\ holding[w] \in Tasks /\ holding[w] \notin dated
           /\ Books(holding[w])
           /\ RetriesLeft(holding[w]) =>
                  retries[holding[w]] + 1 < AtLeastOne(MaxRetries[holding[w]])
           /\ ~RetriesLeft(holding[w]) =>
                  retries[holding[w]] + 1 = AtLeastOne(MaxRetries[holding[w]])
<1>1. holding[w] \in Tasks
  BY DEF IInv, TypeOK
<1>2. Books(holding[w]) /\ holding[w] \notin dated
  BY <1>1 DEF IInv, Books, Free
<1> QED
  BY <1>1, <1>2, MaxRetriesAssumption
     DEF Books, RetriesLeft, AtLeastOne, IInv, TypeOK

(* Every action keeps the types.                                             *)
LEMMA TypeStep == IInv /\ [Next]_vars => TypeOK'
<1> SUFFICES ASSUME IInv, [Next]_vars PROVE TypeOK'
  OBVIOUS
<1> USE NoTaskAssumption DEF TypeOK, Statuses, WorkerPcs, Answers, taskVars,
        workerVars, managerVars
<1>0. TypeOK
  BY DEF IInv
<1>1. ASSUME NEW t \in Tasks, CallerStep(t) PROVE TypeOK'
  <2>1. t \in submitting => Append(queue, t) \in Seq(Tasks)
    BY <1>0, AppendTask
  <2> QED
    BY <1>0, <1>1, <2>1
       DEF CallerStep, StoreTask, EnqueueTask, CancelTask, Cancellable, GetTaskResult,
           PollStatus, PollTimesOut
<1>2. ASSUME NEW old \in SUBSET Tasks, CleanupCompletedTasks(old) PROVE TypeOK'
  BY <1>0, <1>2 DEF CleanupCompletedTasks
<1>3. ASSUME NEW w \in Workers, TakeTask(w) PROVE TypeOK'
  BY <1>0, <1>3, TakeHead DEF TakeTask
<1>4. ASSUME NEW w \in Workers,
             \/ BeginTask(w) \/ FunctionReturns(w) \/ FunctionRaises(w)
             \/ RecordSuccess(w)
             \/ LeaveLoop(w) \/ WorkerCancelled(w) \/ CancelForgotten(w)
      PROVE  TypeOK'
  <2>1. ASSUME BeginTask(w) PROVE TypeOK'
    <3>1. /\ holding[w] \in Tasks /\ pc[w] = "taken"
          /\ holding[w] # NoTask
      BY <1>0, <2>1 DEF BeginTask
    <3>2. status' \in [Tasks -> Statuses] /\ runs' \in [Tasks -> Nat]
      <4>1. runs[holding[w]] + 1 \in Nat
        BY <1>0, <3>1
      <4>2. ASSUME InDict(holding[w])
            PROVE  status' \in [Tasks -> Statuses] /\ runs' \in [Tasks -> Nat]
        <5>1. /\ runs' \in {runs, [runs EXCEPT ![holding[w]] = @ + 1]}
              /\ \E st \in {"running", status[holding[w]]} :
                     status' = [status EXCEPT ![holding[w]] = st]
          BY <2>1, <4>2 DEF BeginTask
        <5>2. /\ status \in [Tasks -> Statuses] /\ runs \in [Tasks -> Nat]
              /\ holding[w] \in Tasks
          BY <1>0, <3>1
        <5> HIDE DEF TypeOK
        <5> QED
          BY <4>1, <5>1, <5>2
      <4>3. CASE ~InDict(holding[w])
        BY <1>0, <2>1, <4>3 DEF BeginTask
      <4> QED
        BY <4>2, <4>3
    <3>3. /\ pc' \in [Workers -> WorkerPcs]
          /\ holding' \in [Workers -> Tasks \cup {NoTask}]
          /\ \A v \in Workers : holding'[v] = NoTask <=> pc'[v] \in {"off", "idle"}
      BY <1>0, <2>1, <3>1 DEF BeginTask, Release
    <3> QED
      BY <1>0, <2>1, <3>2, <3>3 DEF BeginTask
  <2>2. CASE FunctionReturns(w) \/ FunctionRaises(w)
    BY <1>0, <2>2 DEF FunctionReturns, FunctionRaises
  <2>3. CASE RecordSuccess(w)
    BY <1>0, <2>3 DEF RecordSuccess, Release
  <2>4. CASE LeaveLoop(w)
    BY <1>0, <2>4 DEF LeaveLoop
  <2>5. CASE WorkerCancelled(w) \/ CancelForgotten(w)
    BY <1>0, <2>5 DEF WorkerCancelled, CancelForgotten, Release
  <2> QED
    BY <1>4, <2>1, <2>2, <2>3, <2>4, <2>5
<1>5. ASSUME NEW w \in Workers, RetryTask(w) \/ RecordFailure(w) PROVE TypeOK'
  <2>1. holding[w] # NoTask
    BY <1>0, <1>5 DEF RetryTask, Requeued, RecordFailure
  <2>2. /\ holding[w] \in Tasks /\ holding[w] \notin dated
        /\ retries[holding[w]] + 1 <= AtLeastOne(MaxRetries[holding[w]])
    BY <2>1, <1>0, <1>5, LastRetry, MaxRetriesAssumption
       DEF AtLeastOne, RetryTask, RecordFailure
  <2>3. Append(queue, holding[w]) \in Seq(Tasks)
    BY <1>0, <2>2, AppendTask
  <2>4. CASE RetryTask(w)
    BY <1>0, <2>4, <2>1, <2>2, <2>3 DEF RetryTask, Requeued, Release
  <2>5. CASE RecordFailure(w)
    BY <1>0, <2>5, <2>1, <2>2 DEF RecordFailure, Release
  <2> QED
    BY <1>5, <2>4, <2>5
<1>6. ASSUME NEW S \in SUBSET Workers, Start(S) PROVE TypeOK'
  BY <1>0, <1>6 DEF Start
<1>8. CASE StopBegins
  <2>1. stops' \in 0..MaxStops
    BY <1>0, <1>8, MaxStopsAssumption DEF StopBegins
  <2>2. cancelling' \subseteq Workers /\ awaited' \subseteq Workers
    BY <1>0, <1>8 DEF StopBegins
  <2> QED
    BY <1>0, <1>8, <2>1, <2>2 DEF StopBegins
<1>9. CASE StopEnds
  BY <1>0, <1>9 DEF StopEnds
<1>7. CASE UNCHANGED vars
  BY <1>0, <1>7 DEF vars
<1> QED
  BY <1>1, <1>2, <1>3, <1>4, <1>5, <1>6, <1>7, <1>8, <1>9
     DEF Next, WorkerStep

(* The books of a task that a step leaves alone.                             *)
LEMMA OtherTask ==
    ASSUME NEW u \in Tasks, Books(u),
           Refused(u) => Refused(u)',
           status'[u] = status[u], retries'[u] = retries[u], runs'[u] = runs[u],
           u \in dated' <=> u \in dated,
           u \in submitting' <=> u \in submitting,
           In(queue', u) <=> In(queue, u),
           \A v \in Workers : holding'[v] = u <=> holding[v] = u,
           \A v \in Workers : holding[v] = u => pc'[v] = pc[v]
    PROVE  Books(u)'
<1>1. Free(u)' <=> Free(u)
  BY DEF Free
<1> QED
  BY <1>1 DEF Books, Ran

(* The books of every task stay right.                                       *)
LEMMA BooksStep == IInv /\ [Next]_vars => \A t \in Tasks : Books(t)'
<1> SUFFICES ASSUME IInv, [Next]_vars, NEW u \in Tasks PROVE Books(u)'
  OBVIOUS
<1> USE MaxRetriesAssumption, NoTaskAssumption DEF taskVars, workerVars, managerVars
<1>0. /\ status \in [Tasks -> Statuses] /\ retries \in [Tasks -> Nat]
      /\ runs \in [Tasks -> Nat] /\ pc \in [Workers -> WorkerPcs]
      /\ holding \in [Workers -> Tasks \cup {NoTask}]
      /\ \A w \in Workers : holding[w] = NoTask <=> pc[w] \in {"off", "idle"}
      /\ queue \in Seq(Tasks)
      /\ Books(u) /\ OnePlace
      /\ AtLeastOne(MaxRetries[u]) \in Nat
  BY DEF IInv, TypeOK, AtLeastOne
<1>r. Refused(u) => Refused(u)'
  <2>1. poolOpen' => poolOpen
    BY DEF Next, vars, CallerStep, StoreTask, EnqueueTask, CancelTask, Cancellable,
           GetTaskResult, PollStatus, PollTimesOut, CleanupCompletedTasks,
           WorkerStep, TakeTask, BeginTask, FunctionReturns, FunctionRaises,
           RecordSuccess, RetryTask, RecordFailure, LeaveLoop, WorkerCancelled,
           CancelForgotten, Start, StopBegins, StopEnds
  <2> QED
    BY <2>1 DEF Refused
<1>1. ASSUME NEW t \in Tasks, StoreTask(t) PROVE Books(u)'
  BY <1>0, <1>r, <1>1 DEF StoreTask, Books, Ran, Free
<1>2. ASSUME NEW t \in Tasks, EnqueueTask(t) PROVE Books(u)'
  <2>1. In(queue', u) <=> u = t \/ In(queue, u)
    BY <1>0, <1>r, <1>2, AppendTask DEF EnqueueTask
  <2> QED
    BY <1>0, <1>r, <1>2, <2>1 DEF EnqueueTask, Books, Ran, Free
<1>3. ASSUME NEW t \in Tasks, CancelTask(t) PROVE Books(u)'
  BY <1>0, <1>r, <1>3 DEF CancelTask, Cancellable, Books, Ran, Free
<1>4. ASSUME NEW old \in SUBSET Tasks, CleanupCompletedTasks(old) PROVE Books(u)'
  BY <1>0, <1>r, <1>4 DEF CleanupCompletedTasks, Expired, Terminal, Books, Ran, Free
<1>5. ASSUME NEW w \in Workers, TakeTask(w) PROVE Books(u)'
  <2>1. /\ In(queue, holding'[w]) /\ holding'[w] \in Tasks
        /\ In(queue', u) => In(queue, u)
        /\ pc'[w] = "taken"
        /\ \A v \in Workers : v # w => holding'[v] = holding[v] /\ pc'[v] = pc[v]
    BY <1>0, <1>r, <1>5, TakeHead DEF TakeTask
  <2> QED
    BY <1>0, <1>r, <1>5, <2>1 DEF TakeTask, Books, Ran, Free
<1>6. ASSUME NEW w \in Workers, BeginTask(w) PROVE Books(u)'
  <2>1. CASE InDict(holding[w])
    <3>1. /\ holding[w] \in Tasks /\ holding[w] # NoTask
          /\ \A v \in Workers : v # w => holding[v] # holding[w]
          /\ holding[w] \notin submitting /\ ~In(queue, holding[w])
      BY <1>0, <1>r, <1>6 DEF BeginTask, OnePlace
    <3>2. /\ holding' = holding /\ UNCHANGED <<dated, retries, submitting, queue>>
          /\ status' = [status EXCEPT ![holding[w]] =
                            IF status[holding[w]] = "pending" THEN "running" ELSE @]
          /\ pc[w] = "taken" /\ pc'[w] # "taken"
          /\ \A v \in Workers : v # w => pc'[v] = pc[v]
          /\ \/ Refused(holding[w]) /\ runs' = runs
             \/ ~Refused(holding[w]) /\ runs' = [runs EXCEPT ![holding[w]] = @ + 1]
      BY <1>0, <1>6, <2>1 DEF BeginTask
    <3>3. CASE u = holding[w]
      <4>1. /\ Ran(u, retries[u]) /\ u \notin dated
            /\ retries[u] < AtLeastOne(MaxRetries[u])
            /\ status[u] \notin {"none", "gone", "completed", "failed"}
        BY <1>0, <2>1, <3>1, <3>2, <3>3 DEF Books, Free, InDict
      <4>2. Ran(u, retries[u] + 1)'
        BY <1>0, <1>r, <3>1, <3>2, <3>3, <4>1 DEF Ran
      <4>3. status'[u] \notin {"none", "gone", "completed", "failed"}
        BY <1>0, <3>1, <3>2, <3>3, <4>1
      <4>4. runs'[u] <= retries'[u] + 1 /\ retries'[u] = retries[u] /\ u \notin dated'
        BY <3>2, <4>1, <4>2 DEF Ran
      <4>5. \A v \in Workers : holding'[v] = u => v = w
        BY <3>1, <3>2, <3>3
      <4>6. \A v \in Workers : holding'[v] = u =>
                Ran(u, IF pc[v] = "taken" THEN retries[u] ELSE retries[u] + 1)'
        BY <3>2, <4>2, <4>5
      <4>7. u \notin submitting' /\ ~In(queue', u)
        BY <3>1, <3>2, <3>3
      <4> QED
        BY <4>1, <4>3, <4>4, <4>6, <4>7 DEF Books
    <3>4. CASE u # holding[w]
      <4>1. status'[u] = status[u] /\ runs'[u] = runs[u]
        BY <1>0, <3>1, <3>2, <3>4
      <4>2. \A v \in Workers : /\ holding'[v] = u <=> holding[v] = u
                               /\ holding[v] = u => pc'[v] = pc[v]
        BY <3>2, <3>4
      <4> QED
        BY <1>0, <1>r, <3>2, <4>1, <4>2, OtherTask
    <3> QED
      BY <3>3, <3>4
  <2>2. CASE ~InDict(holding[w])
    BY <1>0, <1>r, <1>6, <2>2 DEF BeginTask, Release, Books, Ran, Free
  <2> QED
    BY <2>1, <2>2
<1>7. ASSUME NEW w \in Workers, FunctionReturns(w) \/ FunctionRaises(w)
      PROVE  Books(u)'
  BY <1>0, <1>r, <1>7 DEF FunctionReturns, FunctionRaises, Books, Ran, Free
<1>8. ASSUME NEW w \in Workers, RecordSuccess(w) \/ RecordFailure(w)
      PROVE  Books(u)'
  <2>1. /\ holding[w] \in Tasks /\ holding[w] # NoTask
        /\ \A v \in Workers : v # w => holding[v] # holding[w]
        /\ holding[w] \notin submitting /\ ~In(queue, holding[w])
    BY <1>0, <1>r, <1>8 DEF RecordSuccess, RecordFailure, OnePlace
  <2>2. Books(holding[w]) /\ holding[w] \notin dated
        /\ retries[holding[w]] < AtLeastOne(MaxRetries[holding[w]])
    BY <2>1, LastRetry DEF Books
  <2>3. RecordFailure(w) =>
            retries[holding[w]] + 1 = AtLeastOne(MaxRetries[holding[w]])
    BY <2>1, LastRetry DEF RecordFailure
  <2>4. /\ UNCHANGED <<runs, submitting, queue>> /\ Release(w, "idle")
        /\ dated' = dated \cup {holding[w]}
        /\ \A t \in Tasks : t # holding[w] => /\ status'[t] = status[t]
                                             /\ retries'[t] = retries[t]
        /\ status'[holding[w]] \in {"completed", "failed"}
        /\ status'[holding[w]] = "failed" => RecordFailure(w)
        /\ pc[w] \in {"succeeded", "raised"}
    BY <1>0, <1>r, <1>8, <2>1 DEF RecordSuccess, RecordFailure
  <2>5. /\ holding'[w] = NoTask /\ pc'[w] = "idle"
        /\ \A v \in Workers : v # w => holding'[v] = holding[v] /\ pc'[v] = pc[v]
    BY <1>0, <1>r, <2>4 DEF Release
  <2>6. CASE u = holding[w]
    <3>1. Free(u)'
      BY <2>1, <2>4, <2>5, <2>6 DEF Free
    <3>2. Ran(u, retries[u] + 1)
      BY <1>0, <2>4, <2>6 DEF Books
    <3>3. /\ u \in dated' /\ status'[u] \in {"completed", "failed"}
          /\ runs'[u] = runs[u]
      BY <2>4, <2>6
    <3>4. runs[u] <= AtLeastOne(MaxRetries[u])
      BY <1>0, <2>2, <2>6, <3>2 DEF Ran
    <3>5. status'[u] = "failed" =>
              retries'[u] = AtLeastOne(MaxRetries[u]) /\ Ran(u, retries[u])'
      <4> SUFFICES ASSUME status'[u] = "failed"
                   PROVE  retries'[u] = AtLeastOne(MaxRetries[u]) /\ Ran(u, retries[u])'
        OBVIOUS
      <4>1. RecordFailure(w)
        BY <2>4, <2>6
      <4>2. retries'[u] = retries[u] + 1
        BY <1>0, <2>1, <2>6, <4>1 DEF RecordFailure
      <4> QED
        BY <1>r, <2>3, <2>6, <3>2, <3>3, <4>1, <4>2 DEF Ran
    <3> QED
      BY <3>1, <3>3, <3>4, <3>5 DEF Books, Free
  <2>7. CASE u # holding[w]
    <3>1. \A v \in Workers : /\ holding'[v] = u <=> holding[v] = u
                             /\ holding[v] = u => pc'[v] = pc[v]
      BY <2>5, <2>7
    <3> QED
      BY <1>0, <1>r, <2>4, <2>7, <3>1, OtherTask
  <2> QED
    BY <2>6, <2>7
<1>9. ASSUME NEW w \in Workers, RetryTask(w) PROVE Books(u)'
  <2>1. /\ holding[w] \in Tasks /\ holding[w] # NoTask
        /\ \A v \in Workers : v # w => holding[v] # holding[w]
    BY <1>0, <1>r, <1>9 DEF RetryTask, Requeued, OnePlace
  <2>2. /\ Books(holding[w]) /\ holding[w] \notin dated
        /\ retries[holding[w]] + 1 < AtLeastOne(MaxRetries[holding[w]])
    BY <1>9, <2>1, LastRetry DEF RetryTask, Requeued
  <2>3. /\ \A t \in Tasks : In(queue', t) <=> t = holding[w] \/ In(queue, t)
        /\ holding'[w] = NoTask /\ pc'[w] = "idle" /\ pc[w] = "raised"
        /\ \A v \in Workers : v # w => holding'[v] = holding[v] /\ pc'[v] = pc[v]
        /\ UNCHANGED <<dated, runs, submitting>>
        /\ \A t \in Tasks : t # holding[w] => /\ status'[t] = status[t]
                                             /\ retries'[t] = retries[t]
        /\ status'[holding[w]] = "pending"
        /\ retries'[holding[w]] = retries[holding[w]] + 1
    BY <1>0, <1>r, <1>9, <2>1, AppendTask DEF RetryTask, Requeued, Release
  <2>4. CASE u = holding[w]
    <3>1. \A v \in Workers : holding'[v] # u
      BY <2>1, <2>3, <2>4
    <3>2. Ran(u, retries[u])'
      <4>1. Ran(u, retries[u] + 1)
        BY <1>0, <2>3, <2>4 DEF Books
      <4> QED
        BY <1>r, <2>3, <2>4, <4>1 DEF Ran
    <3>3. retries'[u] \in Nat /\ retries'[u] < AtLeastOne(MaxRetries[u])
      BY <1>0, <1>r, <2>2, <2>3, <2>4
    <3>4. u \notin dated' /\ status'[u] = "pending"
      BY <2>2, <2>3, <2>4
    <3>5. runs'[u] <= retries'[u] + 1
      BY <1>0, <2>3, <2>4, <3>2, <3>3 DEF Ran
    <3> QED
      BY <3>1, <3>2, <3>3, <3>4, <3>5 DEF Books
  <2>5. CASE u # holding[w]
    <3>1. \A v \in Workers : /\ holding'[v] = u <=> holding[v] = u
                             /\ holding[v] = u => pc'[v] = pc[v]
      BY <2>3, <2>5
    <3> QED
      BY <1>0, <1>r, <2>3, <2>5, <3>1, OtherTask
  <2> QED
    BY <2>4, <2>5
<1>10. ASSUME NEW w \in Workers, WorkerCancelled(w) PROVE Books(u)'
  BY <1>0, <1>r, <1>10 DEF WorkerCancelled, Release, Books, Ran, Free
<1>11. ASSUME NEW w \in Workers, LeaveLoop(w) \/ CancelForgotten(w) PROVE Books(u)'
  BY <1>0, <1>r, <1>11 DEF LeaveLoop, CancelForgotten, Books, Ran, Free
<1>12. ASSUME NEW S \in SUBSET Workers, Start(S) PROVE Books(u)'
  BY <1>0, <1>r, <1>12 DEF Start, Books, Ran, Free
<1>13. CASE UNCHANGED <<taskVars, submitting, queue, workerVars>>
  BY <1>0, <1>r, <1>13 DEF Books, Ran, Free
<1> QED
  BY <1>1, <1>2, <1>3, <1>4, <1>5, <1>6, <1>7, <1>8, <1>9, <1>10, <1>11,
     <1>12, <1>13
     DEF Next, vars, CallerStep, WorkerStep, GetTaskResult, PollStatus,
         PollTimesOut, StopBegins, StopEnds

(* Every task stays in one place.                                            *)
LEMMA PlaceStep == IInv /\ [Next]_vars => OnePlace'
<1> SUFFICES ASSUME IInv, [Next]_vars PROVE OnePlace'
  OBVIOUS
<1> USE NoTaskAssumption DEF taskVars, workerVars, managerVars
<1>0. /\ submitting \subseteq Tasks /\ queue \in Seq(Tasks)
      /\ holding \in [Workers -> Tasks \cup {NoTask}]
      /\ \A w \in Workers : holding[w] = NoTask <=> pc[w] \in {"off", "idle"}
      /\ \A t \in Tasks : status[t] = "none" => Free(t)
      /\ OnePlace
  BY DEF IInv, TypeOK, Books
<1>1. ASSUME NEW t \in Tasks, StoreTask(t) PROVE OnePlace'
  BY <1>0, <1>1 DEF StoreTask, OnePlace, Free
<1>2. ASSUME NEW t \in Tasks, EnqueueTask(t) PROVE OnePlace'
  <2>1. /\ \A u : In(queue', u) <=> u = t \/ In(queue, u)
        /\ NoRepeat(queue')
    BY <1>0, <1>2, AppendTask DEF EnqueueTask, OnePlace
  <2> QED
    BY <1>0, <1>2, <2>1 DEF EnqueueTask, OnePlace
<1>3. ASSUME NEW w \in Workers, TakeTask(w) PROVE OnePlace'
  <2>1. /\ In(queue, holding'[w]) /\ holding'[w] \in Tasks
        /\ \A u : In(queue', u) => In(queue, u)
        /\ NoRepeat(queue') /\ ~In(queue', holding'[w])
        /\ \A v \in Workers : v # w => holding'[v] = holding[v]
    BY <1>0, <1>3, TakeHead DEF TakeTask, OnePlace
  <2> QED
    BY <1>0, <1>3, <2>1 DEF TakeTask, OnePlace
<1>4. ASSUME NEW w \in Workers, RetryTask(w) PROVE OnePlace'
  <2>1. /\ holding[w] \in Tasks /\ holding[w] # NoTask
        /\ holding[w] \notin submitting /\ ~In(queue, holding[w])
        /\ \A v \in Workers : v # w => holding[v] # holding[w]
    BY <1>0, <1>4 DEF RetryTask, Requeued, OnePlace
  <2>2. /\ \A u : In(queue', u) <=> u = holding[w] \/ In(queue, u)
        /\ NoRepeat(queue')
        /\ holding'[w] = NoTask
        /\ \A v \in Workers : v # w => holding'[v] = holding[v]
        /\ UNCHANGED submitting
    BY <1>0, <1>4, <2>1, AppendTask DEF RetryTask, Requeued, Release, OnePlace
  <2>3. NoTask \notin submitting /\ ~In(queue, NoTask)
    BY <1>0 DEF In
  <2> QED
    BY <1>0, <2>1, <2>2, <2>3 DEF OnePlace
<1>5. ASSUME NEW w \in Workers, Release(w, "idle") \/ Release(w, "off"),
             UNCHANGED <<submitting, queue>>
      PROVE  OnePlace'
  <2>1. NoTask \notin submitting /\ ~In(queue, NoTask)
    BY <1>0 DEF In
  <2> QED
    BY <1>0, <1>5, <2>1 DEF Release, OnePlace
<1>6. CASE UNCHANGED <<submitting, queue, holding>>
  BY <1>0, <1>6 DEF OnePlace
<1> QED
  BY <1>1, <1>2, <1>3, <1>4, <1>5, <1>6
     DEF Next, vars, CallerStep, CancelTask, CleanupCompletedTasks, WorkerStep,
         BeginTask, FunctionReturns, FunctionRaises, RecordSuccess,
         RecordFailure, WorkerCancelled, LeaveLoop, CancelForgotten, Start,
         GetTaskResult, PollStatus, PollTimesOut, StopBegins, StopEnds

(* COMPLETED and FAILED stay, until a cleanup, and what is gone stays gone.  *)
LEMMA OutcomesStay ==
    IInv /\ [Next]_vars =>
        \A t \in Tasks :
            /\ status[t] \in {"completed", "failed"} =>
                   status'[t] \in {status[t], "gone"}
            /\ status[t] = "gone" => status'[t] = "gone"
<1> SUFFICES ASSUME IInv, [Next]_vars, NEW t \in Tasks,
                    status[t] \in {"completed", "failed", "gone"}
             PROVE  \/ status'[t] = status[t]
                    \/ status[t] # "gone" /\ status'[t] = "gone"
  OBVIOUS
<1> USE DEF taskVars, workerVars, managerVars
<1>0. status \in [Tasks -> Statuses] /\ \A w \in Workers : holding[w] # t
  BY DEF IInv, TypeOK, Books, Free
<1>1. ASSUME NEW u \in Tasks, CallerStep(u) PROVE status'[t] = status[t]
  BY <1>0, <1>1 DEF CallerStep, StoreTask, EnqueueTask, CancelTask, Cancellable,
                    GetTaskResult, PollStatus, PollTimesOut
<1>2. ASSUME NEW w \in Workers, WorkerStep(w) PROVE status'[t] = status[t]
  BY <1>0, <1>2
     DEF WorkerStep, TakeTask, BeginTask, FunctionReturns, FunctionRaises,
         RecordSuccess, RetryTask, Requeued, RecordFailure, LeaveLoop, WorkerCancelled,
         CancelForgotten
<1>3. ASSUME NEW old \in SUBSET Tasks, CleanupCompletedTasks(old)
      PROVE  \/ status'[t] = status[t]
             \/ status[t] # "gone" /\ status'[t] = "gone"
  BY <1>0, <1>3 DEF CleanupCompletedTasks, Expired, Terminal
<1>4. CASE UNCHANGED status
  BY <1>4
<1> QED
  BY <1>1, <1>2, <1>3, <1>4 DEF Next, vars, Start, StopBegins, StopEnds

(* A task that was submitted stays so.                                       *)
LEMMA SubmittedStep == IInv /\ [Next]_vars => OnlySubmitted'
<1> SUFFICES ASSUME IInv, [Next]_vars, NEW t \in Tasks, answer'[t] # "none"
             PROVE  status'[t] # "none"
  BY DEF OnlySubmitted
<1> USE DEF taskVars, workerVars, managerVars
<1>0. /\ status \in [Tasks -> Statuses] /\ answer \in [Tasks -> Answers]
      /\ answer[t] # "none" => status[t] # "none"
  BY DEF IInv, TypeOK, OnlySubmitted
<1>1. ASSUME NEW u \in Tasks, CallerStep(u) PROVE status'[t] # "none"
  BY <1>0, <1>1 DEF CallerStep, StoreTask, EnqueueTask, CancelTask, Cancellable,
                    GetTaskResult, PollStatus, PollTimesOut
<1>2. ASSUME NEW w \in Workers, WorkerStep(w) PROVE status'[t] # "none"
  BY <1>0, <1>2
     DEF WorkerStep, TakeTask, BeginTask, FunctionReturns, FunctionRaises,
         RecordSuccess, RetryTask, Requeued, RecordFailure, LeaveLoop, WorkerCancelled,
         CancelForgotten
<1>3. ASSUME NEW old \in SUBSET Tasks, CleanupCompletedTasks(old)
      PROVE  status'[t] # "none"
  BY <1>0, <1>3 DEF CleanupCompletedTasks
<1>4. CASE UNCHANGED <<status, answer>>
  BY <1>0, <1>4
<1> QED
  BY <1>1, <1>2, <1>3, <1>4 DEF Next, vars, Start, StopBegins, StopEnds

(* What callers were told stays true.                                        *)
LEMMA AnswersStep == IInv /\ [Next]_vars => AnswersStand'
<1> SUFFICES ASSUME IInv, [Next]_vars, NEW t \in Tasks
             PROVE  /\ answer'[t] = "result" => status'[t] \in {"completed", "gone"}
                    /\ answer'[t] = "error" => status'[t] \in {"failed", "gone"}
                    /\ answer'[t] = "missing" => status'[t] = "gone"
  BY DEF AnswersStand
<1> USE DEF taskVars, workerVars, managerVars
<1>0. /\ status[t] \in Statuses /\ answer \in [Tasks -> Answers]
      /\ answer[t] \in {"none", "polling", "cancelled", "timeout"}
         \/ /\ answer[t] = "result" => status[t] \in {"completed", "gone"}
            /\ answer[t] = "error" => status[t] \in {"failed", "gone"}
            /\ answer[t] = "missing" => status[t] = "gone"
            /\ answer[t] \in {"result", "error", "missing"}
  BY DEF IInv, TypeOK, AnswersStand, Answers
<1>1. /\ status[t] \in {"completed", "failed"} => status'[t] \in {status[t], "gone"}
      /\ status[t] = "gone" => status'[t] = "gone"
  BY OutcomesStay
<1>2. ASSUME NEW u \in Tasks, GetTaskResult(u) \/ PollTimesOut(u)
      PROVE  answer'[t] \in {answer[t], "polling", "timeout"}
  BY <1>0, <1>2 DEF GetTaskResult, PollTimesOut
<1>3. ASSUME NEW u \in Tasks, PollStatus(u)
      PROVE  /\ status'[t] = status[t]
             /\ \/ answer'[t] = answer[t]
                \/ answer'[t] = "result" /\ status[t] = "completed"
                \/ answer'[t] = "error" /\ status[t] = "failed"
                \/ answer'[t] = "cancelled"
                \/ answer'[t] = "missing" /\ status[t] = "gone"
  BY <1>0, <1>3 DEF PollStatus, Statuses, IInv, OnlySubmitted
<1> QED
  BY <1>0, <1>1, <1>2, <1>3
     DEF Next, vars, CallerStep, StoreTask, EnqueueTask, CancelTask, Cancellable,
         CleanupCompletedTasks, WorkerStep, TakeTask, BeginTask,
         FunctionReturns, FunctionRaises, RecordSuccess, RetryTask,
         RecordFailure, LeaveLoop, WorkerCancelled, CancelForgotten, Start,
         StopBegins, StopEnds

(* No task is lost, but for what a cancelled worker drops.                   *)
LEMMA LostStep == IInv /\ [Next]_vars => NothingLost'
<1> SUFFICES ASSUME IInv, [Next]_vars PROVE NothingLost'
  OBVIOUS
<1> USE NoTaskAssumption DEF taskVars, workerVars, managerVars
<1> DEFINE Waits(t) == \/ t \in submitting \/ In(queue, t)
                       \/ \E w \in Workers : holding[w] = t /\ pc[w] = "taken"
           Runs(t)  == \E w \in Workers : holding[w] = t /\ pc[w] # "taken"
           Kept(t)  == /\ status[t] = "pending" => Waits(t)
                       /\ status[t] = "running" => Runs(t)
<1>0. /\ status \in [Tasks -> Statuses] /\ pc \in [Workers -> WorkerPcs]
      /\ holding \in [Workers -> Tasks \cup {NoTask}]
      /\ \A w \in Workers : holding[w] = NoTask <=> pc[w] \in {"off", "idle"}
      /\ queue \in Seq(Tasks) /\ NoRepeat(queue)
  BY DEF IInv, TypeOK, OnePlace
<1>1. dropped \subseteq dropped'
  BY DEF Next, vars, CallerStep, StoreTask, EnqueueTask, CancelTask, Cancellable,
         GetTaskResult, PollStatus, PollTimesOut, CleanupCompletedTasks,
         WorkerStep, TakeTask, BeginTask, FunctionReturns, FunctionRaises,
         RecordSuccess, RetryTask, RecordFailure, LeaveLoop, WorkerCancelled,
         CancelForgotten, Start, StopBegins, StopEnds
<1>2. \A t \in Tasks \ dropped : Kept(t)
  BY DEF IInv, NothingLost
<1> HIDE DEF Waits, Runs
<1>4. ASSUME NEW u \in Tasks, u \notin dropped' PROVE Kept(u)'
  <2>0. Kept(u)
    BY <1>1, <1>2, <1>4
  <2>1. ASSUME NEW t \in Tasks, StoreTask(t) \/ CancelTask(t) PROVE Kept(u)'
    BY <1>0, <2>0, <2>1 DEF StoreTask, CancelTask, Cancellable, Waits, Runs
  <2>2. ASSUME NEW t \in Tasks, EnqueueTask(t) PROVE Kept(u)'
    <3>1. In(queue', u) <=> u = t \/ In(queue, u)
      BY <1>0, <2>2, AppendTask DEF EnqueueTask
    <3> QED
      BY <2>0, <2>2, <3>1 DEF EnqueueTask, Waits, Runs
  <2>3. ASSUME NEW old \in SUBSET Tasks, CleanupCompletedTasks(old)
        PROVE  Kept(u)'
    BY <1>0, <2>0, <2>3 DEF CleanupCompletedTasks, Expired, Terminal, Waits, Runs
  <2>4. ASSUME NEW w \in Workers, TakeTask(w) PROVE Kept(u)'
    <3>1. /\ In(queue, u) => u = holding'[w] \/ In(queue', u)
          /\ pc'[w] = "taken" /\ holding[w] = NoTask
          /\ \A v \in Workers : v # w => holding'[v] = holding[v] /\ pc'[v] = pc[v]
          /\ UNCHANGED <<status, submitting>>
      BY <1>0, <2>4, TakeHead DEF TakeTask
    <3> QED
      BY <2>0, <2>4, <3>1 DEF Waits, Runs
  <2>5. ASSUME NEW w \in Workers, BeginTask(w) PROVE Kept(u)'
    <3>1. CASE InDict(holding[w])
      <4>1. /\ pc[w] = "taken" /\ pc'[w] # "taken"
            /\ holding[w] \in Tasks
            /\ \A v \in Workers : v # w => pc'[v] = pc[v]
            /\ UNCHANGED <<holding, submitting, queue>>
            /\ status' = [status EXCEPT ![holding[w]] =
                             IF status[holding[w]] = "pending" THEN "running" ELSE @]
        BY <1>0, <2>5, <3>1 DEF BeginTask
      <4>2. status'[u] = IF u = holding[w] /\ status[u] = "pending"
                         THEN "running" ELSE status[u]
        BY <1>0, <4>1
      <4> QED
        BY <2>0, <4>1, <4>2 DEF Waits, Runs
    <3>2. CASE ~InDict(holding[w])
      <4>1. /\ \A v \in Workers : v # w => holding'[v] = holding[v] /\ pc'[v] = pc[v]
            /\ UNCHANGED <<status, submitting, queue>>
            /\ u = holding[w] => status[u] \notin {"pending", "running"}
        BY <1>0, <2>5, <3>2 DEF BeginTask, Release, InDict
      <4> QED
        BY <2>0, <4>1 DEF Waits, Runs
    <3> QED
      BY <3>1, <3>2
  <2>6. ASSUME NEW w \in Workers, FunctionReturns(w) \/ FunctionRaises(w)
        PROVE  Kept(u)'
    BY <1>0, <2>0, <2>6 DEF FunctionReturns, FunctionRaises, Waits, Runs
  <2>7. ASSUME NEW w \in Workers, RecordSuccess(w) \/ RecordFailure(w)
        PROVE  Kept(u)'
    <3>1. /\ holding[w] \in Tasks /\ status'[holding[w]] \in {"completed", "failed"}
          /\ u # holding[w] => status'[u] = status[u]
          /\ \A v \in Workers : v # w => holding'[v] = holding[v] /\ pc'[v] = pc[v]
          /\ UNCHANGED <<submitting, queue>>
      BY <1>0, <2>7 DEF RecordSuccess, RecordFailure, Release
    <3> QED
      BY <2>0, <3>1 DEF Waits, Runs
  <2>8. ASSUME NEW w \in Workers, RetryTask(w) PROVE Kept(u)'
    <3>1. /\ holding[w] \in Tasks /\ status'[holding[w]] = "pending"
          /\ u # holding[w] => status'[u] = status[u]
          /\ \A v \in Workers : v # w => holding'[v] = holding[v] /\ pc'[v] = pc[v]
          /\ UNCHANGED submitting
      BY <1>0, <2>8 DEF RetryTask, Requeued, Release
    <3>2. In(queue', u) <=> u = holding[w] \/ In(queue, u)
      BY <1>0, <2>8, <3>1, AppendTask DEF RetryTask, Requeued
    <3> QED
      BY <2>0, <3>1, <3>2 DEF Waits, Runs
  <2>9. ASSUME NEW w \in Workers, LeaveLoop(w) PROVE Kept(u)'
    BY <1>0, <2>0, <2>9 DEF LeaveLoop, Waits, Runs
  <2>10. ASSUME NEW S \in SUBSET Workers, Start(S) PROVE Kept(u)'
    BY <1>0, <2>0, <2>10 DEF Start, Waits, Runs
  <2>12. ASSUME NEW w \in Workers, WorkerCancelled(w) PROVE Kept(u)'
    <3>1. /\ u # holding[w] /\ UNCHANGED <<status, submitting, queue>>
          /\ \A v \in Workers : v # w => holding'[v] = holding[v] /\ pc'[v] = pc[v]
      BY <1>0, <1>4, <2>12 DEF WorkerCancelled, Release
    <3> QED
      BY <2>0, <3>1 DEF Waits, Runs
  <2>11. CASE UNCHANGED <<status, submitting, queue, holding, pc>>
    BY <2>0, <2>11 DEF Waits, Runs
  <2> QED
    BY <2>1, <2>2, <2>3, <2>4, <2>5, <2>6, <2>7, <2>8, <2>9, <2>10, <2>11, <2>12
       DEF Next, vars, CallerStep, WorkerStep, GetTaskResult, PollStatus,
           PollTimesOut, CancelForgotten, StopBegins, StopEnds
<1> QED
  BY <1>4 DEF NothingLost, Waits, Runs

(* The invariant holds of every use of the manager, stops included.          *)
THEOREM ManagerInvariant == Spec => []IInv
<1>1. Init => IInv
  BY InitIInv
<1>2. IInv /\ [Next]_vars => IInv'
  BY TypeStep, BooksStep, PlaceStep, LostStep, AnswersStep, SubmittedStep
     DEF IInv
<1> QED
  BY <1>1, <1>2, PTL DEF Spec

(* The manager's state keeps its types, and no task is retried more often    *)
(* than its submitter allowed.                                               *)
THEOREM TypeCorrect == Spec => []TypeOK
<1>1. IInv => TypeOK
  BY DEF IInv
<1> QED
  BY <1>1, ManagerInvariant, PTL

(* However often tasks are retried and the manager stopped and started, no   *)
(* task is ever in the hands of two workers.                                 *)
THEOREM OneHolder == Spec => []SingleHolder
<1>1. IInv => SingleHolder
  <2> SUFFICES ASSUME IInv PROVE SingleHolder
    OBVIOUS
  <2>1. \A t : Queued(t) <=> In(queue, t)
    BY DEF Queued, In
  <2> QED
    BY <2>1, NoTaskAssumption DEF IInv, OnePlace, NoRepeat, SingleHolder, TypeOK
<1> QED
  BY <1>1, ManagerInvariant, PTL

(* No retry, stop or restart loses a task, but the cancel() of its worker.    *)
THEOREM NoTaskLost == Spec => []NoLostTask
<1>1. IInv => NoLostTask
  BY DEF IInv, NothingLost, NoLostTask, Queued, In
<1> QED
  BY <1>1, ManagerInvariant, PTL

(* Cleanup and the workers do not get in each other's way.                   *)
THEOREM CleanupSparesWorkers == Spec => []WorkerFindsTask
<1>1. IInv => WorkerFindsTask
  <2> SUFFICES ASSUME IInv PROVE WorkerFindsTask
    OBVIOUS
  <2>1. ASSUME NEW t \in Tasks, In(queue, t) \/ \E w \in Workers : holding[w] = t
        PROVE  InDict(t)
    BY <2>1 DEF IInv, Books, Free, InDict
  <2>2. \A i \in DOMAIN queue : queue[i] \in Tasks /\ In(queue, queue[i])
    BY DEF IInv, TypeOK, In
  <2> QED
    BY <2>1, <2>2 DEF WorkerFindsTask, IInv, TypeOK
<1> QED
  BY <1>1, ManagerInvariant, PTL

(* A submitted task is kept where a worker will find it.                     *)
THEOREM TasksKept == Spec => []TasksAreKept
<1>1. NoLostTask /\ WorkerFindsTask => TasksAreKept
  BY DEF TasksAreKept
<1> QED
  BY <1>1, NoTaskLost, CleanupSparesWorkers, PTL

(* A task runs no more often than its submitter allowed, and fails only after  *)
(* that many runs, or with refusals of the thread pool among its tries.        *)
THEOREM RunsWithinBudget == Spec => []RetryBudget
<1>1. IInv => RetryBudget
  <2> SUFFICES ASSUME IInv, NEW t \in Tasks
               PROVE  /\ runs[t] <= AtLeastOne(MaxRetries[t])
                      /\ status[t] = "failed" =>
                             /\ retries[t] = AtLeastOne(MaxRetries[t])
                             /\ runs[t] = retries[t] \/ Refused(t)
    BY DEF RetryBudget
  <2>1. /\ Books(t) /\ runs[t] \in Nat /\ retries[t] \in Nat
        /\ AtLeastOne(MaxRetries[t]) \in Nat
    BY MaxRetriesAssumption DEF IInv, TypeOK, AtLeastOne
  <2> QED
    BY <2>1 DEF Books, Ran
<1> QED
  BY <1>1, ManagerInvariant, PTL

(* No later step belies an answer of get_task_result.                        *)
THEOREM AnswersAreFinal == Spec => []AnswersStand
<1>1. IInv => AnswersStand
  BY DEF IInv
<1> QED
  BY <1>1, ManagerInvariant, PTL

(* A completed or failed task never runs again and is never cancelled.       *)
THEOREM OutcomesAreFinal == Spec => OutcomeSticks
<1> DEFINE Sticks == \A t \in Tasks :
                        status[t] \in {"completed", "failed"} =>
                            status'[t] \in {status[t], "gone"}
<1>1. IInv /\ [Next]_vars => [Sticks]_vars
  BY OutcomesStay
<1> QED
  BY <1>1, ManagerInvariant, PTL DEF Spec, OutcomeSticks

=============================================================================
