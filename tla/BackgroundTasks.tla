--------------------------- MODULE BackgroundTasks ---------------------------
(***************************************************************************)
(* BackgroundTaskManager of src/metamcp/performance/background_tasks.py:    *)
(* tasks are stored in a dict and queued, workers take them from the queue, *)
(* run them and record the outcome, a failed run is queued again until its  *)
(* retries are used up, callers poll for results, cancel and clean up, and  *)
(* the manager can be stopped and started again.                            *)
(*                                                                         *)
(* Every await and every acquisition of the lock is a point at which other  *)
(* coroutines may run, and at which a cancelled worker ends.                *)
(***************************************************************************)
EXTENDS Integers, Sequences, FiniteSets

CONSTANTS
    Tasks,          \* task ids
    Workers,        \* identities of worker coroutines, all generations
    MaxWorkers,     \* self.max_workers
    MaxRetries,     \* max_retries of each task
    NoTask,         \* what a worker holds between two tasks
    SyncTasks,      \* the tasks whose function runs in the thread pool
    KeywordTasks,   \* those of them that were submitted with keyword arguments
    MaxStops        \* bound: how often the manager is stopped

ASSUME MaxRetriesAssumption == MaxRetries \in [Tasks -> Nat]
ASSUME NoTaskAssumption     == NoTask \notin Tasks
ASSUME SyncTasksAssumption  == SyncTasks \subseteq Tasks
ASSUME KeywordAssumption    == KeywordTasks \subseteq SyncTasks
ASSUME MaxStopsAssumption   == MaxStops \in Nat
ASSUME MaxWorkersAssumption == MaxWorkers \in Nat \ {0}

(* A value of MaxRetries: the tasks as submit_task gives them by default.    *)
ByDefault == [t \in Tasks |-> 3]

VARIABLES
    status,       \* per task: "none" (not submitted), a TaskStatus, or "gone"
    dated,        \* the tasks whose completed_at is set
    retries,      \* task_info.retries
    runs,         \* how often the function of a task was started
    dropped,      \* observer: the tasks a cancelled worker held when it ended
    submitting,   \* tasks stored but not yet in the queue
    queue,        \* _task_queue
    pc,           \* where a worker is (see WorkerPcs)
    holding,      \* the task a worker took from the queue
    running,      \* _running
    tracked,      \* _workers
    cancelling,   \* workers with a pending cancel()
    awaited,      \* the workers stop() waits for, when it does
    stopping,     \* stop() is waiting
    poolOpen,     \* the thread pool accepts work
    stops,        \* how often stop() was called
    answer        \* what get_task_result has told the caller of each task

taskVars    == <<status, dated, retries, runs>>
workerVars  == <<pc, holding>>
managerVars == <<running, tracked, cancelling, awaited, stopping, poolOpen,
                 stops, dropped>>
vars == <<taskVars, submitting, queue, workerVars, managerVars, answer>>

Statuses  == {"none", "pending", "running", "completed", "failed",
              "cancelled", "gone"}
WorkerPcs == {"off", "idle", "taken", "executing", "succeeded", "raised"}
Answers   == {"none", "polling", "result", "error", "cancelled", "missing",
              "timeout"}

AtLeastOne(n) == IF n = 0 THEN 1 ELSE n

TypeOK ==
    /\ status \in [Tasks -> Statuses]
    /\ dated \subseteq Tasks
    /\ retries \in [Tasks -> Nat]
    /\ \A t \in Tasks : retries[t] <= AtLeastOne(MaxRetries[t])
    /\ runs \in [Tasks -> Nat]
    /\ submitting \subseteq Tasks
    /\ queue \in Seq(Tasks)
    /\ pc \in [Workers -> WorkerPcs]
    /\ holding \in [Workers -> Tasks \cup {NoTask}]
    /\ \A w \in Workers : holding[w] = NoTask <=> pc[w] \in {"off", "idle"}
    /\ running \in BOOLEAN
    /\ tracked \subseteq Workers
    /\ cancelling \subseteq Workers
    /\ awaited \subseteq Workers
    /\ stopping \in BOOLEAN
    /\ poolOpen \in BOOLEAN
    /\ stops \in 0..MaxStops
    /\ dropped \subseteq Tasks
    /\ answer \in [Tasks -> Answers]

Terminal == {"completed", "failed", "cancelled"}

InDict(t) == status[t] \notin {"none", "gone"}

Queued(t) == \E i \in DOMAIN queue : queue[i] = t

(* the worker lets go of its task: back to the queue, or the end *)
Release(w, next) ==
    /\ pc' = [pc EXCEPT ![w] = next]
    /\ holding' = [holding EXCEPT ![w] = NoTask]

-----------------------------------------------------------------------------

Init ==
    /\ status = [t \in Tasks |-> "none"]
    /\ dated = {}
    /\ retries = [t \in Tasks |-> 0]
    /\ runs = [t \in Tasks |-> 0]
    /\ submitting = {}
    /\ queue = <<>>
    /\ pc = [w \in Workers |-> "off"]
    /\ holding = [w \in Workers |-> NoTask]
    /\ running = FALSE
    /\ tracked = {}
    /\ cancelling = {}
    /\ awaited = {}
    /\ stopping = FALSE
    /\ poolOpen = TRUE
    /\ stops = 0
    /\ dropped = {}
    /\ answer = [t \in Tasks |-> "none"]

(* submit_task: the dict first, the queue after another await *)
StoreTask(t) ==
    /\ status[t] = "none"
    /\ status' = [status EXCEPT ![t] = "pending"]
    /\ submitting' = submitting \cup {t}
    /\ UNCHANGED <<dated, retries, runs, queue, workerVars, managerVars, answer>>

EnqueueTask(t) ==
    /\ t \in submitting
    /\ submitting' = submitting \ {t}
    /\ queue' = Append(queue, t)
    /\ UNCHANGED <<taskVars, workerVars, managerVars, answer>>

(* mutant: a task is cancelled whatever its status *)
Cancellable_any(t) == InDict(t)

Cancellable(t) == status[t] = "pending"

CancelTask(t) ==
    /\ Cancellable(t)
    /\ status' = [status EXCEPT ![t] = "cancelled"]
    /\ UNCHANGED <<dated, retries, runs, submitting, queue, workerVars,
                   managerVars, answer>>

(* mutant: the age is not looked at, so a missing completed_at is no obstacle *)
Expired_undated(t) == status[t] \in Terminal

Expired(t) == status[t] \in Terminal /\ t \in dated

(* old: the tasks whose completed_at, where set, is before the cutoff *)
CleanupCompletedTasks(old) ==
    /\ \E t \in old : Expired(t)
    /\ status' = [t \in Tasks |-> IF t \in old /\ Expired(t) THEN "gone"
                                                          ELSE status[t]]
    /\ UNCHANGED <<dated, retries, runs, submitting, queue, workerVars,
                   managerVars, answer>>

(* get_task_result: polls until the task has ended, is missing, or the       *)
(* caller's timeout has passed                                               *)
GetTaskResult(t) ==
    /\ status[t] # "none" /\ answer[t] = "none"
    /\ answer' = [answer EXCEPT ![t] = "polling"]
    /\ UNCHANGED <<taskVars, submitting, queue, workerVars, managerVars>>

PollStatus(t) ==
    /\ answer[t] = "polling"
    /\ status[t] \notin {"pending", "running"}
    /\ answer' = [answer EXCEPT ![t] =
                    CASE status[t] = "completed" -> "result"
                      [] status[t] = "failed"    -> "error"
                      [] status[t] = "cancelled" -> "cancelled"
                      [] OTHER                   -> "missing"]
    /\ UNCHANGED <<taskVars, submitting, queue, workerVars, managerVars>>

PollTimesOut(t) ==
    /\ answer[t] = "polling"
    /\ status[t] \in {"pending", "running"}
    /\ answer' = [answer EXCEPT ![t] = "timeout"]
    /\ UNCHANGED <<taskVars, submitting, queue, workerVars, managerVars>>

-----------------------------------------------------------------------------
(* _worker.                                                                  *)

(* wait_for(get()) has taken the head of the queue *)
TakeTask(w) ==
    /\ pc[w] = "idle" /\ w \notin cancelling /\ running
    /\ queue # <<>>
    /\ pc' = [pc EXCEPT ![w] = "taken"]
    /\ holding' = [holding EXCEPT ![w] = Head(queue)]
    /\ queue' = Tail(queue)
    /\ UNCHANGED <<taskVars, submitting, managerVars, answer>>

(* run_in_executor raises at once, and the function of a sync task never      *)
(* starts: stop() has shut the pool down, or the call has keyword arguments,   *)
(* which run_in_executor does not take.                                       *)
Refused(t) == t \in SyncTasks /\ (~poolOpen \/ t \in KeywordTasks)

(* Mark a PENDING task RUNNING and start its function; a task with another   *)
(* status, a cancelled one, is started all the same.  A task that has left    *)
(* the dict is dropped from the queue.                                       *)
BeginTask(w) ==
    LET t == holding[w]
    IN  /\ pc[w] = "taken" /\ w \notin cancelling
        /\ \/ /\ InDict(t)
              /\ status' = [status EXCEPT ![t] =
                              IF status[t] = "pending" THEN "running" ELSE @]
              /\ \/ /\ Refused(t)
                    /\ pc' = [pc EXCEPT ![w] = "raised"]
                    /\ UNCHANGED runs
                 \/ /\ ~Refused(t)
                    /\ pc' = [pc EXCEPT ![w] = "executing"]
                    /\ runs' = [runs EXCEPT ![t] = @ + 1]
              /\ UNCHANGED holding
           \/ ~InDict(t) /\ Release(w, "idle") /\ UNCHANGED <<status, runs>>
        /\ UNCHANGED <<dated, retries, submitting, queue, managerVars, answer>>

FunctionReturns(w) ==
    /\ pc[w] = "executing" /\ w \notin cancelling
    /\ pc' = [pc EXCEPT ![w] = "succeeded"]
    /\ UNCHANGED <<taskVars, submitting, queue, holding, managerVars, answer>>

FunctionRaises(w) ==
    /\ pc[w] = "executing" /\ w \notin cancelling
    /\ pc' = [pc EXCEPT ![w] = "raised"]
    /\ UNCHANGED <<taskVars, submitting, queue, holding, managerVars, answer>>

RecordSuccess(w) ==
    /\ pc[w] = "succeeded" /\ w \notin cancelling
    /\ status' = [status EXCEPT ![holding[w]] = "completed"]
    /\ dated' = dated \cup {holding[w]}
    /\ Release(w, "idle")
    /\ UNCHANGED <<retries, runs, submitting, queue, managerVars,
                   answer>>

(* mutant: one retry too many (<= for <) *)
RetriesLeft_plusOne(t) == retries[t] + 1 <= MaxRetries[t]

RetriesLeft(t) == retries[t] + 1 < MaxRetries[t]

(* mutant: the task is PENDING again but not queued *)
Requeued_not(t) == queue

(* mutant: the retry is queued twice *)
Requeued_twice(t) == queue \o <<t, t>>

Requeued(t) == Append(queue, t)

RetryTask(w) ==
    LET t == holding[w]
    IN  /\ pc[w] = "raised" /\ w \notin cancelling
        /\ RetriesLeft(t)
        /\ retries' = [retries EXCEPT ![t] = @ + 1]
        /\ status' = [status EXCEPT ![t] = "pending"]
        /\ queue' = Requeued(t)
        /\ Release(w, "idle")
        /\ UNCHANGED <<dated, runs, submitting, managerVars, answer>>

RecordFailure(w) ==
    LET t == holding[w]
    IN  /\ pc[w] = "raised" /\ w \notin cancelling
        /\ ~RetriesLeft(t)
        /\ retries' = [retries EXCEPT ![t] = @ + 1]
        /\ status' = [status EXCEPT ![t] = "failed"]
        /\ dated' = dated \cup {t}
        /\ Release(w, "idle")
        /\ UNCHANGED <<runs, submitting, queue, managerVars, answer>>

(* while self._running *)
LeaveLoop(w) ==
    /\ pc[w] = "idle" /\ ~running
    /\ pc' = [pc EXCEPT ![w] = "off"]
    /\ cancelling' = cancelling \ {w}
    /\ UNCHANGED <<taskVars, submitting, queue, holding, running, tracked,
                   awaited, stopping, poolOpen, stops, dropped, answer>>

(* CancelledError passes every handler of the loop: the task the worker held *)
(* keeps the status it had                                                   *)
WorkerCancelled(w) ==
    /\ w \in cancelling /\ pc[w] # "off"
    /\ Release(w, "off")
    /\ cancelling' = cancelling \ {w}
    /\ dropped' = dropped \cup ({holding[w]} \ {NoTask})
    /\ UNCHANGED <<taskVars, submitting, queue, running, tracked,
                   awaited, stopping, poolOpen, stops, answer>>

(* Python 3.11: wait_for returns the item, and forgets the cancellation, if  *)
(* get() had already completed                                               *)
CancelForgotten(w) ==
    /\ w \in cancelling /\ pc[w] = "taken"
    /\ cancelling' = cancelling \ {w}
    /\ UNCHANGED <<taskVars, submitting, queue, workerVars, running, tracked,
                   awaited, stopping, poolOpen, stops, dropped, answer>>

-----------------------------------------------------------------------------
(* start and stop.                                                           *)

(* A new worker may take the identity of one that has ended, which a stop()   *)
(* still under way need not wait for any more.                                *)
Start(S) ==
    /\ ~running
    /\ Cardinality(S) = MaxWorkers /\ \A w \in S : pc[w] = "off"
    /\ running' = TRUE
    /\ pc' = [w \in Workers |-> IF w \in S THEN "idle" ELSE pc[w]]
    /\ tracked' = tracked \cup S
    /\ awaited' = awaited \ S
    /\ UNCHANGED <<taskVars, submitting, queue, holding, cancelling,
                   stopping, poolOpen, stops, dropped, answer>>

(* stop() up to gather; one stop() is under way at a time *)
StopBegins ==
    /\ running /\ ~stopping /\ stops < MaxStops
    /\ stops' = stops + 1
    /\ running' = FALSE
    /\ stopping' = TRUE
    /\ awaited' = tracked
    /\ cancelling' = cancelling \cup {w \in tracked : pc[w] # "off"}
    /\ UNCHANGED <<taskVars, submitting, queue, workerVars, tracked, poolOpen,
                   dropped, answer>>

(* the gathered workers have ended: the list is cleared, the pool shut down *)
StopEnds ==
    /\ stopping
    /\ \A w \in awaited : pc[w] = "off"
    /\ stopping' = FALSE
    /\ awaited' = {}
    /\ tracked' = {}
    /\ poolOpen' = FALSE
    /\ UNCHANGED <<taskVars, submitting, queue, workerVars, running,
                   cancelling, stops, dropped, answer>>

-----------------------------------------------------------------------------

WorkerStep(w) ==
    \/ TakeTask(w) \/ BeginTask(w)
    \/ FunctionReturns(w) \/ FunctionRaises(w)
    \/ RecordSuccess(w) \/ RetryTask(w) \/ RecordFailure(w)
    \/ LeaveLoop(w) \/ WorkerCancelled(w) \/ CancelForgotten(w)

CallerStep(t) ==
    \/ StoreTask(t) \/ EnqueueTask(t) \/ CancelTask(t)
    \/ GetTaskResult(t) \/ PollStatus(t) \/ PollTimesOut(t)

Next ==
    \/ \E t \in Tasks : CallerStep(t)
    \/ \E old \in SUBSET Tasks : CleanupCompletedTasks(old)
    \/ \E w \in Workers : WorkerStep(w)
    \/ \E S \in SUBSET Workers : Start(S)
    \/ StopBegins \/ StopEnds

Spec == Init /\ [][Next]_vars

(* submit_task runs on after its first await; the application starts the     *)
(* manager; the event loop runs every worker; functions return or raise.     *)
Fairness ==
    /\ \A t \in Tasks : WF_vars(EnqueueTask(t)) /\ WF_vars(PollStatus(t))
    /\ WF_vars(\E S \in SUBSET Workers : Start(S))
    /\ \A w \in Workers : WF_vars(WorkerStep(w))

FairSpec == Spec /\ Fairness

-----------------------------------------------------------------------------
(* Properties.                                                               *)

(* A task is in one place at a time: about to be queued, once in the queue,  *)
(* or in the hands of one worker.  So no task ever runs twice at once, in    *)
(* spite of retries, stops and restarts.                                     *)
SingleHolder ==
    /\ \A i, j \in DOMAIN queue : queue[i] = queue[j] => i = j
    /\ \A t \in Tasks :
          /\ t \in submitting => ~Queued(t)
          /\ \A w \in Workers : holding[w] = t =>
                /\ t \notin submitting /\ ~Queued(t)
                /\ \A v \in Workers : holding[v] = t => v = w

(* A PENDING task is queued or held, and a RUNNING one is held by a worker,   *)
(* through retries, stops and restarts.  The one way to lose a task is the     *)
(* cancel() of stop(): what a worker holds when it ends that way stays PENDING *)
(* or RUNNING for good.                                                      *)
NoLostTask ==
    \A t \in Tasks \ dropped :
        /\ status[t] = "pending" =>
               \/ t \in submitting \/ Queued(t)
               \/ \E w \in Workers : holding[w] = t /\ pc[w] = "taken"
        /\ status[t] = "running" =>
               \E w \in Workers : holding[w] = t /\ pc[w] # "taken"

(* A worker always finds the task it took: cleanup never removes a task that *)
(* is still queued or held, so the branch "task_info is None" (which skips   *)
(* task_done) is dead code.                                                  *)
WorkerFindsTask ==
    /\ \A i \in DOMAIN queue : InDict(queue[i])
    /\ \A w \in Workers : holding[w] # NoTask => InDict(holding[w])

(* Between submit_task and its end a task is where its worker expects it.     *)
TasksAreKept == NoLostTask /\ WorkerFindsTask

(* A task is started at most max_retries times (once if max_retries is 0).   *)
(* It is given up only after that many failures, each of them a run of its    *)
(* function, unless the pool refuses the task: one that meets the shut-down    *)
(* pool of a restarted manager is FAILED after fewer runs, or none.           *)
RetryBudget ==
    \A t \in Tasks :
        /\ runs[t] <= AtLeastOne(MaxRetries[t])
        /\ status[t] = "failed" =>
               /\ retries[t] = AtLeastOne(MaxRetries[t])
               /\ runs[t] = retries[t] \/ Refused(t)

(* What get_task_result told its caller stays true: a result or an error is  *)
(* final until the task is cleaned up.                                       *)
AnswersStand ==
    \A t \in Tasks :
        /\ answer[t] = "result" => status[t] \in {"completed", "gone"}
        /\ answer[t] = "error" => status[t] \in {"failed", "gone"}
        /\ answer[t] = "missing" => status[t] = "gone"

(* COMPLETED and FAILED are final.                                           *)
OutcomeSticks ==
    [][\A t \in Tasks :
          status[t] \in {"completed", "failed"} =>
              status'[t] \in {status[t], "gone"}]_vars

(* If the manager is started, again after every stop, and functions end,      *)
(* every submitted task comes to an end, but for those a cancelled worker     *)
(* dropped.                                                                  *)
EveryTaskEnds ==
    \A t \in Tasks : (status[t] \in {"pending", "running"})
                         ~> (status[t] \in Terminal \/ t \in dropped)

(* "Cancel a task." (cancel_task): a task reported cancelled stays so.  The  *)
(* worker does not look at the status again and runs it anyway.              *)
CancelledStaysCancelled ==
    \A t \in Tasks : answer[t] = "cancelled" => status[t] = "cancelled"
=============================================================================
