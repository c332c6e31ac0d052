------------------------------ MODULE ThreadPool ------------------------------
(***************************************************************************)
(* The thread pool of thread/thread_pool.h: its workers (main_loop), the   *)
(* clients that submit tasks (runTask) and wait for them                   *)
(* (waitWorkComplete), its constructor and its destructor.                 *)
(*                                                                         *)
(* Everything between taking mutex_ and releasing it, or waiting, is one   *)
(* step: only running_ is ever read without the mutex.                     *)
(***************************************************************************)
EXTENDS Integers, Sequences, FiniteSets

CONSTANTS Workers,  \* one per thread the constructor creates
          Clients,  \* the other threads
          Task,     \* the tasks; each is submitted at most once
          NoTask,
          MaxWorkerWakes,  \* bound: spurious wake-ups of condition_
          MaxClientWakes   \* bound: spurious wake-ups of completed_

ASSUME PoolAssumption ==
  /\ IsFiniteSet(Workers) /\ NoTask \notin Task
  /\ MaxWorkerWakes \in Nat /\ MaxClientWakes \in Nat

VARIABLES
  tasks,      \* tasks_
  running,    \* running_
  complete,   \* complete_
  available,  \* available_
  waiting,    \* the workers blocked in condition_.wait
  awaiting,   \* the clients blocked in completed_.wait
  wpc,        \* where each worker is
  current,    \* the task it runs
  cpc,        \* where each client is
  promised,   \* the tasks submitted before a client's waitWorkComplete()
  submitted,  \* the tasks ever pushed
  ran,        \* the tasks that have run
  phase,      \* the life of the pool object
  workerWakes, clientWakes   \* spurious wake-ups that may still happen

workerVars == <<wpc, current, ran>>
clientVars == <<cpc, promised>>
wakes == <<workerWakes, clientWakes>>
vars == <<tasks, running, complete, available, waiting, awaiting, wpc, current,
          cpc, promised, submitted, ran, phase, workerWakes, clientWakes>>

total == Cardinality(Workers)   \* total_

\* The constructor's initialisation list; the threads are created one by one.
Init ==
  /\ tasks = <<>> /\ running = TRUE /\ complete = TRUE /\ available = total
  /\ waiting = {} /\ awaiting = {}
  /\ wpc = [w \in Workers |-> "none"] /\ current = [w \in Workers |-> NoTask]
  /\ cpc = [c \in Clients |-> "idle"] /\ promised = [c \in Clients |-> {}]
  /\ submitted = {} /\ ran = {} /\ phase = "constructing"
  /\ workerWakes = MaxWorkerWakes /\ clientWakes = MaxClientWakes

\* The object is there and the process has not been terminated.
Alive == phase \in {"constructing", "open", "destroying"}

-----------------------------------------------------------------------------
(* Construction and destruction                                            *)

\* create_thread(): the new worker runs at once, before the others exist.
CreateThread(w) ==
  /\ phase = "constructing" /\ wpc[w] = "none"
  /\ wpc' = [wpc EXCEPT ![w] = "loop"]
  /\ UNCHANGED <<tasks, running, complete, available, waiting, awaiting, current,
                 clientVars, submitted, ran, phase, wakes>>

Constructed ==
  /\ phase = "constructing" /\ \A w \in Workers : wpc[w] # "none"
  /\ phase' = "open"
  /\ UNCHANGED <<tasks, running, complete, available, waiting, awaiting,
                 workerVars, clientVars, submitted, wakes>>

\* The system refuses a thread: the exception leaves the constructor and
\* ~thread_group deletes the threads created so far.  They are joinable, so
\* that std::terminate is called if there is one.
ConstructorFails ==
  /\ phase = "constructing" /\ \E w \in Workers : wpc[w] = "none"
  /\ phase' = IF \A w \in Workers : wpc[w] = "none" THEN "destroyed" ELSE "terminated"
  /\ UNCHANGED <<tasks, running, complete, available, waiting, awaiting,
                 workerVars, clientVars, submitted, wakes>>

\* A slip to be caught: the destructor wakes one worker only.
DestroyNotifyOne ==
  /\ phase = "open" /\ \A c \in Clients : cpc[c] = "idle"
  /\ phase' = "destroying" /\ running' = FALSE
  /\ \/ waiting = {} /\ UNCHANGED <<waiting, wpc>>
     \/ \E w \in waiting : waiting' = waiting \ {w} /\ wpc' = [wpc EXCEPT ![w] = "lock"]
  /\ UNCHANGED <<tasks, complete, available, awaiting, current, clientVars,
                 submitted, ran, wakes>>

\* ~ThreadPool(), once no client is inside a call: clears running_ and
\* notifies every worker.
Destroy ==
  /\ phase = "open" /\ \A c \in Clients : cpc[c] = "idle"
  /\ phase' = "destroying" /\ running' = FALSE
  /\ waiting' = {}
  /\ wpc' = [w \in Workers |-> IF w \in waiting THEN "lock" ELSE wpc[w]]
  /\ UNCHANGED <<tasks, complete, available, awaiting, current, clientVars,
                 submitted, ran, wakes>>

\* join_all() returns when every worker has left main_loop.
JoinAll ==
  /\ phase = "destroying" /\ \A w \in Workers : wpc[w] = "exited"
  /\ phase' = "destroyed"
  /\ UNCHANGED <<tasks, running, complete, available, waiting, awaiting,
                 workerVars, clientVars, submitted, wakes>>

-----------------------------------------------------------------------------
(* The workers                                                             *)

\* The loop condition reads running_ without the mutex: while the destructor
\* writes it the read may still return the old value.
ReadRunning(w) ==
  /\ Alive /\ wpc[w] = "loop"
  /\ \/ wpc' = [wpc EXCEPT ![w] = "lock"]
     \/ ~running /\ wpc' = [wpc EXCEPT ![w] = "exited"]
  /\ UNCHANGED <<tasks, running, complete, available, waiting, awaiting, current,
                 clientVars, submitted, ran, phase, wakes>>

WaitForTask(w) ==
  /\ Alive /\ wpc[w] = "lock" /\ running /\ tasks = <<>>
  /\ waiting' = waiting \cup {w}
  /\ wpc' = [wpc EXCEPT ![w] = "waiting"]
  /\ UNCHANGED <<tasks, running, complete, available, awaiting, current,
                 clientVars, submitted, ran, phase, wakes>>

Break(w) ==
  /\ Alive /\ wpc[w] = "lock" /\ ~running
  /\ wpc' = [wpc EXCEPT ![w] = "exited"]
  /\ UNCHANGED <<tasks, running, complete, available, waiting, awaiting, current,
                 clientVars, submitted, ran, phase, wakes>>

\* A slip to be caught: the task is copied but stays in the queue.
TakeTaskNoPop(w) ==
  /\ Alive /\ wpc[w] = "lock" /\ running /\ tasks # <<>>
  /\ current' = [current EXCEPT ![w] = Head(tasks)]
  /\ available' = available - 1
  /\ wpc' = [wpc EXCEPT ![w] = "run"]
  /\ UNCHANGED <<tasks, running, complete, waiting, awaiting, clientVars,
                 submitted, ran, phase, wakes>>

\* The front task is copied and removed, and the mutex released.
TakeTask(w) ==
  /\ Alive /\ wpc[w] = "lock" /\ running /\ tasks # <<>>
  /\ current' = [current EXCEPT ![w] = Head(tasks)]
  /\ tasks' = Tail(tasks)
  /\ available' = available - 1
  /\ wpc' = [wpc EXCEPT ![w] = "run"]
  /\ UNCHANGED <<running, complete, waiting, awaiting, clientVars, submitted,
                 ran, phase, wakes>>

\* A slip to be caught: a task that is pushed is not announced.
NotifyNobody == UNCHANGED waiting /\ wpc' = wpc

\* A worker blocked in condition_.wait is notified, if there is one.
NotifyWorker ==
  \/ waiting = {} /\ UNCHANGED waiting /\ wpc' = wpc
  \/ \E v \in waiting : waiting' = waiting \ {v} /\ wpc' = [wpc EXCEPT ![v] = "lock"]

\* What runTask() does under the mutex, wpc aside.
PushTask(t) ==
  /\ t \in Task \ submitted
  /\ submitted' = submitted \cup {t}
  /\ tasks' = Append(tasks, t)
  /\ complete' = FALSE

\* The task runs, and returns or throws a std::exception, which is swallowed.
RunTask(w) ==
  /\ Alive /\ wpc[w] = "run"
  /\ ran' = ran \cup {current[w]}
  /\ wpc' = [wpc EXCEPT ![w] = "finish"]
  /\ UNCHANGED <<tasks, running, complete, available, waiting, awaiting, current,
                 clientVars, submitted, phase, wakes>>

\* The task throws something else, which leaves main_loop: std::terminate.
RunForeign(w) ==
  /\ Alive /\ wpc[w] = "run"
  /\ phase' = "terminated"
  /\ UNCHANGED <<tasks, running, complete, available, waiting, awaiting,
                 workerVars, clientVars, submitted, wakes>>

\* The task calls runTask() itself, then returns.
RunSpawning(w) ==
  /\ Alive /\ wpc[w] = "run"
  /\ \E t \in Task : PushTask(t)
  /\ ran' = ran \cup {current[w]}
  /\ \/ waiting = {} /\ UNCHANGED waiting /\ wpc' = [wpc EXCEPT ![w] = "finish"]
     \/ \E v \in waiting : /\ waiting' = waiting \ {v}
                           /\ wpc' = [wpc EXCEPT ![w] = "finish", ![v] = "lock"]
  /\ UNCHANGED <<running, available, awaiting, current, clientVars, phase, wakes>>

\* Slips to be caught: complete_ is set while other workers are busy; or never,
\* because available_ is compared before it is incremented.
AllDoneEarly == tasks = <<>>
AllDoneNever == tasks = <<>> /\ available = total

\* The test of a worker that has just become available.
AllDone == tasks = <<>> /\ available + 1 = total

\* The worker is available again; the last one to finish with no task queued
\* sets complete_ and notifies one client.
Finish(w) ==
  /\ Alive /\ wpc[w] = "finish"
  /\ available' = available + 1
  /\ current' = [current EXCEPT ![w] = NoTask]
  /\ wpc' = [wpc EXCEPT ![w] = "loop"]
  /\ IF AllDone
     THEN /\ complete' = TRUE
          /\ \/ awaiting = {} /\ UNCHANGED <<awaiting, cpc>>
             \/ \E c \in awaiting : /\ awaiting' = awaiting \ {c}
                                    /\ cpc' = [cpc EXCEPT ![c] = "woken"]
     ELSE UNCHANGED <<complete, awaiting, cpc>>
  /\ UNCHANGED <<tasks, running, waiting, promised, submitted, ran, phase, wakes>>

WakeWorker(w) ==
  /\ Alive /\ w \in waiting /\ workerWakes > 0
  /\ workerWakes' = workerWakes - 1
  /\ waiting' = waiting \ {w}
  /\ wpc' = [wpc EXCEPT ![w] = "lock"]
  /\ UNCHANGED <<tasks, running, complete, available, awaiting, current,
                 clientVars, submitted, ran, phase, clientWakes>>

-----------------------------------------------------------------------------
(* The clients                                                             *)

\* runTask() never looks at available_.
Submit(c, t) ==
  /\ phase = "open" /\ cpc[c] = "idle"
  /\ PushTask(t) /\ NotifyWorker
  /\ UNCHANGED <<running, available, awaiting, current, ran, clientVars, phase, wakes>>

\* waitWorkComplete() returns at once when there is nothing to wait for ...
WaitNothing(c) ==
  /\ phase = "open" /\ cpc[c] = "idle" /\ complete
  /\ promised' = [promised EXCEPT ![c] = submitted]
  /\ cpc' = [cpc EXCEPT ![c] = "woken"]
  /\ UNCHANGED <<tasks, running, complete, available, waiting, awaiting,
                 workerVars, submitted, phase, wakes>>

\* ... and blocks otherwise.
WaitComplete(c) ==
  /\ phase = "open" /\ cpc[c] = "idle" /\ ~complete
  /\ promised' = [promised EXCEPT ![c] = submitted]
  /\ awaiting' = awaiting \cup {c}
  /\ cpc' = [cpc EXCEPT ![c] = "waiting"]
  /\ UNCHANGED <<tasks, running, complete, available, waiting, workerVars,
                 submitted, phase, wakes>>

WakeClient(c) ==
  /\ Alive /\ c \in awaiting /\ clientWakes > 0
  /\ clientWakes' = clientWakes - 1
  /\ awaiting' = awaiting \ {c}
  /\ cpc' = [cpc EXCEPT ![c] = "woken"]
  /\ UNCHANGED <<tasks, running, complete, available, waiting, workerVars,
                 promised, submitted, phase, workerWakes>>

\* The wait is not in a loop: however it ended, the call returns.
WaitReturns(c) ==
  /\ Alive /\ cpc[c] = "woken"
  /\ cpc' = [cpc EXCEPT ![c] = "idle"]
  /\ promised' = [promised EXCEPT ![c] = {}]
  /\ UNCHANGED <<tasks, running, complete, available, waiting, awaiting,
                 workerVars, submitted, phase, wakes>>

-----------------------------------------------------------------------------
WorkerStep(w) ==
  \/ ReadRunning(w) \/ WaitForTask(w) \/ Break(w) \/ TakeTask(w)
  \/ RunTask(w) \/ RunForeign(w) \/ RunSpawning(w) \/ Finish(w)

ClientCall(c) == WaitNothing(c) \/ WaitComplete(c) \/ \E t \in Task : Submit(c, t)

Next ==
  \/ \E w \in Workers : CreateThread(w) \/ WorkerStep(w) \/ WakeWorker(w)
  \/ \E c \in Clients : ClientCall(c) \/ WakeClient(c) \/ WaitReturns(c)
  \/ Constructed \/ ConstructorFails \/ Destroy \/ JoinAll

Spec == Init /\ [][Next]_vars

\* Threads that are not blocked run.  The tasks and the spurious wake-ups are
\* bounded, so every thread that wants the mutex gets it in the end.
Fairness ==
  /\ \A w \in Workers : WF_vars(WorkerStep(w))
  /\ \A c \in Clients : WF_vars(WaitReturns(c))
  /\ WF_vars(JoinAll)

FairSpec == Spec /\ Fairness

-----------------------------------------------------------------------------
(* Properties                                                              *)

TypeOK ==
  /\ tasks \in Seq(Task)
  /\ running \in BOOLEAN /\ complete \in BOOLEAN
  /\ available \in 0 .. total
  /\ waiting \subseteq Workers /\ awaiting \subseteq Clients
  /\ wpc \in [Workers -> {"none", "loop", "lock", "waiting", "run", "finish", "exited"}]
  /\ current \in [Workers -> Task \cup {NoTask}]
  /\ cpc \in [Clients -> {"idle", "waiting", "woken"}]
  /\ promised \in [Clients -> SUBSET Task]
  /\ submitted \subseteq Task /\ ran \subseteq Task
  /\ phase \in {"constructing", "open", "destroying", "destroyed", "terminated"}
  /\ workerWakes \in 0 .. MaxWorkerWakes /\ clientWakes \in 0 .. MaxClientWakes

Busy == {w \in Workers : wpc[w] \in {"run", "finish"}}

\* complete_ says exactly that nothing is queued and nothing is being run,
\* whatever submits, takes, finishes and spawns at the same time.
CompleteIsExact == complete <=> tasks = <<>> /\ Busy = {}

\* Each submitted task is in one place: queued, being run, or done.
Queued == {tasks[i] : i \in 1 .. Len(tasks)}
EachTaskOnce ==
  /\ \A i, j \in 1 .. Len(tasks) : tasks[i] = tasks[j] => i = j
  /\ \A v, w \in Busy : current[v] = current[w] => v = w
  /\ \A w \in Busy : current[w] \notin Queued
  /\ \A w \in Workers : wpc[w] = "run" => current[w] \notin ran
  /\ Queued \cap ran = {}
  /\ submitted = Queued \cup ran \cup {current[w] : w \in Busy}

\* No wake-up is lost: while a worker sleeps, there are enough workers about to
\* look at the queue for all the tasks in it.
NoLostWakeup ==
  waiting # {} => Len(tasks) <= Cardinality({w \in Workers : wpc[w] = "lock"})

\* No task is lost, run twice or forgotten: the state is well typed, each task is
\* in one place, and those that are queued have somebody awake for them.
TasksInv == TypeOK /\ EachTaskOnce /\ NoLostWakeup

\* "Wait for queue to be empty": when waitWorkComplete() returns, every task
\* submitted before the call has run, as long as completed_.wait has not ended
\* spuriously: it is not in a loop.
WaitCoversEarlierTasks ==
  [][\A c \in Clients :
       cpc[c] = "woken" /\ cpc'[c] = "idle" /\ clientWakes = MaxClientWakes
         => promised[c] \subseteq ran]_vars

\* A submitted task is run, unless the pool is destroyed or the process ends.
EveryTaskRuns ==
  \A t \in Task : t \in submitted ~> t \in ran \/ phase # "open"

WaitEndsFor(c) == cpc[c] = "waiting" ~> cpc[c] # "waiting" \/ phase = "terminated"

\* waitWorkComplete() returns, if no other thread ever waits with the caller.
LoneWaitEnds == \A c \in Clients : [](awaiting \subseteq {c}) => WaitEndsFor(c)

\* "Wait for queue to be empty": waitWorkComplete() returns, whoever else waits.
EveryWaitEnds == \A c \in Clients : WaitEndsFor(c)

\* The destructor returns: no worker sleeps through it.
DestructorEnds == phase = "destroying" ~> phase \in {"destroyed", "terminated"}
=============================================================================
