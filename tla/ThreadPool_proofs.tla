-------------------------- MODULE ThreadPool_proofs --------------------------
(***************************************************************************)
(* complete_ is exact, available_ counts the idle workers, no task is lost *)
(* and waitWorkComplete() waits for those submitted before it: proved for  *)
(* every pool size, every number of clients and tasks of every kind.       *)
(***************************************************************************)
EXTENDS ThreadPool, FiniteSetTheorems, TLAPS

WorkerPcs == {"none", "loop", "lock", "waiting", "run", "finish", "exited"}

PoolType ==
  /\ tasks \in Seq(Task) /\ complete \in BOOLEAN
  /\ wpc \in [Workers -> WorkerPcs]
  /\ waiting \subseteq Workers /\ \A w \in waiting : wpc[w] = "waiting"

\* available_ is what the workers that run no task leave of total_.
AvailableIsExact == available = total - Cardinality(Busy)

PInv == PoolType /\ AvailableIsExact /\ CompleteIsExact

\* The busy workers are a finite set, and so countable.
LEMMA BusyIsFinite ==
  /\ IsFiniteSet(Busy) /\ Cardinality(Busy) \in Nat
  /\ total \in Nat /\ Cardinality(Busy) <= total
<1>1. IsFiniteSet(Workers) /\ Busy \subseteq Workers
  BY PoolAssumption DEF Busy
<1> QED
  BY <1>1, FS_Subset, FS_CardinalityType DEF total

\* Waking a sleeping worker makes nobody busy.
LEMMA WakingIsIdle ==
  ASSUME PoolType, NEW v \in waiting
  PROVE  /\ waiting \ {v} \subseteq Workers
         /\ [wpc EXCEPT ![v] = "lock"] \in [Workers -> WorkerPcs]
         /\ \A w \in waiting \ {v} : [wpc EXCEPT ![v] = "lock"][w] = "waiting"
         /\ \A w \in Workers : [wpc EXCEPT ![v] = "lock"][w] \in {"run", "finish"}
                                 <=> wpc[w] \in {"run", "finish"}
BY DEF PoolType, WorkerPcs

\* notify_one() makes at most one waiter stand before the lock: nobody starts or
\* stops being busy.
LEMMA NotifyKeepsBusy ==
  ASSUME PoolType, NotifyWorker
  PROVE  /\ waiting' \subseteq Workers /\ wpc' \in [Workers -> WorkerPcs]
         /\ \A w \in waiting' : wpc'[w] = "waiting"
         /\ Busy' = Busy
<1>1. CASE waiting' = waiting /\ wpc' = wpc
  BY <1>1 DEF PoolType, Busy
<1>2. CASE \E v \in waiting : /\ waiting' = waiting \ {v}
                              /\ wpc' = [wpc EXCEPT ![v] = "lock"]
  <2>1. PICK v \in waiting : /\ waiting' = waiting \ {v}
                             /\ wpc' = [wpc EXCEPT ![v] = "lock"]
    BY <1>2
  <2> QED
    BY <2>1, WakingIsIdle DEF Busy
<1> QED
  BY <1>1, <1>2 DEF NotifyWorker

\* The pool is constructed with no thread, no task and available_ = total_.
LEMMA PInvInit == Init => PInv
<1> SUFFICES ASSUME Init PROVE PInv
  OBVIOUS
<1>1. PoolType
  BY DEF Init, PoolType, WorkerPcs
<1>2. Busy = {}
  BY DEF Init, Busy
<1>3. AvailableIsExact
  BY <1>2, FS_EmptySet, BusyIsFinite DEF Init, AvailableIsExact
<1>4. CompleteIsExact
  BY <1>2 DEF Init, CompleteIsExact
<1> QED
  BY <1>1, <1>3, <1>4 DEF PInv

\* What leaves the queue, the counters and the set of busy workers alone.
LEMMA Undisturbed ==
  ASSUME PInv, PoolType', Busy' = Busy, UNCHANGED <<tasks, complete, available>>
  PROVE  PInv'
BY DEF PInv, AvailableIsExact, CompleteIsExact, total

\* What runTask() does to the queue and to complete_.
LEMMA PushedType ==
  ASSUME PoolType, NEW t \in Task, PushTask(t)
  PROVE  tasks' \in Seq(Task) /\ complete' = FALSE
<1>1. tasks \in Seq(Task) /\ tasks' = Append(tasks, t) /\ complete' = FALSE
  BY DEF PoolType, PushTask
<1> QED
  BY <1>1

\* A task is queued: complete_ is cleared, nobody's state changes.
LEMMA Pushed ==
  ASSUME PInv, NEW t \in Task, PushTask(t), PoolType', Busy' = Busy,
         UNCHANGED available
  PROVE  PInv'
<1>1. tasks' # <<>> /\ complete' = FALSE
  BY DEF PushTask, PInv, PoolType
<1> QED
  BY <1>1 DEF PInv, AvailableIsExact, CompleteIsExact, total

\* Every step of a worker or of a client keeps the invariant.
LEMMA PInvStep == PInv /\ [Next]_vars => PInv'
<1> SUFFICES ASSUME PInv, [Next]_vars PROVE PInv'
  OBVIOUS
<1>0. PoolType
  BY DEF PInv
<1>1. ASSUME NEW w \in Workers, CreateThread(w) PROVE PInv'
  <2>1. PoolType' /\ Busy' = Busy
    BY <1>0, <1>1 DEF CreateThread, PoolType, WorkerPcs, Busy
  <2> QED
    BY <2>1, <1>1, Undisturbed DEF CreateThread
<1>2. ASSUME NEW w \in Workers, ReadRunning(w) PROVE PInv'
  <2>1. PoolType' /\ Busy' = Busy
    BY <1>0, <1>2 DEF ReadRunning, PoolType, WorkerPcs, Busy
  <2> QED
    BY <2>1, <1>2, Undisturbed DEF ReadRunning
<1>3. ASSUME NEW w \in Workers, WaitForTask(w) PROVE PInv'
  <2>1. PoolType' /\ Busy' = Busy
    BY <1>0, <1>3 DEF WaitForTask, PoolType, WorkerPcs, Busy
  <2> QED
    BY <2>1, <1>3, Undisturbed DEF WaitForTask
<1>4. ASSUME NEW w \in Workers, Break(w) PROVE PInv'
  <2>1. PoolType' /\ Busy' = Busy
    BY <1>0, <1>4 DEF Break, PoolType, WorkerPcs, Busy
  <2> QED
    BY <2>1, <1>4, Undisturbed DEF Break
<1>5. ASSUME NEW w \in Workers, TakeTask(w) PROVE PInv'
  <2>1. PoolType'
    BY <1>0, <1>5 DEF TakeTask, PoolType, WorkerPcs
  <2>2. w \notin Busy /\ Busy' = Busy \cup {w}
    BY <1>0, <1>5 DEF TakeTask, PoolType, WorkerPcs, Busy
  <2>3. Cardinality(Busy') = Cardinality(Busy) + 1
    BY <2>2, <1>0, BusyIsFinite, FS_AddElement
  <2>4. AvailableIsExact'
    BY <2>3, <1>5, BusyIsFinite DEF TakeTask, PInv, AvailableIsExact, total
  <2>5. complete = FALSE /\ complete' = FALSE
    BY <1>5 DEF TakeTask, PInv, CompleteIsExact, PoolType
  <2> QED
    BY <2>1, <2>2, <2>4, <2>5 DEF PInv, CompleteIsExact
<1>6. ASSUME NEW w \in Workers, RunTask(w) PROVE PInv'
  <2>1. PoolType' /\ Busy' = Busy
    BY <1>0, <1>6 DEF RunTask, PoolType, WorkerPcs, Busy
  <2> QED
    BY <2>1, <1>6, Undisturbed DEF RunTask
<1>7. ASSUME NEW w \in Workers, RunForeign(w) PROVE PInv'
  <2>1. PoolType' /\ Busy' = Busy
    BY <1>0, <1>7 DEF RunForeign, PoolType, Busy, workerVars
  <2> QED
    BY <2>1, <1>7, Undisturbed DEF RunForeign
<1>8. ASSUME NEW w \in Workers, RunSpawning(w) PROVE PInv'
  <2>1. PICK t \in Task : PushTask(t)
    BY <1>8 DEF RunSpawning
  <2>2. tasks' \in Seq(Task) /\ complete' \in BOOLEAN /\ UNCHANGED available
    BY <2>1, <1>0, <1>8, PushedType DEF RunSpawning
  <2>3. PoolType' /\ Busy' = Busy
    <3>1. CASE waiting' = waiting /\ wpc' = [wpc EXCEPT ![w] = "finish"]
      BY <3>1, <2>2, <1>0, <1>8 DEF RunSpawning, PoolType, WorkerPcs, Busy
    <3>2. CASE \E v \in waiting : /\ waiting' = waiting \ {v}
                                  /\ wpc' = [wpc EXCEPT ![w] = "finish", ![v] = "lock"]
      <4>1. PICK v \in waiting : /\ waiting' = waiting \ {v}
                                 /\ wpc' = [wpc EXCEPT ![w] = "finish", ![v] = "lock"]
        BY <3>2
      <4>2. v # w /\ v \in Workers /\ wpc[w] = "run" /\ wpc[v] = "waiting"
        BY <4>1, <1>0, <1>8 DEF RunSpawning, PoolType
      <4> QED
        BY <4>1, <4>2, <2>2, <1>0 DEF PoolType, WorkerPcs, Busy
    <3> QED
      BY <3>1, <3>2, <1>8 DEF RunSpawning
  <2> QED
    BY <2>1, <2>2, <2>3, Pushed
<1>9. ASSUME NEW w \in Workers, Finish(w) PROVE PInv'
  <2>1. PoolType'
    BY <1>0, <1>9 DEF Finish, PoolType, WorkerPcs
  <2>2. w \in Busy /\ Busy' = Busy \ {w}
    BY <1>0, <1>9 DEF Finish, PoolType, WorkerPcs, Busy
  <2>3. Cardinality(Busy') = Cardinality(Busy) - 1
    BY <2>2, <1>0, BusyIsFinite, FS_RemoveElement
  <2>4. AvailableIsExact'
    BY <2>3, <1>9, BusyIsFinite DEF Finish, PInv, AvailableIsExact, total
  <2>5. Busy' = {} <=> Cardinality(Busy') = 0
    <3>1. IsFiniteSet(Busy')
      BY <2>2, BusyIsFinite, FS_Subset
    <3> QED
      BY <3>1, FS_EmptySet
  <2>6. AllDone <=> tasks' = <<>> /\ Busy' = {}
    BY <2>3, <2>5, <1>9, BusyIsFinite DEF AllDone, Finish, PInv, AvailableIsExact
  <2>7. complete = FALSE
    BY <2>2, <1>0 DEF PInv, CompleteIsExact, PoolType
  <2>8. complete' = AllDone
    BY <2>7, <1>9 DEF Finish, AllDone
  <2> QED
    BY <2>1, <2>4, <2>6, <2>8 DEF PInv, CompleteIsExact
<1>10. ASSUME NEW w \in Workers, WakeWorker(w) PROVE PInv'
  <2>1. PoolType' /\ Busy' = Busy
    BY <1>0, <1>10, WakingIsIdle DEF WakeWorker, PoolType, Busy
  <2> QED
    BY <2>1, <1>10, Undisturbed DEF WakeWorker
<1>11. ASSUME NEW c \in Clients, NEW t \in Task, Submit(c, t) PROVE PInv'
  <2>1. tasks' \in Seq(Task) /\ complete' \in BOOLEAN
    BY <1>0, <1>11, PushedType DEF Submit
  <2>2. PoolType' /\ Busy' = Busy
    BY <2>1, <1>0, <1>11, NotifyKeepsBusy DEF Submit, PoolType
  <2> QED
    BY <2>2, <1>11, Pushed DEF Submit
<1>12. ASSUME NEW c \in Clients,
              WaitNothing(c) \/ WaitComplete(c) \/ WakeClient(c) \/ WaitReturns(c)
       PROVE PInv'
  <2>1. UNCHANGED <<tasks, complete, available, waiting, wpc>>
    BY <1>12 DEF WaitNothing, WaitComplete, WakeClient, WaitReturns, workerVars
  <2>2. PoolType' /\ Busy' = Busy
    BY <2>1, <1>0 DEF PoolType, Busy
  <2> QED
    BY <2>1, <2>2, Undisturbed
<1>13. ASSUME Constructed \/ ConstructorFails \/ JoinAll PROVE PInv'
  <2>1. UNCHANGED <<tasks, complete, available, waiting, wpc>>
    BY <1>13 DEF Constructed, ConstructorFails, JoinAll, workerVars
  <2>2. PoolType' /\ Busy' = Busy
    BY <2>1, <1>0 DEF PoolType, Busy
  <2> QED
    BY <2>1, <2>2, Undisturbed
<1>14. ASSUME Destroy PROVE PInv'
  <2>1. PoolType' /\ Busy' = Busy
    BY <1>0, <1>14 DEF Destroy, PoolType, WorkerPcs, Busy
  <2> QED
    BY <2>1, <1>14, Undisturbed DEF Destroy
<1>15. ASSUME UNCHANGED vars PROVE PInv'
  <2>1. PoolType' /\ Busy' = Busy
    BY <1>0, <1>15 DEF vars, PoolType, Busy
  <2> QED
    BY <2>1, <1>15, Undisturbed DEF vars
<1> QED
  BY <1>1, <1>2, <1>3, <1>4, <1>5, <1>6, <1>7, <1>8, <1>9, <1>10, <1>11, <1>12,
     <1>13, <1>14, <1>15 DEF Next, WorkerStep, ClientCall

\* Every reachable state of a pool of any size, with any clients and any tasks,
\* satisfies the invariant.
THEOREM Invariance == Spec => []PInv
<1> QED
  BY PInvInit, PInvStep, PTL DEF Spec

\* For every pool: complete_ says exactly that no task is queued or running,
\* which is what waitWorkComplete() returns on.
THEOREM CompletionIsExact == Spec => []CompleteIsExact
<1>1. PInv => CompleteIsExact
  BY DEF PInv
<1> QED
  BY <1>1, Invariance, PTL

\* For every pool: available_ plus the busy workers is total_, so that it never
\* leaves 0 .. total_ and the test in main_loop compares what it means to.
THEOREM AvailableCountsTheIdle == Spec => []AvailableIsExact
<1>1. PInv => AvailableIsExact
  BY DEF PInv
<1> QED
  BY <1>1, Invariance, PTL

-----------------------------------------------------------------------------
(* Every task is in one place, and none is left beside a sleeping worker.   *)

\* The types of everything but available_, which AvailableIsExact bounds.
TaskType ==
  /\ tasks \in Seq(Task) /\ running \in BOOLEAN /\ complete \in BOOLEAN
  /\ waiting \subseteq Workers /\ awaiting \subseteq Clients
  /\ wpc \in [Workers -> WorkerPcs]
  /\ current \in [Workers -> Task \cup {NoTask}]
  /\ cpc \in [Clients -> {"idle", "waiting", "woken"}]
  /\ promised \in [Clients -> SUBSET Task]
  /\ submitted \subseteq Task /\ ran \subseteq Task
  /\ phase \in {"constructing", "open", "destroying", "destroyed", "terminated"}
  /\ workerWakes \in 0 .. MaxWorkerWakes /\ clientWakes \in 0 .. MaxClientWakes

\* Nobody sleeps once the destructor has cleared running_: a worker that leaves
\* main_loop does not have to leave its notification to somebody else.
NoSleepAtTheEnd == ~running => waiting = {}

\* What a busy worker holds is a task, and one that has run when it is done.
HeldTasks ==
  \A w \in Workers : /\ wpc[w] \in {"run", "finish"} => current[w] \in Task
                     /\ wpc[w] = "finish" => current[w] \in ran

Lockers == {w \in Workers : wpc[w] = "lock"}

TInv == /\ TaskType /\ NoSleepAtTheEnd /\ HeldTasks /\ EachTaskOnce /\ NoLostWakeup
        /\ \A w \in waiting : wpc[w] = "waiting"

\* No set of workers is larger than one it is part of.
LEMMA WorkersCount ==
  ASSUME NEW A, NEW B, A \subseteq B, B \subseteq Workers
  PROVE  /\ IsFiniteSet(A) /\ Cardinality(A) \in Nat /\ Cardinality(B) \in Nat
         /\ Cardinality(A) <= Cardinality(B)
<1>1. IsFiniteSet(Workers)
  BY PoolAssumption
<1> QED
  BY <1>1, FS_Subset, FS_CardinalityType

\* Steps that move no task: every worker is as busy as it was.
LEMMA TasksStay ==
  ASSUME TInv, UNCHANGED <<tasks, current, ran, submitted>>,
         \A w \in Workers : /\ wpc'[w] = "run" <=> wpc[w] = "run"
                            /\ wpc'[w] = "finish" <=> wpc[w] = "finish"
  PROVE  EachTaskOnce' /\ HeldTasks'
<1>1. Busy' = Busy /\ Queued' = Queued
  BY DEF Busy, Queued
<1>2. HeldTasks'
  BY DEF TInv, HeldTasks
<1>3. EachTaskOnce'
  BY <1>1 DEF TInv, EachTaskOnce
<1> QED
  BY <1>2, <1>3

\* Steps after which no more workers sleep and no fewer are about to look.
LEMMA WakeupStays ==
  ASSUME TInv, tasks' = tasks, waiting' \subseteq waiting,
         \A w \in Workers : wpc[w] = "lock" => wpc'[w] = "lock"
  PROVE  NoLostWakeup'
<1>1. Lockers \subseteq Lockers' /\ Lockers' \subseteq Workers
  BY DEF Lockers
<1>2. /\ Cardinality(Lockers) <= Cardinality(Lockers')
      /\ Cardinality(Lockers) \in Nat /\ Cardinality(Lockers') \in Nat
  BY <1>1, WorkersCount
<1>3. waiting # {} => Len(tasks) <= Cardinality(Lockers)
  BY DEF TInv, NoLostWakeup, Lockers
<1>4. Len(tasks) \in Nat
  BY DEF TInv, TaskType
<1>5. waiting' # {} => Len(tasks') <= Cardinality(Lockers')
  BY <1>2, <1>3, <1>4
<1> QED
  BY <1>5 DEF NoLostWakeup, Lockers

\* A task that is pushed is queued once, and in no other place.
LEMMA PushedOnce ==
  ASSUME TInv, NEW t \in Task, PushTask(t)
  PROVE  /\ tasks' \in Seq(Task) /\ Len(tasks') = Len(tasks) + 1
         /\ Queued' = Queued \cup {t} /\ t \notin Queued
         /\ \A i, j \in 1 .. Len(tasks') : tasks'[i] = tasks'[j] => i = j
<1>1. tasks \in Seq(Task) /\ tasks' = Append(tasks, t) /\ t \notin submitted
  BY DEF TInv, TaskType, PushTask
<1>2. t \notin Queued
  BY <1>1 DEF TInv, EachTaskOnce
<1>3. /\ tasks' \in Seq(Task) /\ Len(tasks') = Len(tasks) + 1 /\ Len(tasks) \in Nat
      /\ tasks'[Len(tasks) + 1] = t
      /\ \A i \in 1 .. Len(tasks) : tasks'[i] = tasks[i] /\ tasks[i] # t
  BY <1>1, <1>2 DEF Queued
<1>4. Queued' = Queued \cup {t}
  BY <1>3 DEF Queued
<1>5. \A i, j \in 1 .. Len(tasks') : tasks'[i] = tasks'[j] => i = j
  BY <1>3 DEF TInv, EachTaskOnce
<1> QED
  BY <1>2, <1>3, <1>4, <1>5

\* A task that is taken is queued no longer.
LEMMA TakenOnce ==
  ASSUME TInv, tasks # <<>>, tasks' = Tail(tasks)
  PROVE  /\ tasks' \in Seq(Task) /\ Len(tasks') = Len(tasks) - 1 /\ Len(tasks) \in Nat \ {0}
         /\ Head(tasks) \in Queued /\ Head(tasks) \in Task
         /\ Queued' = Queued \ {Head(tasks)}
         /\ \A i, j \in 1 .. Len(tasks') : tasks'[i] = tasks'[j] => i = j
<1>1. tasks \in Seq(Task)
  BY DEF TInv, TaskType
<1>2. /\ tasks' \in Seq(Task) /\ Len(tasks') = Len(tasks) - 1 /\ Len(tasks) \in Nat \ {0}
      /\ Head(tasks) = tasks[1] /\ Head(tasks) \in Task
      /\ \A i \in 1 .. Len(tasks') : tasks'[i] = tasks[i + 1]
  <2>1. Len(tasks) \in Nat \ {0}
    BY <1>1
  <2>2. Head(tasks) = tasks[1] /\ Head(tasks) \in Task
    BY <1>1, <2>1
  <2>3. tasks' \in Seq(Task) /\ Len(tasks') = Len(tasks) - 1
    BY <1>1, <2>1
  <2>4. \A i \in 1 .. Len(tasks') : tasks'[i] = tasks[i + 1]
    BY <1>1, <2>1, <2>3
  <2> QED
    BY <2>1, <2>2, <2>3, <2>4
<1>3. \A i, j \in 1 .. Len(tasks) : tasks[i] = tasks[j] => i = j
  BY DEF TInv, EachTaskOnce
<1>4. \A i, j \in 1 .. Len(tasks') : tasks'[i] = tasks'[j] => i = j
  BY <1>2, <1>3
<1>5. Queued' \subseteq Queued \ {Head(tasks)}
  BY <1>2, <1>3 DEF Queued
<1>6. Queued \ {Head(tasks)} \subseteq Queued'
  <2>1. SUFFICES ASSUME NEW i \in 2 .. Len(tasks) PROVE tasks[i] \in Queued'
    BY <1>2 DEF Queued
  <2>2. i - 1 \in 1 .. Len(tasks') /\ tasks'[i - 1] = tasks[i]
    BY <1>2
  <2> QED
    BY <2>2 DEF Queued
<1>7. Head(tasks) \in Queued
  BY <1>2 DEF Queued
<1> QED
  BY <1>2, <1>4, <1>5, <1>6, <1>7

\* A pushed task has somebody awake for it, or nobody sleeps.
LEMMA Announced ==
  ASSUME TInv, NEW t \in Task, PushTask(t),
         \/ waiting' = {}
         \/ \E v \in waiting : Lockers' = Lockers \cup {v}
  PROVE  NoLostWakeup'
<1>1. CASE waiting' = {}
  BY <1>1 DEF NoLostWakeup
<1>2. CASE \E v \in waiting : Lockers' = Lockers \cup {v}
  <2>1. PICK v \in waiting : Lockers' = Lockers \cup {v}
    BY <1>2
  <2>2. v \notin Lockers
    BY DEF TInv, Lockers
  <2>3. IsFiniteSet(Lockers) /\ Cardinality(Lockers) \in Nat
    BY WorkersCount DEF Lockers
  <2>4. Cardinality(Lockers') = Cardinality(Lockers) + 1
    BY <2>1, <2>2, <2>3, FS_AddElement
  <2>5. Len(tasks) <= Cardinality(Lockers) /\ Len(tasks) \in Nat
    BY DEF TInv, NoLostWakeup, Lockers, TaskType
  <2>6. Len(tasks') <= Cardinality(Lockers')
    BY <2>3, <2>4, <2>5, PushedOnce
  <2> QED
    BY <2>6 DEF NoLostWakeup, Lockers
<1> QED
  BY <1>1, <1>2

\* A new pool has no task.
LEMMA TInvInit == Init => TInv
<1> SUFFICES ASSUME Init PROVE TInv
  OBVIOUS
<1>1. TaskType /\ NoSleepAtTheEnd /\ NoLostWakeup /\ waiting = {}
  BY PoolAssumption DEF Init, TaskType, WorkerPcs, NoSleepAtTheEnd, NoLostWakeup
<1>2. Busy = {} /\ Queued = {} /\ HeldTasks
  BY DEF Init, Busy, Queued, HeldTasks
<1>3. EachTaskOnce
  BY <1>2 DEF Init, EachTaskOnce
<1> QED
  BY <1>1, <1>2, <1>3 DEF TInv

\* A worker takes the front task: it leaves the queue and is held by the worker,
\* which looks at the queue no more.
LEMMA TakeKeeps ==
  ASSUME TInv, NEW w \in Workers, TakeTask(w)
  PROVE  TInv'
<1>1. /\ tasks # <<>> /\ tasks' = Tail(tasks) /\ wpc[w] = "lock"
      /\ current' = [current EXCEPT ![w] = Head(tasks)]
      /\ wpc' = [wpc EXCEPT ![w] = "run"]
      /\ UNCHANGED <<running, waiting, ran, submitted>>
  BY DEF TakeTask
<1>2. /\ wpc \in [Workers -> WorkerPcs] /\ current \in [Workers -> Task \cup {NoTask}]
      /\ waiting \subseteq Workers
  BY DEF TInv, TaskType
<1>3. TaskType' /\ NoSleepAtTheEnd'
  BY <1>1, TakenOnce DEF TInv, TaskType, NoSleepAtTheEnd, TakeTask, WorkerPcs, clientVars, wakes
<1>4. HeldTasks'
  BY <1>1, <1>2, TakenOnce DEF TInv, HeldTasks
<1>5. w \notin Busy /\ Busy' = Busy \cup {w}
  BY <1>1, <1>2 DEF Busy
<1>6. /\ current'[w] = Head(tasks)
      /\ \A v \in Busy : current'[v] = current[v] /\ current[v] \notin Queued
  BY <1>1, <1>2, <1>5 DEF TInv, EachTaskOnce, Busy
<1>7. EachTaskOnce'
  <2>1. \A u, v \in Busy' : current'[u] = current'[v] => u = v
    BY <1>5, <1>6, TakenOnce, <1>1 DEF TInv, EachTaskOnce
  <2>2. \A v \in Busy' : current'[v] \notin Queued'
    BY <1>5, <1>6, TakenOnce, <1>1
  <2>3. \A v \in Workers : wpc'[v] = "run" => current'[v] \notin ran'
    <3>1. Head(tasks) \notin ran
      BY <1>1, TakenOnce DEF TInv, EachTaskOnce
    <3> QED
      BY <3>1, <1>1, <1>2 DEF TInv, EachTaskOnce
  <2>4. {current'[v] : v \in Busy'} = {current[v] : v \in Busy} \cup {Head(tasks)}
    BY <1>5, <1>6
  <2>5. Queued' \cap ran' = {}
        /\ submitted' = Queued' \cup ran' \cup {current'[v] : v \in Busy'}
    <3>1. /\ Queued \cap ran = {}
          /\ submitted = Queued \cup ran \cup {current[v] : v \in Busy}
      BY DEF TInv, EachTaskOnce
    <3>2. Queued' = Queued \ {Head(tasks)} /\ Head(tasks) \in Queued
      BY <1>1, TakenOnce
    <3>3. ran' = ran /\ submitted' = submitted
      BY <1>1
    <3> QED
      BY <2>4, <3>1, <3>2, <3>3
  <2>6. \A i, j \in 1 .. Len(tasks') : tasks'[i] = tasks'[j] => i = j
    BY <1>1, TakenOnce
  <2> QED
    BY <2>1, <2>2, <2>3, <2>5, <2>6 DEF EachTaskOnce
<1>8. NoLostWakeup'
  <2>1. w \in Lockers /\ Lockers' = Lockers \ {w}
    BY <1>1, <1>2 DEF Lockers
  <2>2. IsFiniteSet(Lockers) /\ Cardinality(Lockers) \in Nat
    BY WorkersCount DEF Lockers
  <2>3. Cardinality(Lockers') = Cardinality(Lockers) - 1
    BY <2>1, <2>2, FS_RemoveElement
  <2>4. waiting' # {} => Len(tasks) <= Cardinality(Lockers)
    BY <1>1 DEF TInv, NoLostWakeup, Lockers
  <2>5. waiting' # {} => Len(tasks') <= Cardinality(Lockers')
    BY <1>1, <2>2, <2>3, <2>4, TakenOnce
  <2> QED
    BY <2>5 DEF NoLostWakeup, Lockers
<1>9. \A v \in waiting' : wpc'[v] = "waiting"
  BY <1>1, <1>2 DEF TInv
<1> QED
  BY <1>3, <1>4, <1>7, <1>8, <1>9 DEF TInv

\* The task that ran is done: it is in no other place, and its worker holds it
\* until it has finished.
LEMMA RanOnce ==
  ASSUME TInv, NEW w \in Workers, wpc[w] = "run",
         ran' = ran \cup {current[w]}, current' = current,
         Busy' = Busy, \A v \in Workers \ {w} : wpc'[v] = "run" => wpc[v] = "run",
         \A v \in Workers \ {w} : wpc'[v] = "finish" => wpc[v] = "finish",
         wpc'[w] = "finish"
  PROVE  /\ HeldTasks'
         /\ \A v \in Workers : wpc'[v] = "run" => current'[v] \notin ran'
         /\ current[w] \notin Queued
         /\ ran' \cup {current'[v] : v \in Busy'} = ran \cup {current[v] : v \in Busy}
<1>1. w \in Busy /\ current[w] \in Task /\ current[w] \notin Queued
  BY DEF TInv, HeldTasks, EachTaskOnce, Busy
<1>2. HeldTasks'
  BY <1>1 DEF TInv, HeldTasks
<1>3. \A v \in Workers : wpc'[v] = "run" => current'[v] \notin ran'
  <2>1. SUFFICES ASSUME NEW v \in Workers, wpc'[v] = "run"
                 PROVE  current[v] \notin ran /\ current[v] # current[w]
    OBVIOUS
  <2>2. v # w /\ v \in Busy /\ wpc[v] = "run"
    BY <2>1 DEF Busy
  <2> QED
    BY <2>2, <1>1 DEF TInv, EachTaskOnce
<1>4. ran' \cup {current'[v] : v \in Busy'} = ran \cup {current[v] : v \in Busy}
  BY <1>1
<1> QED
  BY <1>1, <1>2, <1>3, <1>4

\* Every step keeps all of it.
LEMMA TInvStep == TInv /\ [Next]_vars => TInv'
<1> SUFFICES ASSUME TInv, [Next]_vars PROVE TInv'
  OBVIOUS
<1>0. /\ TaskType /\ NoSleepAtTheEnd /\ HeldTasks /\ EachTaskOnce /\ NoLostWakeup
      /\ \A v \in waiting : wpc[v] = "waiting"
  BY DEF TInv
<1> USE DEF WorkerPcs, clientVars, workerVars, wakes
<1>1. ASSUME NEW w \in Workers,
             CreateThread(w) \/ ReadRunning(w) \/ WakeWorker(w)
      PROVE  TInv'
  <2>1. /\ UNCHANGED <<tasks, running, complete, awaiting, current, clientVars, submitted, ran, phase>>
        /\ waiting' \subseteq waiting /\ w \notin waiting'
        /\ wpc[w] \in {"none", "loop", "waiting"}
        /\ \E where \in {"loop", "lock", "exited"} : wpc' = [wpc EXCEPT ![w] = where]
    BY <1>0, <1>1 DEF CreateThread, ReadRunning, WakeWorker, TaskType
  <2>2. TaskType' /\ NoSleepAtTheEnd'
    <3>1. wpc' \in [Workers -> WorkerPcs] /\ waiting' \subseteq Workers
      BY <2>1, <1>0 DEF TaskType
    <3>2. workerWakes' \in 0 .. MaxWorkerWakes /\ clientWakes' = clientWakes
      BY <1>0, <1>1, PoolAssumption DEF CreateThread, ReadRunning, WakeWorker, TaskType
    <3> QED
      BY <2>1, <3>1, <3>2, <1>0 DEF TaskType, NoSleepAtTheEnd
  <2>3. \A v \in Workers : /\ wpc'[v] = "run" <=> wpc[v] = "run"
                           /\ wpc'[v] = "finish" <=> wpc[v] = "finish"
                           /\ wpc[v] = "lock" => wpc'[v] = "lock"
    BY <2>1, <1>0 DEF TaskType
  <2>4. EachTaskOnce' /\ HeldTasks'
    BY <2>1, <2>3, TasksStay
  <2>5. NoLostWakeup'
    BY <2>1, <2>3, WakeupStays
  <2>6. \A v \in waiting' : wpc'[v] = "waiting"
    BY <2>1, <1>0 DEF TaskType
  <2> QED
    BY <2>2, <2>4, <2>5, <2>6 DEF TInv
<1>2. ASSUME NEW w \in Workers, WaitForTask(w) PROVE TInv'
  <2>1. TaskType' /\ NoSleepAtTheEnd'
    BY <1>0, <1>2 DEF WaitForTask, TaskType, NoSleepAtTheEnd
  <2>2. EachTaskOnce' /\ HeldTasks'
    BY <1>0, <1>2, TasksStay DEF WaitForTask, TaskType
  <2>3. NoLostWakeup'
    <3>1. Len(tasks') = 0
      BY <1>2 DEF WaitForTask
    <3>2. Cardinality(Lockers') \in Nat
      BY WorkersCount DEF Lockers
    <3> QED
      BY <3>1, <3>2 DEF NoLostWakeup, Lockers
  <2>4. \A v \in waiting' : wpc'[v] = "waiting"
    BY <1>0, <1>2 DEF WaitForTask, TaskType
  <2> QED
    BY <2>1, <2>2, <2>3, <2>4 DEF TInv
<1>3. ASSUME NEW w \in Workers, Break(w) PROVE TInv'
  <2>1. TaskType' /\ NoSleepAtTheEnd' /\ waiting' = {}
    BY <1>0, <1>3 DEF Break, TaskType, NoSleepAtTheEnd
  <2>2. EachTaskOnce' /\ HeldTasks'
    BY <1>0, <1>3, TasksStay DEF Break, TaskType
  <2> QED
    BY <2>1, <2>2 DEF TInv, NoLostWakeup
<1>4. ASSUME NEW w \in Workers, TakeTask(w) PROVE TInv'
  BY <1>4, TakeKeeps
<1>5. ASSUME NEW w \in Workers, RunTask(w) PROVE TInv'
  <2>1. /\ wpc[w] = "run" /\ wpc' = [wpc EXCEPT ![w] = "finish"] /\ ran' = ran \cup {current[w]}
        /\ UNCHANGED <<tasks, running, waiting, current, submitted>>
    BY <1>5 DEF RunTask
  <2>2. Busy' = Busy /\ Queued' = Queued
    BY <2>1, <1>0 DEF Busy, Queued, TaskType
  <2>3. /\ HeldTasks'
        /\ \A v \in Workers : wpc'[v] = "run" => current'[v] \notin ran'
        /\ current[w] \notin Queued
        /\ ran' \cup {current'[v] : v \in Busy'} = ran \cup {current[v] : v \in Busy}
    BY <2>1, <2>2, <1>0, RanOnce DEF TaskType
  <2>4. TaskType' /\ NoSleepAtTheEnd'
    BY <2>1, <1>0, <1>5 DEF RunTask, TaskType, NoSleepAtTheEnd, HeldTasks
  <2>5. EachTaskOnce'
    <3>1. Queued' \cap ran' = {}
      BY <2>1, <2>2, <2>3, <1>0 DEF EachTaskOnce
    <3>2. submitted' = Queued' \cup (ran' \cup {current'[v] : v \in Busy'})
      BY <2>1, <2>2, <2>3, <1>0 DEF EachTaskOnce
    <3> QED
      BY <2>1, <2>2, <2>3, <3>1, <3>2, <1>0 DEF EachTaskOnce
  <2>6. NoLostWakeup'
    BY <2>1, <1>0, WakeupStays DEF TaskType
  <2> QED
    BY <2>1, <2>3, <2>4, <2>5, <2>6, <1>0 DEF TInv, TaskType
<1>6. ASSUME NEW w \in Workers, RunForeign(w) PROVE TInv'
  <2>1. TaskType' /\ NoSleepAtTheEnd'
    BY <1>0, <1>6 DEF RunForeign, TaskType, NoSleepAtTheEnd
  <2>2. EachTaskOnce' /\ HeldTasks'
    BY <1>0, <1>6, TasksStay DEF RunForeign
  <2>3. NoLostWakeup'
    BY <1>6, WakeupStays DEF RunForeign
  <2> QED
    BY <2>1, <2>2, <2>3, <1>0, <1>6 DEF RunForeign, TInv
<1>7. ASSUME NEW w \in Workers, RunSpawning(w) PROVE TInv'
  <2>1. PICK t \in Task : PushTask(t)
    BY <1>7 DEF RunSpawning
  <2>2. /\ wpc[w] = "run" /\ wpc'[w] = "finish" /\ ran' = ran \cup {current[w]}
        /\ UNCHANGED <<running, current>> /\ submitted' = submitted \cup {t}
        /\ wpc' \in [Workers -> WorkerPcs] /\ waiting' \subseteq waiting
        /\ \A v \in Workers \ {w} : wpc'[v] = wpc[v] \/ (wpc[v] = "waiting" /\ wpc'[v] = "lock")
        /\ \A v \in waiting' : wpc'[v] = "waiting"
        /\ waiting' = {} \/ \E v \in waiting : Lockers' = Lockers \cup {v}
    <3>1. CASE waiting = {} /\ waiting' = waiting /\ wpc' = [wpc EXCEPT ![w] = "finish"]
      BY <3>1, <2>1, <1>0, <1>7 DEF RunSpawning, PushTask, TaskType
    <3>2. CASE \E v \in waiting : /\ waiting' = waiting \ {v}
                                  /\ wpc' = [wpc EXCEPT ![w] = "finish", ![v] = "lock"]
      <4>1. PICK v \in waiting : /\ waiting' = waiting \ {v}
                                 /\ wpc' = [wpc EXCEPT ![w] = "finish", ![v] = "lock"]
        BY <3>2
      <4>2. v # w /\ v \in Workers /\ wpc[w] = "run" /\ wpc[v] = "waiting"
        BY <4>1, <1>0, <1>7 DEF RunSpawning, TaskType
      <4>3. Lockers' = Lockers \cup {v}
        BY <4>1, <4>2, <1>0 DEF TaskType, Lockers
      <4> QED
        BY <4>1, <4>2, <4>3, <2>1, <1>0, <1>7 DEF RunSpawning, PushTask, TaskType
    <3> QED
      BY <3>1, <3>2, <1>7 DEF RunSpawning
  <2>3. Busy' = Busy
    BY <2>2 DEF Busy
  <2>4. /\ HeldTasks'
        /\ \A v \in Workers : wpc'[v] = "run" => current'[v] \notin ran'
        /\ current[w] \notin Queued
        /\ ran' \cup {current'[v] : v \in Busy'} = ran \cup {current[v] : v \in Busy}
    BY <2>2, <2>3, RanOnce
  <2>5. /\ Queued' = Queued \cup {t} /\ t \notin submitted
        /\ \A i, j \in 1 .. Len(tasks') : tasks'[i] = tasks'[j] => i = j
        /\ tasks' \in Seq(Task)
    BY <2>1, PushedOnce DEF PushTask
  <2>6. TaskType' /\ NoSleepAtTheEnd'
    <3>1. ran' \subseteq Task /\ submitted' \subseteq Task /\ complete' \in BOOLEAN
      BY <2>1, <2>2, <1>0 DEF PushTask, TaskType, HeldTasks
    <3>2. UNCHANGED <<awaiting, cpc, promised, phase, workerWakes, clientWakes>>
      BY <1>7 DEF RunSpawning
    <3> QED
      BY <2>2, <2>5, <3>1, <3>2, <1>0 DEF TaskType, NoSleepAtTheEnd
  <2>7. EachTaskOnce'
    <3>1. submitted = Queued \cup (ran \cup {current[v] : v \in Busy})
      BY <1>0 DEF EachTaskOnce
    <3>2. submitted' = Queued' \cup (ran' \cup {current'[v] : v \in Busy'})
      BY <3>1, <2>2, <2>4, <2>5
    <3>3. current[w] \in submitted /\ Queued' \cap ran' = {}
      BY <3>1, <2>2, <2>4, <2>5, <1>0 DEF EachTaskOnce, Busy
    <3>4. \A v \in Busy' : current'[v] \notin Queued'
      BY <3>1, <2>2, <2>3, <2>5, <1>0 DEF EachTaskOnce
    <3> QED
      BY <2>2, <2>3, <2>4, <2>5, <3>2, <3>3, <3>4, <1>0 DEF EachTaskOnce
  <2>8. NoLostWakeup'
    BY <2>1, <2>2, Announced
  <2> QED
    BY <2>2, <2>4, <2>6, <2>7, <2>8 DEF TInv
<1>8. ASSUME NEW w \in Workers, Finish(w) PROVE TInv'
  <2>1. /\ wpc[w] = "finish" /\ wpc' = [wpc EXCEPT ![w] = "loop"]
        /\ current' = [current EXCEPT ![w] = NoTask]
        /\ UNCHANGED <<tasks, running, waiting, ran, submitted>>
    BY <1>8 DEF Finish
  <2>2. TaskType' /\ NoSleepAtTheEnd'
    <3>1. awaiting' \subseteq Clients /\ cpc' \in [Clients -> {"idle", "waiting", "woken"}]
          /\ complete' \in BOOLEAN
      BY <1>0, <1>8 DEF Finish, TaskType
    <3>2. UNCHANGED <<promised, phase, workerWakes, clientWakes>>
      BY <1>8 DEF Finish
    <3>3. wpc' \in [Workers -> WorkerPcs] /\ current' \in [Workers -> Task \cup {NoTask}]
      BY <2>1, <1>0 DEF TaskType
    <3> QED
      BY <2>1, <3>1, <3>2, <3>3, <1>0 DEF TaskType, NoSleepAtTheEnd
  <2>3. w \in Busy /\ Busy' = Busy \ {w} /\ Queued' = Queued
    BY <2>1, <1>0 DEF Busy, Queued, TaskType
  <2>4. \A v \in Busy' : current'[v] = current[v] /\ wpc'[v] = wpc[v]
    BY <2>1, <2>3, <1>0 DEF TaskType, Busy
  <2>5. current[w] \in ran
    BY <2>1, <1>0 DEF HeldTasks
  <2>6. HeldTasks'
    BY <2>1, <1>0 DEF HeldTasks, TaskType
  <2>7. EachTaskOnce'
    <3>1. \A v \in Workers : wpc'[v] = "run" => current'[v] \notin ran'
      BY <2>1, <1>0 DEF EachTaskOnce, TaskType
    <3>2. ran' \cup {current'[v] : v \in Busy'} = ran \cup {current[v] : v \in Busy}
      BY <2>1, <2>3, <2>4, <2>5
    <3>3. submitted' = Queued' \cup (ran' \cup {current'[v] : v \in Busy'})
      BY <3>2, <2>1, <2>3, <1>0 DEF EachTaskOnce
    <3> QED
      BY <3>1, <3>3, <2>1, <2>3, <2>4, <1>0 DEF EachTaskOnce
  <2>8. NoLostWakeup'
    BY <2>1, <1>0, WakeupStays DEF TaskType
  <2>9. \A v \in waiting' : wpc'[v] = "waiting"
    BY <2>1, <1>0 DEF TaskType
  <2> QED
    BY <2>2, <2>6, <2>7, <2>8, <2>9 DEF TInv
<1>9. ASSUME NEW c \in Clients, NEW t \in Task, Submit(c, t) PROVE TInv'
  <2>1. PushTask(t) /\ NotifyWorker /\ UNCHANGED <<running, current, ran>>
    BY <1>9 DEF Submit
  <2>2. /\ wpc' \in [Workers -> WorkerPcs] /\ waiting' \subseteq waiting
        /\ \A v \in Workers : wpc'[v] = wpc[v] \/ (wpc[v] = "waiting" /\ wpc'[v] = "lock")
        /\ \A v \in waiting' : wpc'[v] = "waiting"
        /\ waiting' = {} \/ \E v \in waiting : Lockers' = Lockers \cup {v}
    <3>1. CASE waiting = {} /\ waiting' = waiting /\ wpc' = wpc
      BY <3>1, <1>0 DEF TaskType
    <3>2. CASE \E v \in waiting : /\ waiting' = waiting \ {v}
                                  /\ wpc' = [wpc EXCEPT ![v] = "lock"]
      <4>1. PICK v \in waiting : /\ waiting' = waiting \ {v}
                                 /\ wpc' = [wpc EXCEPT ![v] = "lock"]
        BY <3>2
      <4>2. Lockers' = Lockers \cup {v}
        BY <4>1, <1>0 DEF TaskType, Lockers
      <4> QED
        BY <4>1, <4>2, <1>0 DEF TaskType
    <3> QED
      BY <3>1, <3>2, <2>1 DEF NotifyWorker
  <2>3. Busy' = Busy
    BY <2>2 DEF Busy
  <2>4. /\ Queued' = Queued \cup {t} /\ t \notin submitted /\ submitted' = submitted \cup {t}
        /\ \A i, j \in 1 .. Len(tasks') : tasks'[i] = tasks'[j] => i = j
        /\ tasks' \in Seq(Task)
    BY <2>1, PushedOnce DEF PushTask
  <2>5. TaskType' /\ NoSleepAtTheEnd' /\ HeldTasks'
    <3>1. submitted' \subseteq Task /\ complete' \in BOOLEAN
      BY <2>1, <1>0 DEF PushTask, TaskType
    <3>2. UNCHANGED <<awaiting, cpc, promised, phase, workerWakes, clientWakes>>
      BY <1>9 DEF Submit
    <3>3. HeldTasks'
      BY <2>1, <2>2, <1>0 DEF HeldTasks
    <3> QED
      BY <2>1, <2>2, <2>4, <3>1, <3>2, <3>3, <1>0 DEF TaskType, NoSleepAtTheEnd
  <2>6. EachTaskOnce'
    BY <2>1, <2>2, <2>3, <2>4, <1>0 DEF EachTaskOnce
  <2>7. NoLostWakeup'
    BY <2>1, <2>2, Announced
  <2> QED
    BY <2>2, <2>5, <2>6, <2>7 DEF TInv
<1>10. ASSUME NEW c \in Clients,
              WaitNothing(c) \/ WaitComplete(c) \/ WakeClient(c) \/ WaitReturns(c)
       PROVE TInv'
  <2>1. UNCHANGED <<tasks, running, waiting, wpc, current, ran, submitted>>
    BY <1>10 DEF WaitNothing, WaitComplete, WakeClient, WaitReturns
  <2>2. TaskType' /\ NoSleepAtTheEnd'
    <3>1. UNCHANGED <<complete, phase, workerWakes>>
      BY <1>10 DEF WaitNothing, WaitComplete, WakeClient, WaitReturns
    <3>2. clientWakes' \in 0 .. MaxClientWakes
      BY <1>0, <1>10, PoolAssumption DEF WaitNothing, WaitComplete, WakeClient, WaitReturns, TaskType
    <3>3. awaiting' \subseteq Clients /\ cpc' \in [Clients -> {"idle", "waiting", "woken"}]
      BY <1>0, <1>10 DEF WaitNothing, WaitComplete, WakeClient, WaitReturns, TaskType
    <3>4. promised' \in [Clients -> SUBSET Task]
      BY <1>0, <1>10 DEF WaitNothing, WaitComplete, WakeClient, WaitReturns, TaskType
    <3> QED
      BY <2>1, <3>1, <3>2, <3>3, <3>4, <1>0 DEF TaskType, NoSleepAtTheEnd
  <2>3. EachTaskOnce' /\ HeldTasks' /\ NoLostWakeup'
    BY <2>1, TasksStay, WakeupStays
  <2> QED
    BY <2>1, <2>2, <2>3, <1>0 DEF TInv
<1>11. ASSUME Constructed \/ ConstructorFails \/ JoinAll \/ UNCHANGED vars PROVE TInv'
  <2>1. UNCHANGED <<tasks, running, waiting, wpc, current, ran, submitted>>
    BY <1>11 DEF Constructed, ConstructorFails, JoinAll, vars
  <2>2. TaskType' /\ NoSleepAtTheEnd'
    BY <2>1, <1>0, <1>11 DEF Constructed, ConstructorFails, JoinAll, vars, TaskType, NoSleepAtTheEnd
  <2>3. EachTaskOnce' /\ HeldTasks' /\ NoLostWakeup'
    BY <2>1, TasksStay, WakeupStays
  <2> QED
    BY <2>1, <2>2, <2>3, <1>0 DEF TInv
<1>12. ASSUME Destroy PROVE TInv'
  <2>1. TaskType' /\ NoSleepAtTheEnd' /\ waiting' = {}
    BY <1>0, <1>12 DEF Destroy, TaskType, NoSleepAtTheEnd
  <2>2. EachTaskOnce' /\ HeldTasks'
    BY <1>0, <1>12, TasksStay DEF Destroy, TaskType
  <2> QED
    BY <2>1, <2>2 DEF TInv, NoLostWakeup
<1> QED
  BY <1>1, <1>2, <1>3, <1>4, <1>5, <1>6, <1>7, <1>8, <1>9, <1>10, <1>11, <1>12
     DEF Next, WorkerStep, ClientCall

\* Every reachable state of every pool keeps track of its tasks.
LEMMA TasksAreKept == Spec => []TInv
<1> QED
  BY TInvInit, TInvStep, PTL DEF Spec

\* For every pool size, any clients and any tasks: each submitted task is in one
\* place, queued, running or done, and no worker sleeps on beside tasks that
\* nobody else is about to look for.
THEOREM TasksCorrect == Spec => []TasksInv
<1>1. PInv /\ TInv => TasksInv
  <2>1. SUFFICES ASSUME PInv, TInv PROVE TasksInv
    OBVIOUS
  <2>2. available \in 0 .. total
    BY <2>1, BusyIsFinite DEF PInv, AvailableIsExact
  <2>3. TypeOK
    BY <2>1, <2>2 DEF TInv, TaskType, TypeOK, WorkerPcs
  <2> QED
    BY <2>1, <2>3 DEF TInv, TasksInv
<1> QED
  BY <1>1, Invariance, TasksAreKept, PTL

-----------------------------------------------------------------------------
(* What waitWorkComplete() has waited for.                                  *)

\* A client waits for tasks that have been submitted; once it has been notified
\* they have run, as long as no wake-up of completed_ was spurious.
WaitInv ==
  /\ \A c \in Clients : promised[c] \subseteq submitted
  /\ clientWakes = MaxClientWakes =>
       \A c \in Clients : cpc[c] = "woken" => promised[c] \subseteq ran

\* complete_ says that whatever has been submitted has run.
LEMMA CompleteMeansRan ==
  ASSUME CompleteIsExact, EachTaskOnce, complete
  PROVE  submitted \subseteq ran
<1>1. tasks = <<>> /\ Busy = {}
  BY DEF CompleteIsExact
<1>2. Queued = {}
  BY <1>1 DEF Queued
<1> QED
  BY <1>1, <1>2 DEF EachTaskOnce

\* Most steps change nothing for the clients: tasks are submitted and run.
LEMMA WaitStays ==
  ASSUME WaitInv, UNCHANGED <<cpc, promised, clientWakes>>,
         submitted \subseteq submitted', ran \subseteq ran'
  PROVE  WaitInv'
BY DEF WaitInv

\* A client begins to wait, or need not, for what has been submitted by then.
LEMMA WaitBegins ==
  ASSUME WaitInv, TaskType, NEW c \in Clients, NEW to \in {"waiting", "woken"},
         to = "woken" => submitted \subseteq ran,
         promised' = [promised EXCEPT ![c] = submitted], cpc' = [cpc EXCEPT ![c] = to],
         UNCHANGED <<submitted, ran, clientWakes>>
  PROVE  WaitInv'
<1>1. \A d \in Clients : /\ d = c => promised'[d] = submitted /\ cpc'[d] = to
                         /\ d # c => promised'[d] = promised[d] /\ cpc'[d] = cpc[d]
  BY DEF TaskType
<1> QED
  BY <1>1 DEF WaitInv

\* The last worker to finish notifies a client: all that was submitted has run.
LEMMA FinishCovers ==
  ASSUME WaitInv, TaskType, CompleteIsExact', EachTaskOnce', NEW w \in Workers, Finish(w)
  PROVE  WaitInv'
<1>1. UNCHANGED <<promised, submitted, ran, clientWakes>>
  BY DEF Finish, wakes
<1>2. CASE cpc' = cpc
  BY <1>1, <1>2, WaitStays
<1>3. CASE cpc' # cpc
  <2>1. PICK c \in awaiting : complete' = TRUE /\ cpc' = [cpc EXCEPT ![c] = "woken"]
    BY <1>3 DEF Finish
  <2>2. tasks' = <<>> /\ Busy' = {}
    BY <2>1 DEF CompleteIsExact
  <2>3. Queued' = {}
    BY <2>2 DEF Queued
  <2>4. submitted \subseteq ran
    BY <1>1, <2>2, <2>3 DEF EachTaskOnce
  <2>5. \A d \in Clients : promised[d] \subseteq ran
    BY <2>4 DEF WaitInv
  <2> QED
    BY <1>1, <2>5 DEF WaitInv
<1> QED
  BY <1>2, <1>3

\* Every step keeps it, given what is known of the pool before and after.
LEMMA WaitInvStep ==
  ASSUME WaitInv, PInv, TInv, PInv', TInv', [Next]_vars
  PROVE  WaitInv'
<1>0. TaskType /\ CompleteIsExact /\ EachTaskOnce /\ CompleteIsExact' /\ EachTaskOnce'
  BY DEF PInv, TInv
<1>1. ASSUME NEW w \in Workers, CreateThread(w) \/ ReadRunning(w) \/ WaitForTask(w) \/ Break(w)
                                \/ TakeTask(w) \/ RunTask(w) \/ RunForeign(w) \/ WakeWorker(w)
      PROVE  WaitInv'
  <2>1. UNCHANGED <<cpc, promised, clientWakes, submitted>> /\ ran \subseteq ran'
    BY <1>1 DEF CreateThread, ReadRunning, WaitForTask, Break, TakeTask, RunTask, RunForeign,
                WakeWorker, clientVars, workerVars, wakes
  <2> QED
    BY <2>1, WaitStays
<1>2. ASSUME NEW w \in Workers, RunSpawning(w) PROVE WaitInv'
  <2>1. /\ UNCHANGED <<cpc, promised, clientWakes>>
        /\ submitted \subseteq submitted' /\ ran \subseteq ran'
    BY <1>2 DEF RunSpawning, PushTask, clientVars, wakes
  <2> QED
    BY <2>1, WaitStays
<1>3. ASSUME NEW w \in Workers, Finish(w) PROVE WaitInv'
  BY <1>0, <1>3, FinishCovers
<1>4. ASSUME NEW c \in Clients, NEW t \in Task, Submit(c, t) PROVE WaitInv'
  <2>1. UNCHANGED <<cpc, promised, clientWakes, ran>> /\ submitted \subseteq submitted'
    BY <1>4 DEF Submit, PushTask, clientVars, wakes
  <2> QED
    BY <2>1, WaitStays
<1>5. ASSUME NEW c \in Clients, WaitNothing(c) PROVE WaitInv'
  <2>1. submitted \subseteq ran
    BY <1>0, <1>5, CompleteMeansRan DEF WaitNothing
  <2> QED
    BY <1>0, <1>5, <2>1, WaitBegins DEF WaitNothing, workerVars, wakes
<1>6. ASSUME NEW c \in Clients, WaitComplete(c) PROVE WaitInv'
  BY <1>0, <1>6, WaitBegins DEF WaitComplete, workerVars, wakes
<1>7. ASSUME NEW c \in Clients, WakeClient(c) PROVE WaitInv'
  <2>1. clientWakes' # MaxClientWakes
    BY <1>0, <1>7, PoolAssumption DEF WakeClient, TaskType
  <2>2. UNCHANGED <<promised, submitted>>
    BY <1>7 DEF WakeClient
  <2> QED
    BY <2>1, <2>2 DEF WaitInv
<1>8. ASSUME NEW c \in Clients, WaitReturns(c) PROVE WaitInv'
  <2>1. UNCHANGED <<submitted, ran, clientWakes>>
    BY <1>8 DEF WaitReturns, workerVars, wakes
  <2>2. \A d \in Clients : /\ d = c => promised'[d] = {} /\ cpc'[d] = "idle"
                           /\ d # c => promised'[d] = promised[d] /\ cpc'[d] = cpc[d]
    BY <1>0, <1>8 DEF WaitReturns, TaskType
  <2> QED
    BY <2>1, <2>2 DEF WaitInv
<1>9. ASSUME Constructed \/ ConstructorFails \/ Destroy \/ JoinAll PROVE WaitInv'
  <2>1. UNCHANGED <<cpc, promised, clientWakes, submitted, ran>>
    BY <1>9 DEF Constructed, ConstructorFails, Destroy, JoinAll, clientVars, workerVars, wakes
  <2> QED
    BY <2>1, WaitStays
<1>10. CASE UNCHANGED vars
  <2>1. UNCHANGED <<cpc, promised, clientWakes, submitted, ran>>
    BY <1>10 DEF vars
  <2> QED
    BY <2>1, WaitStays
<1> QED
  BY <1>1, <1>2, <1>3, <1>4, <1>5, <1>6, <1>7, <1>8, <1>9, <1>10
     DEF Next, WorkerStep, ClientCall

\* What clients wait for, in every reachable state of every pool.
LEMMA WaitIsKept == Spec => []WaitInv
<1>1. Init => WaitInv
  BY DEF Init, WaitInv
<1>2. WaitInv /\ PInv /\ TInv /\ PInv' /\ TInv' /\ [Next]_vars => WaitInv'
  BY WaitInvStep
<1> QED
  BY <1>1, <1>2, Invariance, TasksAreKept, PTL DEF Spec

\* For every pool: as long as completed_ has not been left spuriously, a
\* waitWorkComplete() that returns leaves behind it no task that was submitted
\* before the call and has not run, however many clients submit and wait.
THEOREM WaitCoversTheTasks == Spec => WaitCoversEarlierTasks
<1>1. WaitInv => [\A c \in Clients :
                    cpc[c] = "woken" /\ cpc'[c] = "idle" /\ clientWakes = MaxClientWakes
                      => promised[c] \subseteq ran]_vars
  BY DEF WaitInv
<1> QED
  BY <1>1, WaitIsKept, PTL DEF WaitCoversEarlierTasks
=============================================================================
