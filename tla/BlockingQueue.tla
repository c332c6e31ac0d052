---------------------------- MODULE BlockingQueue ----------------------------
(***************************************************************************)
(* The mutex-and-condition-variable queue of queue/blocking_queue.h.  Every *)
(* access to queue_ happens under mutex_; push() notifies AFTER it has     *)
(* released the mutex, so that a notification and the item it announces    *)
(* are two steps.  A wait may end spuriously.                              *)
(***************************************************************************)
EXTENDS Integers, Sequences, FiniteSets

CONSTANTS Pushers, Poppers, Peekers,  \* the threads, by what they call
          Value,        \* the items
          None,         \* no item
          NoThread,     \* the owner of a free mutex
          CopyThrows,   \* whether T's copy constructor may throw
          MaxItems,     \* bound: items in the queue or about to be pushed
          MaxCalls,     \* bound: calls of all threads
          MaxSpurious   \* bound: spurious wake-ups

Threads == Pushers \cup Poppers \cup Peekers

ASSUME ThreadsAssumption ==
  /\ IsFiniteSet(Threads) /\ NoThread \notin Threads
  /\ Pushers \cap Poppers = {} /\ Pushers \cap Peekers = {}
  /\ Poppers \cap Peekers = {}

ASSUME BoundsAssumption ==
  /\ CopyThrows \in BOOLEAN /\ None \notin Value
  /\ MaxItems \in Nat /\ MaxCalls \in Nat /\ MaxSpurious \in Nat

VARIABLES
  queue,      \* queue_, its front first
  mutex,      \* the owner of mutex_
  waiters,    \* the threads blocked in condition_.wait
  pc,         \* where each thread is
  op,         \* its call
  val,        \* the item it pushes or has copied
  out,        \* the item popped last
  wasted,     \* a notification may have gone to a call that takes no item
  calls,      \* calls that may still be made
  spurious    \* spurious wake-ups that may still happen

vars == <<queue, mutex, waiters, pc, op, val, out, wasted,
          calls, spurious>>
bounds == <<calls, spurious>>

Ops == {"push", "pop", "try_pop", "peek", "try_peek", "size",
        "nonblocking_size"}

OpsOf(t) == {"size", "nonblocking_size"} \cup
            (IF t \in Pushers THEN {"push"} ELSE {}) \cup
            (IF t \in Poppers THEN {"pop", "try_pop"} ELSE {}) \cup
            (IF t \in Peekers THEN {"peek", "try_peek"} ELSE {})

Init ==
  /\ queue = <<>> /\ mutex = NoThread /\ waiters = {}
  /\ pc = [t \in Threads |-> "idle"] /\ op = [t \in Threads |-> "none"]
  /\ val = [t \in Threads |-> None]
  /\ out = None /\ wasted = FALSE
  /\ calls = MaxCalls /\ spurious = MaxSpurious

\* The items in the queue and those pushers are on their way to add.
Incoming == Len(queue) +
  Cardinality({t \in Threads : op[t] = "push" /\ pc[t] \in {"lock", "locked"}})

-----------------------------------------------------------------------------
\* What is left of a call when it has returned: nothing.
Returned(t) ==
  /\ op' = [op EXCEPT ![t] = "none"]
  /\ val' = [val EXCEPT ![t] = None]

Call(t, o, v) ==
  /\ pc[t] = "idle" /\ calls > 0 /\ o \in OpsOf(t)
  /\ IF o = "push" THEN v \in Value /\ Incoming < MaxItems ELSE v = None
  /\ pc' = [pc EXCEPT ![t] = IF o = "nonblocking_size" THEN "try_lock" ELSE "lock"]
  /\ op' = [op EXCEPT ![t] = o]
  /\ val' = [val EXCEPT ![t] = v]
  /\ calls' = calls - 1
  /\ UNCHANGED <<queue, mutex, waiters, out, wasted, spurious>>

\* The lock at the start of an operation, or at the end of a wait.
Lock(t) ==
  /\ pc[t] \in {"lock", "relock"} /\ mutex = NoThread
  /\ mutex' = t
  /\ pc' = [pc EXCEPT ![t] = "locked"]
  /\ UNCHANGED <<queue, waiters, op, val, out, wasted, bounds>>

\* nonblocking_size() gives up unless it gets the mutex at once; try_lock may
\* fail even when the mutex is free.
TryLock(t) ==
  /\ pc[t] = "try_lock"
  /\ \/ /\ mutex = NoThread /\ mutex' = t
        /\ pc' = [pc EXCEPT ![t] = "locked"] /\ UNCHANGED <<op, val>>
     \/ /\ mutex' = mutex
        /\ pc' = [pc EXCEPT ![t] = "idle"] /\ Returned(t)
  /\ UNCHANGED <<queue, waiters, out, wasted, bounds>>

\* A slip to be caught: push() does not notify.
PushQuietly(t) ==
  /\ pc[t] = "locked" /\ op[t] = "push"
  /\ queue' = Append(queue, val[t])
  /\ mutex' = NoThread /\ pc' = [pc EXCEPT ![t] = "idle"] /\ Returned(t)
  /\ UNCHANGED <<waiters, out, wasted, bounds>>

\* push(): the item is added and the mutex released.
PushItem(t) ==
  /\ pc[t] = "locked" /\ op[t] = "push"
  /\ queue' = Append(queue, val[t])
  /\ mutex' = NoThread /\ pc' = [pc EXCEPT ![t] = "notify"] /\ Returned(t)
  /\ UNCHANGED <<waiters, out, wasted, bounds>>

\* A slip to be caught: a push() that only notifies when the queue was empty.
NotifyFirstOnly(t) ==
  /\ pc[t] = "notify"
  /\ \/ /\ waiters = {} \/ Len(queue) > 1
        /\ UNCHANGED waiters /\ pc' = [pc EXCEPT ![t] = "idle"]
     \/ /\ Len(queue) <= 1
        /\ \E w \in waiters : /\ waiters' = waiters \ {w}
                              /\ pc' = [pc EXCEPT ![t] = "idle", ![w] = "relock"]
  /\ UNCHANGED <<queue, mutex, op, val, out, wasted, bounds>>

\* notify_one() after the unlock wakes some waiter, if there is one.
Notify(t) ==
  /\ pc[t] = "notify"
  /\ \/ waiters = {} /\ UNCHANGED <<waiters, wasted>> /\ pc' = [pc EXCEPT ![t] = "idle"]
     \/ \E w \in waiters :
          /\ waiters' = waiters \ {w}
          /\ pc' = [pc EXCEPT ![t] = "idle", ![w] = "relock"]
          /\ wasted' = (wasted \/ op[w] = "peek")
  /\ UNCHANGED <<queue, mutex, op, val, out, bounds>>

\* pop() and peek() wait while the queue is empty, releasing the mutex.
WaitEmpty(t) ==
  /\ pc[t] = "locked" /\ op[t] \in {"pop", "peek"} /\ queue = <<>>
  /\ waiters' = waiters \cup {t}
  /\ mutex' = NoThread /\ pc' = [pc EXCEPT ![t] = "waiting"]
  /\ UNCHANGED <<queue, op, val, out, wasted, bounds>>

SpuriousWake(t) ==
  /\ t \in waiters /\ spurious > 0
  /\ waiters' = waiters \ {t}
  /\ pc' = [pc EXCEPT ![t] = "relock"]
  /\ spurious' = spurious - 1
  /\ UNCHANGED <<queue, mutex, op, val, out, wasted, calls>>

\* A slip to be caught: the copy is taken at the wrong end.
CopyBack(t) ==
  /\ pc[t] = "locked" /\ op[t] \in {"pop", "try_pop"} /\ queue # <<>>
  /\ val' = [val EXCEPT ![t] = queue[Len(queue)]]
  /\ pc' = [pc EXCEPT ![t] = "copied"]
  /\ UNCHANGED <<queue, mutex, waiters, op, out, wasted, bounds>>

\* pop() and try_pop() first copy the front ...
CopyFront(t) ==
  /\ pc[t] = "locked" /\ op[t] \in {"pop", "try_pop"} /\ queue # <<>>
  /\ val' = [val EXCEPT ![t] = Head(queue)]
  /\ pc' = [pc EXCEPT ![t] = "copied"]
  /\ UNCHANGED <<queue, mutex, waiters, op, out, wasted, bounds>>

\* ... then remove it and release the mutex.
RemoveFront(t) ==
  /\ pc[t] = "copied"
  /\ out' = val[t] /\ queue' = Tail(queue)
  /\ mutex' = NoThread /\ pc' = [pc EXCEPT ![t] = "idle"] /\ Returned(t)
  /\ UNCHANGED <<waiters, wasted, bounds>>

\* peek() and try_peek() return the front; try_pop() and try_peek() return
\* false on an empty queue; size() and nonblocking_size() return a number.
Answer(t) ==
  /\ pc[t] = "locked"
  /\ \/ op[t] \in {"peek", "try_peek"} /\ queue # <<>>
     \/ op[t] \in {"try_pop", "try_peek"} /\ queue = <<>>
     \/ op[t] \in {"size", "nonblocking_size"}
  /\ mutex' = NoThread /\ pc' = [pc EXCEPT ![t] = "idle"] /\ Returned(t)
  /\ UNCHANGED <<queue, waiters, out, wasted, bounds>>

\* A copy of an item throws: the lock is released on the way out.
Throw(t) ==
  /\ CopyThrows /\ pc[t] = "locked"
  /\ \/ op[t] = "push"
     \/ op[t] \in {"pop", "try_pop", "peek", "try_peek"} /\ queue # <<>>
  /\ mutex' = NoThread /\ pc' = [pc EXCEPT ![t] = "idle"] /\ Returned(t)
  /\ wasted' = (wasted \/ op[t] \in {"pop"})
  /\ UNCHANGED <<queue, waiters, out, bounds>>

-----------------------------------------------------------------------------
\* What a thread inside a call does; it is blocked only by the mutex and by wait.
Step(t) == \/ Lock(t) \/ TryLock(t) \/ PushItem(t) \/ Notify(t) \/ WaitEmpty(t)
           \/ CopyFront(t) \/ RemoveFront(t) \/ Answer(t) \/ Throw(t)

Next == \E t \in Threads :
          \/ \E o \in Ops, v \in Value \cup {None} : Call(t, o, v)
          \/ Step(t)
          \/ SpuriousWake(t)

Spec == Init /\ [][Next]_vars

\* The threads run.  Nothing forces a call or a spurious wake-up; because both
\* are bounded, weak fairness is enough for a thread to get the mutex.
FairSpec == Spec /\ \A t \in Threads : WF_vars(Step(t))

-----------------------------------------------------------------------------
(* Properties                                                              *)

TypeOK ==
  /\ queue \in Seq(Value)
  /\ mutex \in Threads \cup {NoThread}
  /\ waiters \subseteq Threads
  /\ pc \in [Threads -> {"idle", "lock", "try_lock", "locked", "copied",
                         "notify", "waiting", "relock"}]
  /\ op \in [Threads -> Ops \cup {"none"}]
  /\ val \in [Threads -> Value \cup {None}]
  /\ \A t \in Threads : pc[t] = "copied" => val[t] \in Value
  /\ out \in Value \cup {None} /\ wasted \in BOOLEAN
  /\ calls \in 0 .. MaxCalls
  /\ spurious \in 0 .. MaxSpurious

\* No wake-up is lost: while a thread waits, each item has a push() that still
\* has to notify, or a pop() that is awake and will take it.  Only a peek() that
\* is notified and a pop() whose copy throws can break this.
Notifying == {t \in Threads : pc[t] = "notify"}
AwakePoppers == {t \in Threads : /\ op[t] \in {"pop"}
                                 /\ pc[t] \in {"lock", "relock", "locked", "copied"}}
NoLostWakeup ==
  waiters # {} /\ ~wasted =>
    Len(queue) <= Cardinality(Notifying) + Cardinality(AwakePoppers)

\* The state of the queue and of the threads: well typed, and no wake-up lost.
QueueInv == TypeOK /\ NoLostWakeup

\* The queue implements a first-in first-out buffer, whatever the interleaving
\* of push, pop, peek, try_pop, size, exceptions and spurious wake-ups.
Fifo == INSTANCE BoundedFifo WITH items <- queue, Bound <- MaxItems
ImplementsFifo == Fifo!Spec

PopReturnsTo(t) ==
  (pc[t] = "waiting" /\ queue # <<>>) ~> (pc[t] # "waiting" \/ queue = <<>>)

\* A pop() that waits while there are items gets out of the wait, or other
\* consumers empty the queue; a notified peek() or a copy that throws aside.
PopReturns == []~wasted => \A t \in Poppers : PopReturnsTo(t)
=============================================================================
