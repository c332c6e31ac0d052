------------------------- MODULE BlockingQueue_proofs -------------------------
(***************************************************************************)
(* The blocking queue loses no wake-up and implements the bounded FIFO,    *)
(* proved for any threads, any items and any number of calls, exceptions   *)
(* and spurious wake-ups.                                                  *)
(*                                                                         *)
(* The wake-ups are counted: the items in the queue are never more than    *)
(* the notifications on their way and the pop() calls that are awake.      *)
(***************************************************************************)
EXTENDS BlockingQueue, FiniteSetTheorems, SequenceTheorems, TLAPS

Pushing == {t \in Threads : op[t] = "push" /\ pc[t] \in {"lock", "locked"}}

Pcs == {"idle", "lock", "try_lock", "locked", "copied", "notify", "waiting", "relock"}

\* Which call a thread is in, from where it is.
OpsFit ==
  \A t \in Threads :
    /\ pc[t] \in {"waiting", "relock"} => op[t] \in {"pop", "peek"}
    /\ pc[t] = "try_lock" => op[t] = "nonblocking_size"
    /\ op[t] = "push" => val[t] \in Value

\* Mutual exclusion, and what it gives: the item copied is still at the front.
MutexHeld == \A t \in Threads : pc[t] \in {"locked", "copied"} => mutex = t
FrontCopied ==
  \A t \in Threads : pc[t] = "copied" => queue # <<>> /\ val[t] = Head(queue)

Sleepers == \A t \in waiters : pc[t] = "waiting"

Shape == Sleepers /\ OpsFit /\ MutexHeld /\ FrontCopied

RoomKept == Incoming <= MaxItems

BInv == TypeOK /\ Shape /\ RoomKept /\ NoLostWakeup

-----------------------------------------------------------------------------
(* Counting threads.                                                       *)

\* Sets of threads are finite, and grow and shrink by one.
LEMMA ThreadsCount ==
  ASSUME NEW S, S \subseteq Threads
  PROVE  /\ IsFiniteSet(S) /\ Cardinality(S) \in Nat
         /\ \A t \in Threads \ S : Cardinality(S \cup {t}) = Cardinality(S) + 1
         /\ \A t \in S : Cardinality(S \ {t}) = Cardinality(S) - 1
         /\ \A R \in SUBSET S : Cardinality(R) \in Nat /\ Cardinality(R) <= Cardinality(S)
<1>1. IsFiniteSet(Threads)
  BY ThreadsAssumption
<1>2. IsFiniteSet(S)
  BY <1>1, FS_Subset
<1>3. \A R \in SUBSET S : Cardinality(R) \in Nat /\ Cardinality(R) <= Cardinality(S)
  BY <1>2, FS_Subset, FS_CardinalityType
<1> QED
  BY <1>2, <1>3, FS_AddElement, FS_RemoveElement, FS_CardinalityType

\* The numbers that the invariant compares.
LEMMA Numbers ==
  ASSUME TypeOK
  PROVE  /\ Len(queue) \in Nat /\ MaxItems \in Nat
         /\ Notifying \subseteq Threads /\ Cardinality(Notifying) \in Nat
         /\ AwakePoppers \subseteq Threads /\ Cardinality(AwakePoppers) \in Nat
         /\ Pushing \subseteq Threads /\ Cardinality(Pushing) \in Nat
         /\ Incoming = Len(queue) + Cardinality(Pushing)
<1>1. Len(queue) \in Nat /\ MaxItems \in Nat
  BY BoundsAssumption DEF TypeOK
<1>2. Notifying \subseteq Threads /\ AwakePoppers \subseteq Threads /\ Pushing \subseteq Threads
  BY DEF Notifying, AwakePoppers, Pushing
<1>3. /\ Cardinality(Notifying) \in Nat /\ Cardinality(AwakePoppers) \in Nat
      /\ Cardinality(Pushing) \in Nat
  BY <1>2, ThreadsCount
<1>4. Incoming = Len(queue) + Cardinality(Pushing)
  BY DEF Incoming, Pushing
<1> QED
  BY <1>1, <1>2, <1>3, <1>4

\* Steps that bring nothing and take nobody away keep the count.
LEMMA NothingLost ==
  ASSUME TypeOK, TypeOK', NoLostWakeup, waiters' \subseteq waiters, wasted => wasted',
         Len(queue') <= Len(queue),
         Notifying \subseteq Notifying', AwakePoppers \subseteq AwakePoppers'
  PROVE  NoLostWakeup'
<1>1. /\ Cardinality(Notifying) <= Cardinality(Notifying')
      /\ Cardinality(AwakePoppers) <= Cardinality(AwakePoppers')
      /\ Cardinality(Notifying') \in Nat /\ Cardinality(AwakePoppers') \in Nat
  <2>1. Notifying' \subseteq Threads /\ AwakePoppers' \subseteq Threads
    BY DEF Notifying, AwakePoppers
  <2> QED
    BY <2>1, ThreadsCount
<1>2. Len(queue') \in Nat
  BY DEF TypeOK
<1> QED
  BY <1>1, <1>2, Numbers DEF NoLostWakeup

\* So do steps after which no more pushers are on their way.
LEMMA RoomStays ==
  ASSUME TypeOK, TypeOK', RoomKept, Len(queue') <= Len(queue), Pushing' \subseteq Pushing
  PROVE  RoomKept'
<1>1. Cardinality(Pushing') <= Cardinality(Pushing) /\ Cardinality(Pushing') \in Nat
  BY ThreadsCount, Numbers
<1>2. Len(queue') \in Nat
  BY DEF TypeOK
<1>3. Incoming' = Len(queue') + Cardinality(Pushing')
  BY DEF Incoming, Pushing
<1> QED
  BY <1>1, <1>2, <1>3, Numbers DEF RoomKept

-----------------------------------------------------------------------------
(* The steps.                                                              *)

\* A new queue is empty and all threads are idle.
LEMMA BInvInit == Init => BInv
<1> SUFFICES ASSUME Init PROVE BInv
  OBVIOUS
<1>1. TypeOK
  <2>1. queue \in Seq(Value) /\ mutex \in Threads \cup {NoThread} /\ waiters \in SUBSET Threads
    BY DEF Init
  <2>2. /\ pc \in [Threads -> Pcs] /\ op \in [Threads -> Ops \cup {"none"}]
        /\ val \in [Threads -> Value \cup {None}]
        /\ \A t \in Threads : pc[t] # "copied"
    BY DEF Init, Pcs, Ops
  <2>3. calls \in 0 .. MaxCalls /\ spurious \in 0 .. MaxSpurious
    BY BoundsAssumption DEF Init
  <2>4. out \in Value \cup {None} /\ wasted \in BOOLEAN
    BY DEF Init
  <2> QED
    BY <2>1, <2>2, <2>3, <2>4 DEF TypeOK, Pcs
<1>2. Shape
  BY BoundsAssumption DEF Init, Shape, Sleepers, OpsFit, MutexHeld, FrontCopied
<1>3. RoomKept
  <2>1. Pushing = {} /\ Len(queue) = 0
    BY DEF Init, Pushing
  <2> QED
    BY <1>1, <2>1, Numbers, FS_EmptySet DEF RoomKept
<1>4. NoLostWakeup
  BY DEF Init, NoLostWakeup
<1> QED
  BY <1>1, <1>2, <1>3, <1>4 DEF BInv

\* A call begins: a pusher counts as on its way from here.
LEMMA CallKeeps ==
  ASSUME BInv, NEW t \in Threads, NEW o \in Ops, NEW v \in Value \cup {None}, Call(t, o, v)
  PROVE  BInv'
<1>0. TypeOK /\ Shape /\ RoomKept /\ NoLostWakeup
  BY DEF BInv
<1>1. /\ pc[t] = "idle" /\ op' = [op EXCEPT ![t] = o] /\ val' = [val EXCEPT ![t] = v]
      /\ pc' = [pc EXCEPT ![t] = IF o = "nonblocking_size" THEN "try_lock" ELSE "lock"]
      /\ UNCHANGED <<queue, mutex, waiters, wasted, out, spurious>>
      /\ o = "push" => v \in Value /\ Incoming < MaxItems
  BY DEF Call
<1>2. TypeOK'
  <2>1. calls' \in 0 .. MaxCalls
    BY <1>0, BoundsAssumption DEF Call, TypeOK
  <2> QED
    BY <1>0, <1>1, <2>1 DEF TypeOK
<1>3. Shape'
  BY <1>0, <1>1 DEF TypeOK, Shape, Sleepers, OpsFit, MutexHeld, FrontCopied
<1>4. RoomKept'
  <2>1. CASE o = "push"
    <3>1. t \notin Pushing /\ Pushing' = Pushing \cup {t}
      BY <1>0, <1>1, <2>1 DEF TypeOK, Pushing
    <3>2. Cardinality(Pushing') = Cardinality(Pushing) + 1
      BY <3>1, <1>0, Numbers, ThreadsCount
    <3>3. Incoming' = Len(queue) + Cardinality(Pushing')
      BY <1>1 DEF Incoming, Pushing
    <3> QED
      BY <3>2, <3>3, <1>0, <1>1, <2>1, Numbers DEF RoomKept
  <2>2. CASE o # "push"
    <3>1. Pushing' \subseteq Pushing
      BY <1>0, <1>1, <2>2 DEF TypeOK, Pushing
    <3> QED
      BY <3>1, <1>0, <1>1, <1>2, RoomStays, Numbers
  <2> QED
    BY <2>1, <2>2
<1>5. NoLostWakeup'
  <2>1. Notifying \subseteq Notifying' /\ AwakePoppers \subseteq AwakePoppers'
    BY <1>0, <1>1 DEF TypeOK, Notifying, AwakePoppers
  <2> QED
    BY <2>1, <1>0, <1>1, <1>2, NothingLost, Numbers
<1> QED
  BY <1>2, <1>3, <1>4, <1>5 DEF BInv

\* The mutex is taken, or not got.
LEMMA LockKeeps ==
  ASSUME BInv, NEW t \in Threads, Lock(t) \/ TryLock(t)
  PROVE  BInv'
<1>0. TypeOK /\ Shape /\ RoomKept /\ NoLostWakeup
  BY DEF BInv
<1>1. /\ UNCHANGED <<queue, waiters, out, wasted, calls, spurious>>
      /\ pc[t] \in {"lock", "relock", "try_lock"}
      /\ \/ /\ mutex = NoThread /\ mutex' = t /\ pc' = [pc EXCEPT ![t] = "locked"]
            /\ UNCHANGED <<op, val>>
         \/ /\ mutex' = mutex /\ pc' = [pc EXCEPT ![t] = "idle"] /\ pc[t] = "try_lock"
            /\ op' = [op EXCEPT ![t] = "none"] /\ val' = [val EXCEPT ![t] = None]
  BY DEF Lock, TryLock, Returned, bounds
<1>2. TypeOK'
  BY <1>0, <1>1 DEF TypeOK
<1>3. Shape'
  <2>1. \A u \in Threads : pc[u] \notin {"locked", "copied"} \/ mutex # NoThread
    BY <1>0, ThreadsAssumption DEF Shape, MutexHeld
  <2>2. MutexHeld' /\ FrontCopied'
    BY <1>0, <1>1, <2>1, ThreadsAssumption DEF TypeOK, Shape, MutexHeld, FrontCopied
  <2>3. Sleepers' /\ OpsFit'
    BY <1>0, <1>1 DEF TypeOK, Shape, Sleepers, OpsFit
  <2> QED
    BY <2>2, <2>3 DEF Shape
<1>4. Pushing' \subseteq Pushing /\ Notifying \subseteq Notifying' /\ AwakePoppers \subseteq AwakePoppers'
  BY <1>0, <1>1 DEF TypeOK, Shape, OpsFit, Pushing, Notifying, AwakePoppers
<1>5. RoomKept' /\ NoLostWakeup'
  BY <1>0, <1>1, <1>2, <1>4, RoomStays, NothingLost, Numbers
<1> QED
  BY <1>2, <1>3, <1>5 DEF BInv

\* The item is in the queue, and its notification on its way.
LEMMA PushKeeps ==
  ASSUME BInv, NEW t \in Threads, PushItem(t)
  PROVE  /\ BInv'
         /\ val[t] \in Value /\ Len(queue) < MaxItems
<1>0. TypeOK /\ Shape /\ RoomKept /\ NoLostWakeup
  BY DEF BInv
<1>1. /\ pc[t] = "locked" /\ op[t] = "push" /\ queue' = Append(queue, val[t])
      /\ mutex' = NoThread /\ pc' = [pc EXCEPT ![t] = "notify"]
      /\ op' = [op EXCEPT ![t] = "none"] /\ val' = [val EXCEPT ![t] = None]
      /\ UNCHANGED <<waiters, out, wasted, calls, spurious>>
  BY DEF PushItem, Returned, bounds
<1>2. val[t] \in Value
  BY <1>0, <1>1 DEF Shape, OpsFit
<1>3. queue' \in Seq(Value) /\ Len(queue') = Len(queue) + 1
  BY <1>0, <1>1, <1>2 DEF TypeOK
<1>4. TypeOK'
  BY <1>0, <1>1, <1>3 DEF TypeOK
<1>5. Shape'
  <2>1. \A u \in Threads \ {t} : pc[u] \notin {"locked", "copied"}
    BY <1>0, <1>1 DEF Shape, MutexHeld
  <2>2. MutexHeld' /\ FrontCopied'
    BY <1>0, <1>1, <2>1 DEF TypeOK, MutexHeld, FrontCopied
  <2>3. Sleepers' /\ OpsFit'
    BY <1>0, <1>1, BoundsAssumption DEF TypeOK, Shape, Sleepers, OpsFit
  <2> QED
    BY <2>2, <2>3 DEF Shape
<1>6. /\ t \in Pushing /\ Pushing' = Pushing \ {t}
      /\ t \notin Notifying /\ Notifying' = Notifying \cup {t} /\ AwakePoppers' = AwakePoppers
  BY <1>0, <1>1 DEF TypeOK, Pushing, Notifying, AwakePoppers
<1>7. /\ Cardinality(Pushing') = Cardinality(Pushing) - 1
      /\ Cardinality(Notifying') = Cardinality(Notifying) + 1
  BY <1>6, <1>0, Numbers, ThreadsCount
<1>8. Cardinality(Pushing') \in Nat
  BY <1>6, <1>0, Numbers, ThreadsCount
<1>9. Incoming' = Len(queue') + Cardinality(Pushing')
  BY DEF Incoming, Pushing
<1>10. RoomKept' /\ Len(queue) < MaxItems
  BY <1>0, <1>3, <1>7, <1>8, <1>9, Numbers DEF RoomKept
<1>11. NoLostWakeup'
  BY <1>0, <1>1, <1>3, <1>6, <1>7, Numbers DEF NoLostWakeup
<1> QED
  BY <1>2, <1>4, <1>5, <1>10, <1>11 DEF BInv

\* A notification becomes an awake pop(), or is wasted, or finds nobody.
LEMMA NotifyKeeps ==
  ASSUME BInv, NEW t \in Threads, Notify(t)
  PROVE  BInv'
<1>0. TypeOK /\ Shape /\ RoomKept /\ NoLostWakeup
  BY DEF BInv
<1>1. pc[t] = "notify" /\ UNCHANGED <<queue, mutex, op, val, out, calls, spurious>>
  BY DEF Notify, bounds
<1>2. CASE waiters = {} /\ UNCHANGED <<waiters, wasted>> /\ pc' = [pc EXCEPT ![t] = "idle"]
  <2>1. TypeOK' /\ NoLostWakeup'
    BY <1>0, <1>1, <1>2 DEF TypeOK, NoLostWakeup
  <2>2. Shape'
    BY <1>0, <1>1, <1>2 DEF TypeOK, Shape, Sleepers, OpsFit, MutexHeld, FrontCopied
  <2>3. Pushing' \subseteq Pushing
    BY <1>0, <1>1, <1>2 DEF TypeOK, Pushing
  <2>4. RoomKept'
    BY <2>1, <2>3, <1>0, <1>1, RoomStays, Numbers
  <2> QED
    BY <2>1, <2>2, <2>4 DEF BInv
<1>3. CASE \E w \in waiters : /\ waiters' = waiters \ {w}
                              /\ pc' = [pc EXCEPT ![t] = "idle", ![w] = "relock"]
                              /\ wasted' = (wasted \/ op[w] = "peek")
  <2>1. PICK w \in waiters : /\ waiters' = waiters \ {w}
                             /\ pc' = [pc EXCEPT ![t] = "idle", ![w] = "relock"]
                             /\ wasted' = (wasted \/ op[w] = "peek")
    BY <1>3
  <2>2. w \in Threads /\ w # t /\ pc[w] = "waiting" /\ op[w] \in {"pop", "peek"}
    BY <1>0, <1>1 DEF TypeOK, Shape, Sleepers, OpsFit
  <2>3. TypeOK'
    BY <1>0, <1>1, <2>1, <2>2 DEF TypeOK
  <2>4. Shape'
    BY <1>0, <1>1, <2>1, <2>2 DEF TypeOK, Shape, Sleepers, OpsFit, MutexHeld, FrontCopied
  <2>5. Pushing' \subseteq Pushing
    BY <1>0, <1>1, <2>1, <2>2 DEF TypeOK, Pushing
  <2>6. RoomKept'
    BY <2>3, <2>5, <1>0, <1>1, RoomStays, Numbers
  <2>7. NoLostWakeup'
    <3>1. CASE op[w] = "pop"
      <4>1. /\ t \in Notifying /\ Notifying' = Notifying \ {t}
            /\ w \notin AwakePoppers /\ AwakePoppers' = AwakePoppers \cup {w}
        BY <1>0, <1>1, <2>1, <2>2, <3>1 DEF TypeOK, Notifying, AwakePoppers
      <4>2. /\ Cardinality(Notifying') = Cardinality(Notifying) - 1
            /\ Cardinality(AwakePoppers') = Cardinality(AwakePoppers) + 1
        BY <4>1, <2>2, <1>0, Numbers, ThreadsCount
      <4>3. waiters # {} /\ (wasted => wasted') /\ queue' = queue
        BY <1>1, <2>1
      <4>4. waiters' # {} /\ ~wasted' =>
              Len(queue') <= Cardinality(Notifying') + Cardinality(AwakePoppers')
        BY <4>2, <4>3, <1>0, Numbers DEF NoLostWakeup
      <4> QED
        BY <4>4 DEF NoLostWakeup
    <3>2. CASE op[w] = "peek"
      BY <3>2, <2>1 DEF NoLostWakeup
    <3> QED
      BY <3>1, <3>2, <2>2
  <2> QED
    BY <2>3, <2>4, <2>6, <2>7 DEF BInv
<1> QED
  BY <1>2, <1>3 DEF Notify

\* Only a thread that finds the queue empty goes to sleep.
LEMMA WaitKeeps ==
  ASSUME BInv, NEW t \in Threads, WaitEmpty(t)
  PROVE  BInv'
<1>0. TypeOK /\ Shape /\ RoomKept /\ NoLostWakeup
  BY DEF BInv
<1>1. /\ pc[t] = "locked" /\ op[t] \in {"pop", "peek"} /\ queue = <<>>
      /\ waiters' = waiters \cup {t} /\ mutex' = NoThread
      /\ pc' = [pc EXCEPT ![t] = "waiting"]
      /\ UNCHANGED <<queue, op, val, out, wasted, calls, spurious>>
  BY DEF WaitEmpty, bounds
<1>2. TypeOK'
  BY <1>0, <1>1 DEF TypeOK
<1>3. Shape'
  BY <1>0, <1>1 DEF TypeOK, Shape, Sleepers, OpsFit, MutexHeld, FrontCopied
<1>4. RoomKept'
  <2>1. Pushing' \subseteq Pushing
    BY <1>0, <1>1 DEF TypeOK, Pushing
  <2> QED
    BY <2>1, <1>0, <1>1, <1>2, RoomStays, Numbers
<1>5. NoLostWakeup'
  <2>1. Len(queue') = 0
    BY <1>1
  <2>2. Cardinality(Notifying') \in Nat /\ Cardinality(AwakePoppers') \in Nat
    <3>1. Notifying' \subseteq Threads /\ AwakePoppers' \subseteq Threads
      BY DEF Notifying, AwakePoppers
    <3> QED
      BY <3>1, ThreadsCount
  <2> QED
    BY <2>1, <2>2 DEF NoLostWakeup
<1> QED
  BY <1>2, <1>3, <1>4, <1>5 DEF BInv

\* Whoever wakes up spuriously is one more that is awake.
LEMMA SpuriousKeeps ==
  ASSUME BInv, NEW t \in Threads, SpuriousWake(t)
  PROVE  BInv'
<1>0. TypeOK /\ Shape /\ RoomKept /\ NoLostWakeup
  BY DEF BInv
<1>1. /\ t \in waiters /\ waiters' = waiters \ {t} /\ pc' = [pc EXCEPT ![t] = "relock"]
      /\ UNCHANGED <<queue, mutex, op, val, out, wasted, calls>>
      /\ pc[t] = "waiting"
  BY <1>0 DEF SpuriousWake, Shape, Sleepers
<1>2. TypeOK'
  <2>1. spurious' \in 0 .. MaxSpurious
    BY <1>0, BoundsAssumption DEF SpuriousWake, TypeOK
  <2> QED
    BY <1>0, <1>1, <2>1 DEF TypeOK
<1>3. Shape'
  BY <1>0, <1>1 DEF TypeOK, Shape, Sleepers, OpsFit, MutexHeld, FrontCopied
<1>4. Pushing' \subseteq Pushing /\ Notifying \subseteq Notifying' /\ AwakePoppers \subseteq AwakePoppers'
  BY <1>0, <1>1 DEF TypeOK, Pushing, Notifying, AwakePoppers
<1>5. RoomKept' /\ NoLostWakeup'
  BY <1>0, <1>1, <1>2, <1>4, RoomStays, NothingLost, Numbers
<1> QED
  BY <1>2, <1>3, <1>5 DEF BInv

\* The copy of the front is a value and disturbs nothing.
LEMMA CopyKeeps ==
  ASSUME BInv, NEW t \in Threads, CopyFront(t)
  PROVE  BInv'
<1>0. TypeOK /\ Shape /\ RoomKept /\ NoLostWakeup
  BY DEF BInv
<1>1. /\ pc[t] = "locked" /\ op[t] \in {"pop", "try_pop"} /\ queue # <<>>
      /\ val' = [val EXCEPT ![t] = Head(queue)] /\ pc' = [pc EXCEPT ![t] = "copied"]
      /\ UNCHANGED <<queue, mutex, waiters, op, out, wasted, calls, spurious>>
  BY DEF CopyFront, bounds
<1>2. Head(queue) \in Value
  BY <1>0, <1>1 DEF TypeOK
<1>3. TypeOK'
  BY <1>0, <1>1, <1>2 DEF TypeOK
<1>4. Shape'
  BY <1>0, <1>1 DEF TypeOK, Shape, Sleepers, OpsFit, MutexHeld, FrontCopied
<1>5. Pushing' \subseteq Pushing /\ Notifying \subseteq Notifying' /\ AwakePoppers \subseteq AwakePoppers'
  BY <1>0, <1>1 DEF TypeOK, Pushing, Notifying, AwakePoppers
<1>6. RoomKept' /\ NoLostWakeup'
  BY <1>0, <1>1, <1>3, <1>5, RoomStays, NothingLost, Numbers
<1> QED
  BY <1>3, <1>4, <1>6 DEF BInv

\* The pop() that takes an item was counted for it.
LEMMA RemoveKeeps ==
  ASSUME BInv, NEW t \in Threads, RemoveFront(t)
  PROVE  BInv' /\ queue # <<>> /\ val[t] = Head(queue)
<1>0. TypeOK /\ Shape /\ RoomKept /\ NoLostWakeup
  BY DEF BInv
<1>1. /\ pc[t] = "copied" /\ out' = val[t] /\ queue' = Tail(queue)
      /\ mutex' = NoThread /\ pc' = [pc EXCEPT ![t] = "idle"]
      /\ op' = [op EXCEPT ![t] = "none"] /\ val' = [val EXCEPT ![t] = None]
      /\ UNCHANGED <<waiters, wasted, calls, spurious>>
  BY DEF RemoveFront, Returned, bounds
<1>2. queue # <<>> /\ val[t] = Head(queue) /\ val[t] \in Value
  BY <1>0, <1>1 DEF Shape, FrontCopied, TypeOK
<1>3. queue' \in Seq(Value) /\ Len(queue') = Len(queue) - 1
  <2>1. queue \in Seq(Value) /\ Len(queue) \in Nat \ {0}
    BY <1>0, <1>2 DEF TypeOK
  <2> QED
    BY <1>1, <2>1
<1>4. TypeOK'
  BY <1>0, <1>1, <1>2, <1>3 DEF TypeOK
<1>5. Shape'
  <2>1. \A u \in Threads \ {t} : pc[u] \notin {"locked", "copied"}
    BY <1>0, <1>1 DEF Shape, MutexHeld
  <2>2. MutexHeld' /\ FrontCopied'
    BY <1>0, <1>1, <2>1 DEF TypeOK, MutexHeld, FrontCopied
  <2>3. Sleepers' /\ OpsFit'
    BY <1>0, <1>1 DEF TypeOK, Shape, Sleepers, OpsFit
  <2> QED
    BY <2>2, <2>3 DEF Shape
<1>6. RoomKept'
  <2>1. Pushing' \subseteq Pushing
    BY <1>0, <1>1 DEF TypeOK, Pushing
  <2> QED
    BY <2>1, <1>0, <1>3, <1>4, RoomStays, Numbers
<1>7. NoLostWakeup'
  <2>1. Notifying' = Notifying
    BY <1>0, <1>1 DEF TypeOK, Notifying
  <2>2. CASE op[t] = "pop"
    <3>1. t \in AwakePoppers /\ AwakePoppers' = AwakePoppers \ {t}
      BY <1>0, <1>1, <2>2 DEF TypeOK, AwakePoppers
    <3>2. Cardinality(AwakePoppers') = Cardinality(AwakePoppers) - 1
      BY <3>1, <1>0, Numbers, ThreadsCount
    <3> QED
      BY <3>2, <2>1, <1>0, <1>1, <1>3, Numbers DEF NoLostWakeup
  <2>3. CASE op[t] # "pop"
    <3>1. AwakePoppers \subseteq AwakePoppers'
      BY <1>0, <1>1, <2>3 DEF TypeOK, AwakePoppers
    <3> QED
      BY <3>1, <2>1, <1>0, <1>1, <1>3, <1>4, NothingLost, Numbers
  <2> QED
    BY <2>2, <2>3
<1> QED
  BY <1>2, <1>4, <1>5, <1>6, <1>7 DEF BInv

\* A call that takes no item, and one that throws: a pop() that throws counts as
\* wasted.
LEMMA AnswerKeeps ==
  ASSUME BInv, NEW t \in Threads, Answer(t) \/ Throw(t)
  PROVE  BInv'
<1>0. TypeOK /\ Shape /\ RoomKept /\ NoLostWakeup
  BY DEF BInv
<1>1. /\ pc[t] = "locked" /\ mutex' = NoThread /\ pc' = [pc EXCEPT ![t] = "idle"]
      /\ op' = [op EXCEPT ![t] = "none"] /\ val' = [val EXCEPT ![t] = None]
      /\ UNCHANGED <<queue, waiters, out, calls, spurious>>
      /\ wasted' \in BOOLEAN /\ (wasted => wasted') /\ (op[t] = "pop" => wasted')
  BY <1>0 DEF Answer, Throw, Returned, bounds, TypeOK
<1>2. TypeOK'
  BY <1>0, <1>1 DEF TypeOK
<1>3. Shape'
  <2>1. \A u \in Threads \ {t} : pc[u] \notin {"locked", "copied"}
    BY <1>0, <1>1 DEF Shape, MutexHeld
  <2>2. MutexHeld' /\ FrontCopied'
    BY <1>0, <1>1, <2>1 DEF TypeOK, MutexHeld, FrontCopied
  <2>3. Sleepers' /\ OpsFit'
    BY <1>0, <1>1 DEF TypeOK, Shape, Sleepers, OpsFit
  <2> QED
    BY <2>2, <2>3 DEF Shape
<1>4. RoomKept'
  <2>1. Pushing' \subseteq Pushing
    BY <1>0, <1>1 DEF TypeOK, Pushing
  <2> QED
    BY <2>1, <1>0, <1>1, <1>2, RoomStays, Numbers
<1>5. NoLostWakeup'
  <2>1. CASE op[t] = "pop"
    BY <2>1, <1>1 DEF NoLostWakeup
  <2>2. CASE op[t] # "pop"
    <3>1. Notifying \subseteq Notifying' /\ AwakePoppers \subseteq AwakePoppers'
      BY <1>0, <1>1, <2>2 DEF TypeOK, Notifying, AwakePoppers
    <3> QED
      BY <3>1, <1>0, <1>1, <1>2, NothingLost, Numbers
  <2> QED
    BY <2>1, <2>2
<1> QED
  BY <1>2, <1>3, <1>4, <1>5 DEF BInv

\* All steps together.
LEMMA BInvStep == BInv /\ [Next]_vars => BInv'
<1> SUFFICES ASSUME BInv, [Next]_vars PROVE BInv'
  OBVIOUS
<1>1. CASE UNCHANGED vars
  <2>1. UNCHANGED <<queue, mutex, waiters, pc, op, val, out, wasted, calls, spurious>>
    BY <1>1 DEF vars
  <2> QED
    BY <2>1 DEF BInv, TypeOK, Shape, Sleepers, OpsFit, MutexHeld, FrontCopied, RoomKept,
                Incoming, NoLostWakeup, Notifying, AwakePoppers
<1>2. ASSUME NEW t \in Threads, Step(t) PROVE BInv'
  BY <1>2, LockKeeps, PushKeeps, NotifyKeeps, WaitKeeps, CopyKeeps, RemoveKeeps, AnswerKeeps DEF Step
<1> QED
  BY <1>1, <1>2, CallKeeps, SpuriousKeeps DEF Next

\* The invariant holds for any threads and any calls of theirs.
LEMMA Invariance == Spec => []BInv
<1> QED
  BY BInvInit, BInvStep, PTL DEF Spec

-----------------------------------------------------------------------------
(* The theorems.                                                           *)

\* push() notifies after it has released the mutex, and spurious wake-ups put
\* sleepers in competition with those notified; still, for any number of
\* threads, a thread sleeps beside items only while each of them is announced or
\* about to be taken, or a notification was spent on a peek() or an exception.
THEOREM NoWakeupIsLost == Spec => []QueueInv
<1>1. BInv => QueueInv
  BY DEF BInv, QueueInv
<1> QED
  BY <1>1, Invariance, PTL

\* For any threads, items and calls the queue is a bounded first-in first-out
\* buffer: the copy of the front and its removal, two steps, are one Take.
THEOREM IsAFifo == Spec => ImplementsFifo
<1>1. Init => Fifo!Init
  BY DEF Init, Fifo!Init
<1>2. BInv /\ [Next]_vars => [Fifo!Next]_Fifo!vars
  <2> SUFFICES ASSUME BInv, [Next]_vars, ~UNCHANGED <<queue, out>> PROVE Fifo!Next
    BY DEF Fifo!vars
  <2>1. PICK t \in Threads : PushItem(t) \/ RemoveFront(t)
    BY DEF Next, Step, vars, Call, Lock, TryLock, Notify, WaitEmpty, CopyFront, Answer,
           Throw, SpuriousWake
  <2>2. CASE PushItem(t)
    <3>1. val[t] \in Value /\ Len(queue) < MaxItems
      BY <2>2, PushKeeps
    <3>2. Fifo!Put(val[t])
      BY <3>1, <2>2 DEF PushItem, Fifo!Put
    <3> QED
      BY <3>1, <3>2 DEF Fifo!Next
  <2>3. CASE RemoveFront(t)
    <3>1. Fifo!Take
      BY <2>3, RemoveKeeps DEF RemoveFront, Fifo!Take
    <3> QED
      BY <3>1 DEF Fifo!Next
  <2> QED
    BY <2>1, <2>2, <2>3
<1> QED
  BY <1>1, <1>2, Invariance, PTL DEF Spec, ImplementsFifo, Fifo!Spec
=============================================================================
