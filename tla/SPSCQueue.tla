------------------------------ MODULE SPSCQueue ------------------------------
(***************************************************************************)
(* The single-producer single-consumer ring of queue/spsc_queue.h, one     *)
(* step per access to shared memory.                                       *)
(*                                                                         *)
(* head_ is stored by the producer only and tail_ by the consumer only, so *)
(* each of them reads its own index exactly.  The acquire load of the      *)
(* OTHER thread's index may return any value from the one that thread saw  *)
(* last (coherence) up to the current one: Visible.                        *)
(***************************************************************************)
EXTENDS Integers, Sequences

CONSTANTS Capacity,  \* the constructor's argument
          Value,     \* the objects that are queued
          Raw,       \* a slot that holds no object
          Husk,      \* a slot whose object blocking_pop has moved from
          None       \* no object was handed over yet

\* The constructor throws std::invalid_argument below 2.
ASSUME CapacityAssumption == Capacity \in Nat /\ Capacity >= 2

ASSUME SlotAssumption == /\ Raw \notin Value /\ Husk \notin Value
                         /\ None \notin Value /\ Raw # Husk

VARIABLES
  slots,     \* slots_, without the padding
  head,      \* head_, the slot the producer fills next
  tail,      \* tail_, the slot the consumer empties next
  ppc,       \* where the producer is
  pOp,       \* the producer's call
  pVal,      \* and its argument
  pTail,     \* the tail_ the producer saw last
  sawRoom,   \* since its last call the producer saw size() < capacity() - 1
  cpc,       \* where the consumer is
  cOp,       \* the consumer's call
  cHead,     \* the head_ the consumer saw last
  sawItem,   \* front() # nullptr or ~empty() since the last pop()
  out,       \* the object that left the queue last
  phase      \* "open", then "closing" in the destructor, then "closed"

producerVars == <<ppc, pOp, pVal, pTail, sawRoom>>
consumerVars == <<cpc, cOp, cHead, sawItem>>
vars == <<slots, head, tail, ppc, pOp, pVal, pTail, sawRoom,
          cpc, cOp, cHead, sawItem, out, phase>>

Indices == 0 .. Capacity - 1

\* A slip to be caught: at the end of the ring the index is not reset to 0.
NextIndexStuck(i) == IF i + 1 = Capacity THEN i ELSE i + 1

\* The wrap-around increment of emplace() and pop().
NextIndex(i) == IF i + 1 = Capacity THEN 0 ELSE i + 1

\* How far index j is ahead of index i: what size() computes from tail and head.
Dist(i, j) == IF i <= j THEN j - i ELSE j - i + Capacity

\* What an acquire load may return after seen, the current value being cur.
Visible(seen, cur) == {i \in Indices : Dist(seen, i) <= Dist(seen, cur)}

Init ==
  /\ slots = [i \in Indices |-> Raw]
  /\ head = 0 /\ tail = 0
  /\ ppc = "idle" /\ pOp = "emplace" /\ pVal = None /\ pTail = 0
  /\ sawRoom = FALSE
  /\ cpc = "idle" /\ cOp = "front" /\ cHead = 0 /\ sawItem = FALSE
  /\ out = None /\ phase = "open"

-----------------------------------------------------------------------------
(* The producer: emplace (push) spins while the ring is full, try_emplace  *)
(* (try_push) gives up.                                                    *)

CallEmplace(op, v) ==
  /\ phase = "open" /\ ppc = "idle"
  /\ ppc' = "check" /\ pOp' = op /\ pVal' = v
  /\ UNCHANGED <<slots, head, tail, pTail, sawRoom, consumerVars, out, phase>>

\* A slip to be caught: the slot is filled without looking at tail_.
SeeRoomAlways(t) ==
  /\ ppc = "check"
  /\ pTail' = t /\ ppc' = "construct"
  /\ UNCHANGED <<slots, head, tail, pOp, pVal, sawRoom, consumerVars, out, phase>>

\* Any load of tail_ but the one that finds the ring full lets the call go on.
SeeRoom(t) ==
  /\ ppc = "check"
  /\ NextIndex(head) # t
  /\ pTail' = t /\ ppc' = "construct"
  /\ UNCHANGED <<slots, head, tail, pOp, pVal, sawRoom, consumerVars, out, phase>>

\* A slip to be caught: the ring is called full one item early.
SeeFullEarly(t) ==
  /\ ppc = "check"
  /\ t \in {NextIndex(head), NextIndex(NextIndex(head))}
  /\ pTail' = t
  /\ ppc' = IF pOp = "emplace" THEN "check" ELSE "idle"
  /\ UNCHANGED <<slots, head, tail, pOp, pVal, sawRoom, consumerVars, out, phase>>

\* emplace() loads tail_ again, try_emplace() returns false.
SeeFull(t) ==
  /\ ppc = "check"
  /\ NextIndex(head) = t
  /\ pTail' = t
  /\ ppc' = IF pOp = "emplace" THEN "check" ELSE "idle"
  /\ UNCHANGED <<slots, head, tail, pOp, pVal, sawRoom, consumerVars, out, phase>>

CheckTail == \E t \in Visible(pTail, tail) : SeeRoom(t) \/ SeeFull(t)

\* A slip to be caught: the object is constructed one slot too far.
ConstructNext ==
  /\ ppc = "construct"
  /\ slots' = [slots EXCEPT ![NextIndex(head)] = pVal]
  /\ ppc' = "publish"
  /\ UNCHANGED <<head, tail, pOp, pVal, pTail, sawRoom, consumerVars, out, phase>>

\* The placement new of the object.
Construct ==
  /\ ppc = "construct"
  /\ slots' = [slots EXCEPT ![head] = pVal]
  /\ ppc' = "publish"
  /\ UNCHANGED <<head, tail, pOp, pVal, pTail, sawRoom, consumerVars, out, phase>>

\* T's constructor throws: the call ends with the slot and head_ untouched.
ConstructThrows ==
  /\ ppc = "construct"
  /\ ppc' = "idle"
  /\ UNCHANGED <<slots, head, tail, pOp, pVal, pTail, sawRoom, consumerVars,
                 out, phase>>

\* The release store of head_.
Publish ==
  /\ ppc = "publish"
  /\ head' = NextIndex(head)
  /\ ppc' = "idle" /\ sawRoom' = FALSE
  /\ UNCHANGED <<slots, tail, pOp, pVal, pTail, consumerVars, out, phase>>

\* size() called by the producer, which compares it with capacity() - 1.
ProducerSize ==
  /\ phase = "open" /\ ppc = "idle"
  /\ \E t \in Visible(pTail, tail) :
       /\ pTail' = t
       /\ sawRoom' = (Dist(t, head) < Capacity - 1)
  /\ UNCHANGED <<slots, head, tail, ppc, pOp, pVal, consumerVars, out, phase>>

-----------------------------------------------------------------------------
(* The consumer: front() and pop(), blocking_pop(), and the destructor,    *)
(* which runs front() and pop() when no other call is under way.           *)

\* blocking_pop() retries front() until it is not null.
CallFront(op) ==
  /\ phase = "open" /\ cpc = "idle"
  /\ cpc' = "front" /\ cOp' = op
  /\ UNCHANGED <<slots, head, tail, producerVars, cHead, sawItem, out, phase>>

CallPop ==
  /\ phase = "open" /\ cpc = "idle" /\ sawItem
  /\ cpc' = "pop" /\ cOp' = "pop"
  /\ UNCHANGED <<slots, head, tail, producerVars, cHead, sawItem, out, phase>>

\* The threads are joined before the destructor runs: it sees every store.
BeginDestructor ==
  /\ phase = "open" /\ ppc = "idle" /\ cpc = "idle"
  /\ phase' = "closing"
  /\ cpc' = "front" /\ cOp' = "destructor" /\ cHead' = head
  /\ UNCHANGED <<slots, head, tail, producerVars, sawItem, out>>

\* front() loads head_ and finds the queue empty.
FrontNull(h) ==
  /\ cpc = "front"
  /\ h = tail
  /\ cHead' = h
  /\ cpc' = IF cOp = "blocking_pop" THEN "front" ELSE "idle"
  /\ sawItem' = FALSE
  /\ phase' = IF cOp = "destructor" THEN "closed" ELSE phase
  /\ UNCHANGED <<slots, head, tail, producerVars, cOp, out>>

\* front() returns the address of the slot at tail.
FrontItem(h) ==
  /\ cpc = "front"
  /\ h # tail
  /\ cHead' = h
  /\ \/ cOp = "front" /\ cpc' = "idle"
     \/ cOp = "blocking_pop" /\ cpc' = "take"
     \/ cOp = "destructor" /\ cpc' = "pop"
  /\ sawItem' = TRUE
  /\ UNCHANGED <<slots, head, tail, producerVars, cOp, out, phase>>

LoadHead == \E h \in Visible(cHead, head) : FrontNull(h) \/ FrontItem(h)

\* blocking_pop() moves the object out before it calls pop().
Take ==
  /\ cpc = "take"
  /\ out' = slots[tail]
  /\ slots' = [slots EXCEPT ![tail] = Husk]
  /\ cpc' = "pop"
  /\ UNCHANGED <<head, tail, producerVars, cOp, cHead, sawItem, phase>>

\* pop()'s assert loads head_ once more; the step exists where it passes.
PopAssert ==
  /\ cpc = "pop"
  /\ \E h \in Visible(cHead, head) : h # tail /\ cHead' = h
  /\ cpc' = "destroy"
  /\ UNCHANGED <<slots, head, tail, producerVars, cOp, sawItem, out, phase>>

\* A slip to be caught: an object that was moved from is not destroyed.
DestroyUnlessMoved ==
  /\ cpc = "destroy"
  /\ out' = IF slots[tail] = Husk THEN out ELSE slots[tail]
  /\ slots' = IF slots[tail] = Husk THEN slots ELSE [slots EXCEPT ![tail] = Raw]
  /\ cpc' = "advance"
  /\ UNCHANGED <<head, tail, producerVars, cOp, cHead, sawItem, phase>>

\* The destructor call of the object (moved from or not).
Destroy ==
  /\ cpc = "destroy"
  /\ out' = IF slots[tail] = Husk THEN out ELSE slots[tail]
  /\ slots' = [slots EXCEPT ![tail] = Raw]
  /\ cpc' = "advance"
  /\ UNCHANGED <<head, tail, producerVars, cOp, cHead, sawItem, phase>>

\* The release store of tail_.
Advance ==
  /\ cpc = "advance"
  /\ tail' = NextIndex(tail)
  /\ cpc' = IF cOp = "destructor" THEN "front" ELSE "idle"
  /\ sawItem' = FALSE
  /\ UNCHANGED <<slots, head, producerVars, cOp, cHead, out, phase>>

\* empty() called by the consumer.
ConsumerEmpty ==
  /\ phase = "open" /\ cpc = "idle"
  /\ \E h \in Visible(cHead, head) :
       /\ cHead' = h
       /\ sawItem' = (Dist(tail, h) # 0)
  /\ UNCHANGED <<slots, head, tail, producerVars, cpc, cOp, out, phase>>

-----------------------------------------------------------------------------
ProducerCall == \E op \in {"emplace", "try_emplace"}, v \in Value : CallEmplace(op, v)
ProducerStep == CheckTail \/ Construct \/ ConstructThrows \/ Publish
Producer == ProducerCall \/ ProducerStep \/ ProducerSize

ConsumerCall == \E op \in {"front", "blocking_pop"} : CallFront(op)
ConsumerStep == LoadHead \/ Take \/ PopAssert \/ Destroy \/ Advance
Consumer == ConsumerCall \/ CallPop \/ ConsumerStep \/ ConsumerEmpty

Next == Producer \/ Consumer \/ BeginDestructor

Spec == Init /\ [][Next]_vars

(* A thread inside a call keeps running, and a store becomes visible to    *)
(* the other thread in finite time, so that not every one of an unending   *)
(* series of loads returns an old value.  FreshTail and FreshHead are the  *)
(* loads that return the current one.                                      *)
FreshTail == SeeRoom(tail) \/ SeeFull(tail)
FreshHead == FrontNull(head) \/ FrontItem(head)
Fairness ==
  /\ SF_vars(FreshTail) /\ WF_vars(Construct \/ ConstructThrows) /\ WF_vars(Publish)
  /\ SF_vars(FreshHead) /\ WF_vars(Take) /\ WF_vars(PopAssert)
  /\ WF_vars(Destroy) /\ WF_vars(Advance)

\* The workload of the liveness run: among its other calls each side calls the
\* blocking operation again and again, and not every constructor throws.
BusyWorkload ==
  /\ SF_vars(\E v \in Value : CallEmplace("emplace", v))
  /\ SF_vars(CallFront("blocking_pop"))
  /\ SF_vars(Construct)

LiveSpec == Spec /\ Fairness /\ BusyWorkload

-----------------------------------------------------------------------------
(* Properties                                                              *)

TypeOK ==
  /\ slots \in [Indices -> Value \cup {Raw, Husk}]
  /\ head \in Indices /\ tail \in Indices
  /\ ppc \in {"idle", "check", "construct", "publish"}
  /\ pOp \in {"emplace", "try_emplace"}
  /\ pVal \in Value \cup {None}
  /\ pTail \in Indices
  /\ sawRoom \in BOOLEAN
  /\ cpc \in {"idle", "front", "take", "pop", "destroy", "advance"}
  /\ cOp \in {"front", "pop", "blocking_pop", "destructor"}
  /\ cHead \in Indices
  /\ sawItem \in BOOLEAN
  /\ out \in Value \cup {None}
  /\ phase \in {"open", "closing", "closed"}

\* A slot is never shared: the producer constructs only in raw memory, the
\* consumer moves from and destroys only an object that was published and not
\* yet taken, and the two are never at work on the same slot, however late the
\* loads of the other thread's index are.
SlotsAreExclusive ==
  /\ ppc = "construct" => slots[head] = Raw
  /\ cpc = "take" => slots[tail] \in Value
  /\ cpc \in {"pop", "destroy"} => slots[tail] # Raw
  /\ ppc \in {"construct", "publish"} /\ cpc \in {"take", "pop", "destroy"}
       => head # tail

\* The assert of pop() cannot fire: an item seen by front() or by empty() is
\* still seen by every later load of head_, until pop() removes it.
PopAssertHolds == cpc = "pop" => tail \notin Visible(cHead, head)

\* Both indices stay inside slots_, no slot is shared, and pop() finds an item.
SlotsInv == TypeOK /\ SlotsAreExclusive /\ PopAssertHolds

\* A producer that saw size() < capacity() - 1 does not have its next
\* try_emplace() refused.
RoomIsStable ==
  [][sawRoom /\ ppc = "check" => ppc' \in {"check", "construct"}]_vars

\* Every object the ring ever held is destroyed exactly once: none is left
\* behind by the destructor, whatever the position of head_ and tail_.
NothingLeaks == phase = "closed" => \A i \in Indices : slots[i] = Raw

\* The ring implements a bounded FIFO of Capacity - 1 items.  An object enters
\* when head_ is stored and leaves when it is moved from or destroyed.
First == IF cpc = "advance" \/ slots[tail] = Husk THEN NextIndex(tail) ELSE tail

\* The slot k places after slot i, and what lies in s from slot f up to slot h.
Ahead(i, k) == IF i + k < Capacity THEN i + k ELSE i + k - Capacity
Items(s, f, h) == [k \in 1 .. Dist(f, h) |-> s[Ahead(f, k - 1)]]
Contents == Items(slots, First, head)
Fifo == INSTANCE BoundedFifo WITH items <- Contents, Bound <- Capacity - 1
ImplementsFifo == Fifo!Spec

\* emplace() on a full ring returns once the consumer makes room, and
\* blocking_pop() on an empty one once the producer publishes.
EmplaceReturns == (ppc = "check" /\ pOp = "emplace") ~> ppc \in {"publish", "idle"}
BlockingPopReturns == (cpc = "front" /\ cOp = "blocking_pop") ~> cpc = "advance"
SpinsEnd == EmplaceReturns /\ BlockingPopReturns
=============================================================================
