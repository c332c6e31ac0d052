-------------------------- MODULE SPSCQueue_proofs --------------------------
(***************************************************************************)
(* Proofs, for every Capacity >= 2 and every set of values, that no slot   *)
(* of the ring is shared, that the assert of pop() holds, that a promise   *)
(* of room is kept, that the destructor leaves no object behind, and that  *)
(* the ring implements a bounded first-in first-out buffer.                *)
(*                                                                         *)
(* The argument is one picture: going round the ring from the tail_ the    *)
(* producer saw last one meets, in this order, tail_, the head_ the        *)
(* consumer saw last, and head_.  A late load only returns an index        *)
(* further back on this path, so it can only make a thread too careful.    *)
(***************************************************************************)
EXTENDS SPSCQueue, SequenceTheorems, TLAPS

\* The order of the four indices round the ring.
RingOrder ==
  Dist(pTail, tail) + Dist(tail, cHead) + Dist(cHead, head) = Dist(pTail, head)

\* Slot i holds an object: it is between tail and head and not destroyed, or
\* it is constructed and not published.
Occupied(i) ==
  \/ Dist(tail, i) < Dist(tail, head) /\ ~(cpc = "advance" /\ i = tail)
  \/ ppc = "publish" /\ i = head

SlotsTrackIndices ==
  \A i \in Indices : slots[i] # Raw <=> Occupied(i)

\* Only the object at tail is ever moved from, and pop() follows at once.
HuskOnlyAtTail ==
  \A i \in Indices : slots[i] = Husk => i = tail /\ cpc \in {"pop", "destroy"}

\* What the producer learnt from tail_ holds until it publishes.
ProducerKnows ==
  /\ ppc \in {"construct", "publish"} => NextIndex(head) # pTail
  /\ sawRoom => NextIndex(head) # pTail
  /\ ppc # "idle" => pVal \in Value

\* What the consumer learnt from head_ holds until it stores tail_.
ConsumerKnows ==
  /\ cpc \in {"take", "pop", "destroy", "advance"} => cHead # tail
  /\ sawItem => cHead # tail
  /\ cpc = "take" => cOp = "blocking_pop"
  /\ cpc = "front" => cOp # "pop"

\* The destructor runs alone, and ends with the ring empty.
DestructorAlone ==
  /\ phase = "closing" => ppc = "idle"
  /\ phase = "closed" => ppc = "idle" /\ cpc = "idle" /\ head = tail
  /\ phase = "closing" => cHead = head
  /\ phase # "closed" => (phase = "closing" <=> cOp = "destructor")

IInv ==
  /\ TypeOK
  /\ RingOrder
  /\ SlotsTrackIndices
  /\ HuskOnlyAtTail
  /\ ProducerKnows
  /\ ConsumerKnows
  /\ DestructorAlone

-----------------------------------------------------------------------------
(* Facts about the ring's arithmetic.                                      *)

\* The index after an index is an index, and distances stay below Capacity.
LEMMA RingTypes ==
  ASSUME NEW i \in Indices, NEW j \in Indices
  PROVE  /\ NextIndex(i) \in Indices
         /\ Dist(i, j) \in Nat /\ Capacity \in Nat /\ Dist(i, j) < Capacity
         /\ Dist(i, j) = 0 <=> i = j
  BY CapacityAssumption DEF Indices, NextIndex, Dist

\* Storing the next index moves the end of a path one further.
LEMMA DistToNext ==
  ASSUME NEW i \in Indices, NEW j \in Indices, NextIndex(j) # i
  PROVE  Dist(i, NextIndex(j)) = Dist(i, j) + 1
  BY CapacityAssumption DEF Indices, NextIndex, Dist

\* Storing the next index moves the beginning of a path one further.
LEMMA DistFromNext ==
  ASSUME NEW i \in Indices, NEW j \in Indices, i # j
  PROVE  Dist(NextIndex(i), j) = Dist(i, j) - 1
  BY CapacityAssumption DEF Indices, NextIndex, Dist

\* An index on the path from i to k splits it.
LEMMA DistSplits ==
  ASSUME NEW i \in Indices, NEW j \in Indices, NEW k \in Indices,
         Dist(i, j) <= Dist(i, k)
  PROVE  Dist(i, j) + Dist(j, k) = Dist(i, k)
  BY CapacityAssumption DEF Indices, NextIndex, Dist

\* The full test of the producer: the slot after head is not pTail exactly when
\* the producer's path is shorter than Capacity - 1.
LEMMA RoomIsDistance ==
  ASSUME NEW i \in Indices, NEW j \in Indices
  PROVE  NextIndex(j) # i <=> Dist(i, j) < Capacity - 1
  BY CapacityAssumption DEF Indices, NextIndex, Dist

\* A path that grows by one index takes in its old end and nothing else.
LEMMA PathGrows ==
  ASSUME NEW i \in Indices, NEW j \in Indices, NEW k \in Indices
  PROVE  Dist(i, k) < Dist(i, j) + 1 <=> Dist(i, k) < Dist(i, j) \/ k = j
  BY CapacityAssumption DEF Indices, Dist

\* What a load of tail_ by the producer leaves in order.
LEMMA ProducerLoad ==
  ASSUME TypeOK, RingOrder, NEW t \in Visible(pTail, tail)
  PROVE  /\ t \in Indices
         /\ Dist(t, tail) + Dist(tail, cHead) + Dist(cHead, head) = Dist(t, head)
         /\ NextIndex(head) # pTail => NextIndex(head) # t
  BY CapacityAssumption
  DEF TypeOK, RingOrder, Visible, Indices, Dist, NextIndex

\* What a load of head_ by the consumer leaves in order.
LEMMA ConsumerLoad ==
  ASSUME TypeOK, RingOrder, NEW h \in Visible(cHead, head)
  PROVE  /\ h \in Indices
         /\ Dist(pTail, tail) + Dist(tail, h) + Dist(h, head) = Dist(pTail, head)
         /\ cHead # tail => h # tail
         /\ cHead = head => h = head
  BY CapacityAssumption DEF TypeOK, RingOrder, Visible, Indices, Dist

\* tail_ and the head_ last seen by the consumer split the paths they are on.
LEMMA PathsSplit ==
  ASSUME TypeOK, RingOrder
  PROVE  /\ Dist(pTail, tail) + Dist(tail, head) = Dist(pTail, head)
         /\ Dist(pTail, cHead) + Dist(cHead, head) = Dist(pTail, head)
         /\ Dist(tail, cHead) + Dist(cHead, head) = Dist(tail, head)
  BY CapacityAssumption DEF TypeOK, RingOrder, Indices, Dist

\* The slot the producer may fill is not the one the consumer empties.
LEMMA RoomBeforeTail ==
  ASSUME TypeOK, RingOrder, NextIndex(head) # pTail
  PROVE  NextIndex(head) # tail
  BY RingTypes, RoomIsDistance, PathsSplit DEF TypeOK

\* The item the consumer saw is still there.
LEMMA ItemBeforeHead ==
  ASSUME TypeOK, RingOrder, cHead # tail
  PROVE  head # tail
  BY CapacityAssumption DEF TypeOK, RingOrder, Indices, Dist

-----------------------------------------------------------------------------
(* The invariant holds initially and is kept by every step.                *)

\* The empty ring satisfies the invariant.
LEMMA InitEstablishes == Init => IInv
<1> SUFFICES ASSUME Init PROVE IInv
  OBVIOUS
<1>1. 0 \in Indices
  BY CapacityAssumption DEF Indices
<1>2. TypeOK
  BY <1>1 DEF Init, TypeOK
<1>3. RingOrder
  BY <1>1, RingTypes DEF Init, RingOrder
<1>4. SlotsTrackIndices
  BY <1>1, RingTypes DEF Init, SlotsTrackIndices, Occupied, Indices
<1>5. HuskOnlyAtTail /\ ProducerKnows /\ ConsumerKnows /\ DestructorAlone
  BY SlotAssumption
  DEF Init, HuskOnlyAtTail, ProducerKnows, ConsumerKnows, DestructorAlone
<1> QED
  BY <1>2, <1>3, <1>4, <1>5 DEF IInv

\* A call of the producer.
LEMMA CallEmplaceKeeps ==
  ASSUME IInv, NEW op \in {"emplace", "try_emplace"}, NEW v \in Value,
         CallEmplace(op, v)
  PROVE  IInv'
<1>1. /\ TypeOK' /\ RingOrder' /\ SlotsTrackIndices' /\ HuskOnlyAtTail'
      /\ ProducerKnows' /\ ConsumerKnows' /\ DestructorAlone'
  BY DEF IInv, TypeOK, RingOrder, SlotsTrackIndices, HuskOnlyAtTail,
         ProducerKnows, ConsumerKnows, DestructorAlone, Occupied, CallEmplace,
         producerVars, consumerVars
<1> QED
  BY <1>1 DEF IInv

\* A load of tail_: an older value only shortens what the producer may do.
LEMMA CheckTailKeeps ==
  ASSUME IInv, NEW t \in Visible(pTail, tail), SeeRoom(t) \/ SeeFull(t)
  PROVE  IInv'
<1>1. SlotsTrackIndices' /\ HuskOnlyAtTail' /\ ConsumerKnows' /\ DestructorAlone'
  BY DEF IInv, TypeOK, SlotsTrackIndices, HuskOnlyAtTail, ConsumerKnows,
         DestructorAlone, Occupied, SeeRoom, SeeFull, producerVars,
         consumerVars
<1>2. TypeOK'
  BY ProducerLoad
  DEF IInv, TypeOK, RingOrder, SeeRoom, SeeFull, producerVars, consumerVars
<1>3. RingOrder'
  BY ProducerLoad
  DEF IInv, RingOrder, TypeOK, SeeRoom, SeeFull, producerVars, consumerVars
<1>4. ProducerKnows'
  BY ProducerLoad
  DEF IInv, ProducerKnows, TypeOK, RingOrder, SeeRoom, SeeFull, producerVars,
      consumerVars
<1> QED
  BY <1>1, <1>2, <1>3, <1>4 DEF IInv

\* The construction fills the raw slot at head.
LEMMA ConstructKeeps ==
  ASSUME IInv, Construct
  PROVE  IInv'
<1>1. RingOrder' /\ ProducerKnows' /\ ConsumerKnows' /\ DestructorAlone'
  BY DEF IInv, TypeOK, RingOrder, ProducerKnows, ConsumerKnows,
         DestructorAlone, Construct, producerVars, consumerVars
<1>2. TypeOK'
  BY DEF IInv, TypeOK, ProducerKnows, Construct, producerVars, consumerVars
<1>3. SlotsTrackIndices'
  <2> SUFFICES ASSUME NEW i \in Indices
               PROVE  slots'[i] # Raw <=> Occupied(i)'
    BY DEF SlotsTrackIndices
  <2>1. pVal # Raw /\ slots' = [slots EXCEPT ![head] = pVal] /\ ppc' = "publish"
    BY SlotAssumption DEF IInv, ProducerKnows, Construct
  <2>2. /\ head \in Indices /\ head' = head /\ tail' = tail /\ cpc' = cpc
        /\ slots \in [Indices -> Value \cup {Raw, Husk}]
    BY DEF IInv, TypeOK, Construct, consumerVars
  <2>3. slots[i] # Raw <=> Occupied(i)
    BY DEF IInv, SlotsTrackIndices
  <2>4. ppc # "publish"
    BY DEF Construct
  <2> QED
    BY <2>1, <2>2, <2>3, <2>4 DEF Occupied
<1>4. HuskOnlyAtTail'
  <2>1. /\ pVal # Husk /\ slots' = [slots EXCEPT ![head] = pVal]
        /\ UNCHANGED <<tail, cpc>>
    BY SlotAssumption DEF IInv, ProducerKnows, Construct, consumerVars
  <2>2. slots \in [Indices -> Value \cup {Raw, Husk}] /\ HuskOnlyAtTail
    BY DEF IInv, TypeOK
  <2> QED
    BY <2>1, <2>2 DEF HuskOnlyAtTail
<1> QED
  BY <1>1, <1>2, <1>3, <1>4 DEF IInv

\* A constructor that throws leaves everything as it was.
LEMMA ConstructThrowsKeeps ==
  ASSUME IInv, ConstructThrows
  PROVE  IInv'
<1>1. /\ TypeOK' /\ RingOrder' /\ SlotsTrackIndices' /\ HuskOnlyAtTail'
      /\ ProducerKnows' /\ ConsumerKnows' /\ DestructorAlone'
  BY DEF IInv, TypeOK, RingOrder, SlotsTrackIndices, HuskOnlyAtTail,
         ProducerKnows, ConsumerKnows, DestructorAlone, Occupied,
         ConstructThrows, producerVars, consumerVars
<1> QED
  BY <1>1 DEF IInv

\* The store of head_ hands the constructed slot over.
LEMMA PublishKeeps ==
  ASSUME IInv, Publish
  PROVE  IInv'
<1>1. /\ head' = NextIndex(head) /\ head \in Indices
      /\ Dist(tail, head') = Dist(tail, head) + 1
      /\ Dist(cHead, head') = Dist(cHead, head) + 1
      /\ Dist(pTail, head') = Dist(pTail, head) + 1
  <2>1. NextIndex(head) # pTail /\ NextIndex(head) # tail
    BY RoomBeforeTail DEF IInv, ProducerKnows, Publish
  <2>2. NextIndex(head) # cHead
    BY RingTypes, RoomIsDistance, PathsSplit, <2>1 DEF IInv, TypeOK
  <2> QED
    BY <2>1, <2>2, DistToNext DEF IInv, TypeOK, Publish
<1>2. HuskOnlyAtTail' /\ ProducerKnows' /\ ConsumerKnows' /\ DestructorAlone'
  BY DEF IInv, TypeOK, HuskOnlyAtTail, ProducerKnows, ConsumerKnows,
         DestructorAlone, Publish, producerVars, consumerVars
<1>3. TypeOK'
  BY RingTypes DEF IInv, TypeOK, Publish, producerVars, consumerVars
<1>4. RingOrder'
  <2>1. Dist(pTail, tail) + Dist(tail, cHead) + Dist(cHead, head) = Dist(pTail, head)
    BY DEF IInv, RingOrder
  <2>2. /\ Dist(pTail, tail) \in Nat /\ Dist(tail, cHead) \in Nat
        /\ Dist(cHead, head) \in Nat /\ Dist(pTail, head) \in Nat
    BY RingTypes DEF IInv, TypeOK
  <2>3. UNCHANGED <<pTail, tail, cHead>>
    BY DEF Publish, consumerVars
  <2> QED
    BY <1>1, <2>1, <2>2, <2>3 DEF RingOrder
<1>5. SlotsTrackIndices'
  <2> SUFFICES ASSUME NEW i \in Indices
               PROVE  slots'[i] # Raw <=> Occupied(i)'
    BY DEF SlotsTrackIndices
  <2>1. slots'[i] # Raw <=> Occupied(i)
    BY DEF IInv, SlotsTrackIndices, Publish
  <2>2. Dist(tail, i) < Dist(tail, head) + 1 <=> Dist(tail, i) < Dist(tail, head) \/ i = head
    BY PathGrows DEF IInv, TypeOK
  <2>3. cpc = "advance" => head # tail
    BY ItemBeforeHead DEF IInv, ConsumerKnows
  <2>4. ppc = "publish" /\ ppc' = "idle" /\ tail' = tail /\ cpc' = cpc
    BY DEF Publish, consumerVars
  <2> QED
    BY <1>1, <2>1, <2>2, <2>3, <2>4 DEF Occupied
<1> QED
  BY <1>2, <1>3, <1>4, <1>5 DEF IInv

\* size() in the producer.
LEMMA ProducerSizeKeeps ==
  ASSUME IInv, ProducerSize
  PROVE  IInv'
<1>1. SlotsTrackIndices' /\ HuskOnlyAtTail' /\ ConsumerKnows' /\ DestructorAlone'
  BY DEF IInv, TypeOK, SlotsTrackIndices, HuskOnlyAtTail, ConsumerKnows,
         DestructorAlone, Occupied, ProducerSize, producerVars, consumerVars
<1>2. TypeOK'
  BY ProducerLoad
  DEF IInv, TypeOK, RingOrder, ProducerSize, producerVars, consumerVars
<1>3. RingOrder'
  BY ProducerLoad
  DEF IInv, RingOrder, TypeOK, ProducerSize, producerVars, consumerVars
<1>4. ProducerKnows'
  BY ProducerLoad, RoomIsDistance, RingTypes
  DEF IInv, ProducerKnows, TypeOK, RingOrder, ProducerSize, producerVars,
      consumerVars
<1> QED
  BY <1>1, <1>2, <1>3, <1>4 DEF IInv

\* A call of front() or blocking_pop().
LEMMA CallFrontKeeps ==
  ASSUME IInv, NEW op \in {"front", "blocking_pop"}, CallFront(op)
  PROVE  IInv'
<1>1. /\ TypeOK' /\ RingOrder' /\ SlotsTrackIndices' /\ HuskOnlyAtTail'
      /\ ProducerKnows' /\ ConsumerKnows' /\ DestructorAlone'
  BY DEF IInv, TypeOK, RingOrder, SlotsTrackIndices, HuskOnlyAtTail,
         ProducerKnows, ConsumerKnows, DestructorAlone, Occupied, CallFront,
         producerVars, consumerVars
<1> QED
  BY <1>1 DEF IInv

\* A call of pop() after an item was seen.
LEMMA CallPopKeeps ==
  ASSUME IInv, CallPop
  PROVE  IInv'
<1>1. /\ TypeOK' /\ RingOrder' /\ SlotsTrackIndices' /\ HuskOnlyAtTail'
      /\ ProducerKnows' /\ ConsumerKnows' /\ DestructorAlone'
  BY DEF IInv, TypeOK, RingOrder, SlotsTrackIndices, HuskOnlyAtTail,
         ProducerKnows, ConsumerKnows, DestructorAlone, Occupied, CallPop,
         producerVars, consumerVars
<1> QED
  BY <1>1 DEF IInv

\* The destructor starts when no call is under way.
LEMMA BeginDestructorKeeps ==
  ASSUME IInv, BeginDestructor
  PROVE  IInv'
<1>1. /\ TypeOK' /\ SlotsTrackIndices' /\ HuskOnlyAtTail' /\ ProducerKnows'
      /\ DestructorAlone'
  BY DEF IInv, TypeOK, SlotsTrackIndices, HuskOnlyAtTail, ProducerKnows,
         DestructorAlone, Occupied, BeginDestructor, producerVars, consumerVars
<1>2. RingOrder'
  <2>1. head \in Visible(cHead, head)
    BY RingTypes DEF IInv, TypeOK, Visible
  <2> QED
    BY <2>1, ConsumerLoad DEF IInv, RingOrder, BeginDestructor, producerVars
<1>3. ConsumerKnows'
  <2>1. sawItem => head # tail
    BY ItemBeforeHead DEF IInv, ConsumerKnows
  <2> QED
    BY <2>1 DEF BeginDestructor, ConsumerKnows
<1> QED
  BY <1>1, <1>2, <1>3 DEF IInv

\* front() finds the ring empty.
LEMMA FrontNullKeeps ==
  ASSUME IInv, NEW h \in Visible(cHead, head), FrontNull(h)
  PROVE  IInv'
<1>1. SlotsTrackIndices' /\ HuskOnlyAtTail' /\ ProducerKnows' /\ ConsumerKnows'
  BY DEF IInv, TypeOK, SlotsTrackIndices, HuskOnlyAtTail, ProducerKnows,
         ConsumerKnows, Occupied, FrontNull, producerVars, consumerVars
<1>2. TypeOK'
  BY ConsumerLoad
  DEF IInv, TypeOK, RingOrder, FrontNull, producerVars, consumerVars
<1>3. RingOrder'
  BY ConsumerLoad
  DEF IInv, RingOrder, TypeOK, FrontNull, producerVars, consumerVars
<1>4. DestructorAlone'
  BY ConsumerLoad
  DEF IInv, DestructorAlone, TypeOK, RingOrder, ConsumerKnows, FrontNull,
      producerVars, consumerVars
<1> QED
  BY <1>1, <1>2, <1>3, <1>4 DEF IInv

\* front() finds an item.
LEMMA FrontItemKeeps ==
  ASSUME IInv, NEW h \in Visible(cHead, head), FrontItem(h)
  PROVE  IInv'
<1>1. SlotsTrackIndices' /\ HuskOnlyAtTail' /\ ProducerKnows'
  BY DEF IInv, TypeOK, SlotsTrackIndices, HuskOnlyAtTail, ProducerKnows,
         Occupied, FrontItem, producerVars, consumerVars
<1>2. TypeOK'
  BY ConsumerLoad
  DEF IInv, TypeOK, RingOrder, ConsumerKnows, FrontItem, producerVars,
      consumerVars
<1>3. RingOrder'
  BY ConsumerLoad
  DEF IInv, RingOrder, TypeOK, FrontItem, producerVars, consumerVars
<1>4. ConsumerKnows'
  BY DEF IInv, ConsumerKnows, TypeOK, FrontItem, producerVars, consumerVars
<1>5. DestructorAlone'
  BY ConsumerLoad
  DEF IInv, DestructorAlone, TypeOK, RingOrder, ConsumerKnows, FrontItem,
      producerVars, consumerVars
<1> QED
  BY <1>1, <1>2, <1>3, <1>4, <1>5 DEF IInv

\* While the consumer is at work on the slot at tail, it holds an object.
LEMMA OccupiedAtTail ==
  ASSUME IInv, cpc \in {"take", "pop", "destroy"}
  PROVE  tail \in Indices /\ slots[tail] # Raw /\ head # tail
<1>1. head # tail /\ tail \in Indices /\ head \in Indices
  BY ItemBeforeHead DEF IInv, ConsumerKnows, TypeOK
<1>2. Occupied(tail)
  BY <1>1, RingTypes DEF Occupied
<1> QED
  BY <1>1, <1>2 DEF IInv, SlotsTrackIndices

\* The move leaves a husk at tail.
LEMMA TakeKeeps ==
  ASSUME IInv, Take
  PROVE  IInv'
<1>1. /\ RingOrder' /\ HuskOnlyAtTail' /\ ProducerKnows' /\ ConsumerKnows'
      /\ DestructorAlone'
  BY DEF IInv, TypeOK, RingOrder, HuskOnlyAtTail, ProducerKnows, ConsumerKnows,
         DestructorAlone, Take, producerVars, consumerVars
<1>2. TypeOK'
  <2>1. slots[tail] \in Value
    BY OccupiedAtTail DEF IInv, TypeOK, HuskOnlyAtTail, Take
  <2> QED
    BY <2>1 DEF IInv, TypeOK, Take, producerVars
<1>3. SlotsTrackIndices'
  BY OccupiedAtTail, SlotAssumption
  DEF IInv, TypeOK, SlotsTrackIndices, Occupied, Take, producerVars,
      consumerVars
<1> QED
  BY <1>1, <1>2, <1>3 DEF IInv

\* The assert of pop() only loads head_.
LEMMA PopAssertKeeps ==
  ASSUME IInv, PopAssert
  PROVE  IInv'
<1>1. SlotsTrackIndices' /\ HuskOnlyAtTail' /\ ProducerKnows' /\ ConsumerKnows'
  BY DEF IInv, TypeOK, SlotsTrackIndices, HuskOnlyAtTail, ProducerKnows,
         ConsumerKnows, Occupied, PopAssert, producerVars, consumerVars
<1>2. TypeOK'
  BY ConsumerLoad
  DEF IInv, TypeOK, RingOrder, PopAssert, producerVars, consumerVars
<1>3. RingOrder'
  BY ConsumerLoad
  DEF IInv, RingOrder, TypeOK, PopAssert, producerVars, consumerVars
<1>4. DestructorAlone'
  BY ConsumerLoad
  DEF IInv, DestructorAlone, TypeOK, RingOrder, PopAssert, producerVars,
      consumerVars
<1> QED
  BY <1>1, <1>2, <1>3, <1>4 DEF IInv

\* The destruction leaves raw memory at tail.
LEMMA DestroyKeeps ==
  ASSUME IInv, Destroy
  PROVE  IInv'
<1>1. RingOrder' /\ ProducerKnows' /\ ConsumerKnows' /\ DestructorAlone'
  BY DEF IInv, TypeOK, RingOrder, ProducerKnows, ConsumerKnows,
         DestructorAlone, Destroy, producerVars, consumerVars
<1>2. TypeOK'
  <2>1. slots[tail] \in Value \cup {Husk}
    BY OccupiedAtTail DEF IInv, TypeOK, Destroy
  <2> QED
    BY <2>1 DEF IInv, TypeOK, Destroy, producerVars
<1>3. SlotsTrackIndices'
  <2> SUFFICES ASSUME NEW i \in Indices
               PROVE  slots'[i] # Raw <=> Occupied(i)'
    BY DEF SlotsTrackIndices
  <2>1. /\ slots' = [slots EXCEPT ![tail] = Raw] /\ cpc = "destroy"
        /\ cpc' = "advance" /\ UNCHANGED <<head, tail, ppc>>
    BY DEF Destroy, producerVars
  <2>2. slots \in [Indices -> Value \cup {Raw, Husk}] /\ tail \in Indices
    BY DEF IInv, TypeOK
  <2>3. head # tail
    BY ItemBeforeHead DEF IInv, ConsumerKnows, Destroy
  <2>4. slots[i] # Raw <=> Occupied(i)
    BY DEF IInv, SlotsTrackIndices
  <2> QED
    BY <2>1, <2>2, <2>3, <2>4 DEF Occupied
<1>4. HuskOnlyAtTail'
  <2>1. slots' = [slots EXCEPT ![tail] = Raw]
    BY DEF Destroy
  <2> QED
    BY <2>1, SlotAssumption DEF IInv, TypeOK, HuskOnlyAtTail, Destroy
<1> QED
  BY <1>1, <1>2, <1>3, <1>4 DEF IInv

\* The store of tail_ gives the raw slot back.
LEMMA AdvanceKeeps ==
  ASSUME IInv, Advance
  PROVE  IInv'
<1>1. /\ tail' = NextIndex(tail) /\ tail \in Indices /\ head \in Indices
      /\ head # tail
      /\ Dist(tail', head) = Dist(tail, head) - 1
      /\ Dist(tail', cHead) = Dist(tail, cHead) - 1
      /\ Dist(pTail, tail') = Dist(pTail, tail) + 1
  <2>1. head # tail /\ cHead # tail
    BY ItemBeforeHead DEF IInv, ConsumerKnows, Advance
  <2>2. NextIndex(tail) # pTail
    BY <2>1, RingTypes, RoomIsDistance DEF IInv, TypeOK, RingOrder
  <2> QED
    BY <2>1, <2>2, DistToNext, DistFromNext DEF IInv, TypeOK, Advance
<1>2. ProducerKnows' /\ ConsumerKnows' /\ DestructorAlone'
  BY DEF IInv, TypeOK, ProducerKnows, ConsumerKnows, DestructorAlone, Advance,
         producerVars, consumerVars
<1>3. TypeOK'
  BY RingTypes DEF IInv, TypeOK, Advance, producerVars, consumerVars
<1>4. RingOrder'
  BY <1>1, RingTypes
  DEF IInv, RingOrder, TypeOK, Advance, producerVars, consumerVars
<1>5. SlotsTrackIndices'
  <2> SUFFICES ASSUME NEW i \in Indices
               PROVE  slots'[i] # Raw <=> Occupied(i)'
    BY DEF SlotsTrackIndices
  <2>1. slots'[i] # Raw <=> Occupied(i)
    BY DEF IInv, SlotsTrackIndices, Advance
  <2>2. i # tail => Dist(tail', i) = Dist(tail, i) - 1
    BY <1>1, DistFromNext
  <2>3. i = tail => Dist(tail', i) = Capacity - 1 /\ Dist(tail', head) < Capacity - 1
    BY <1>1, CapacityAssumption DEF Dist, NextIndex, Indices
  <2>4. cpc = "advance" /\ cpc' # "advance" /\ UNCHANGED <<head, ppc>>
    BY DEF Advance, producerVars
  <2> QED
    BY <1>1, <2>1, <2>2, <2>3, <2>4, RingTypes DEF Occupied
<1>6. HuskOnlyAtTail'
  BY DEF IInv, TypeOK, HuskOnlyAtTail, Advance, producerVars, consumerVars
<1> QED
  BY <1>2, <1>3, <1>4, <1>5, <1>6 DEF IInv

\* empty() in the consumer.
LEMMA ConsumerEmptyKeeps ==
  ASSUME IInv, ConsumerEmpty
  PROVE  IInv'
<1>1. SlotsTrackIndices' /\ HuskOnlyAtTail' /\ ProducerKnows' /\ DestructorAlone'
  BY DEF IInv, TypeOK, SlotsTrackIndices, HuskOnlyAtTail, ProducerKnows,
         DestructorAlone, Occupied, ConsumerEmpty, producerVars, consumerVars
<1>2. TypeOK'
  BY ConsumerLoad
  DEF IInv, TypeOK, RingOrder, ConsumerEmpty, producerVars, consumerVars
<1>3. RingOrder'
  BY ConsumerLoad
  DEF IInv, RingOrder, TypeOK, ConsumerEmpty, producerVars, consumerVars
<1>4. ConsumerKnows'
  BY ConsumerLoad, RingTypes
  DEF IInv, ConsumerKnows, TypeOK, RingOrder, ConsumerEmpty, producerVars,
      consumerVars
<1> QED
  BY <1>1, <1>2, <1>3, <1>4 DEF IInv

-----------------------------------------------------------------------------
(* The theorems.                                                           *)

\* Every reachable state satisfies the invariant.
THEOREM Invariance == Spec => []IInv
<1>1. Init => IInv
  BY InitEstablishes
<1>2. IInv /\ [Next]_vars => IInv'
  <2> SUFFICES ASSUME IInv, [Next]_vars PROVE IInv'
    OBVIOUS
  <2>1. CASE Producer
    <3>1. CASE ProducerCall
      BY <3>1, CallEmplaceKeeps DEF ProducerCall
    <3>2. CASE CheckTail
      BY <3>2, CheckTailKeeps DEF CheckTail
    <3>3. CASE Construct
      BY <3>3, ConstructKeeps
    <3>4. CASE ConstructThrows
      BY <3>4, ConstructThrowsKeeps
    <3>5. CASE Publish
      BY <3>5, PublishKeeps
    <3>6. CASE ProducerSize
      BY <3>6, ProducerSizeKeeps
    <3> QED
      BY <2>1, <3>1, <3>2, <3>3, <3>4, <3>5, <3>6 DEF Producer, ProducerStep
  <2>2. CASE Consumer
    <3>1. CASE ConsumerCall
      BY <3>1, CallFrontKeeps DEF ConsumerCall
    <3>2. CASE CallPop
      BY <3>2, CallPopKeeps
    <3>3. CASE LoadHead
      BY <3>3, FrontNullKeeps, FrontItemKeeps DEF LoadHead
    <3>4. CASE Take
      BY <3>4, TakeKeeps
    <3>5. CASE PopAssert
      BY <3>5, PopAssertKeeps
    <3>6. CASE Destroy
      BY <3>6, DestroyKeeps
    <3>7. CASE Advance
      BY <3>7, AdvanceKeeps
    <3>8. CASE ConsumerEmpty
      BY <3>8, ConsumerEmptyKeeps
    <3> QED
      BY <2>2, <3>1, <3>2, <3>3, <3>4, <3>5, <3>6, <3>7, <3>8
      DEF Consumer, ConsumerStep
  <2>3. CASE BeginDestructor
    BY <2>3, BeginDestructorKeeps
  <2>4. CASE UNCHANGED vars
    BY <2>4 DEF vars, IInv, TypeOK, RingOrder, SlotsTrackIndices, Occupied,
                HuskOnlyAtTail, ProducerKnows, ConsumerKnows, DestructorAlone
  <2> QED
    BY <2>1, <2>2, <2>3, <2>4 DEF Next
<1> QED
  BY <1>1, <1>2, PTL DEF Spec

\* The state of the ring keeps its types: in particular head_ and tail_ stay
\* below Capacity and what leaves the queue is a value that entered it.
THEOREM TypeCorrect == Spec => []TypeOK
<1>1. IInv => TypeOK
  BY DEF IInv
<1> QED
  BY <1>1, Invariance, PTL

\* No slot is used by both threads, constructed twice, or read while raw.
THEOREM ExclusiveSlots == Spec => []SlotsAreExclusive
<1>1. IInv => SlotsAreExclusive
  <2> SUFFICES ASSUME IInv PROVE SlotsAreExclusive
    OBVIOUS
  <2>1. ppc = "construct" => slots[head] = Raw
    <3>1. head \in Indices /\ Dist(tail, head) \in Nat
      BY RingTypes DEF IInv, TypeOK
    <3>2. ppc = "construct" => ~Occupied(head)
      BY <3>1 DEF Occupied
    <3> QED
      BY <3>1, <3>2 DEF IInv, SlotsTrackIndices
  <2>2. cpc = "take" => slots[tail] \in Value
    BY OccupiedAtTail DEF IInv, TypeOK, HuskOnlyAtTail
  <2>3. cpc \in {"pop", "destroy"} => slots[tail] # Raw
    BY OccupiedAtTail
  <2>4. cpc \in {"take", "pop", "destroy"} => head # tail
    BY OccupiedAtTail
  <2> QED
    BY <2>1, <2>2, <2>3, <2>4 DEF SlotsAreExclusive
<1> QED
  BY <1>1, Invariance, PTL

\* The assert in pop() cannot fire, whichever value its load returns.
THEOREM PopIsSafe == Spec => []PopAssertHolds
<1>1. IInv => PopAssertHolds
  <2> SUFFICES ASSUME IInv, cpc = "pop", NEW h \in Visible(cHead, head) PROVE h # tail
    BY DEF PopAssertHolds
  <2> QED
    BY ConsumerLoad DEF IInv, ConsumerKnows
<1> QED
  BY <1>1, Invariance, PTL

\* The three together: what the run checks of the slots.
THEOREM SlotsCorrect == Spec => []SlotsInv
<1>1. TypeOK /\ SlotsAreExclusive /\ PopAssertHolds => SlotsInv
  BY DEF SlotsInv
<1> QED
  BY <1>1, TypeCorrect, ExclusiveSlots, PopIsSafe, PTL

\* After the destructor every slot is raw memory again.
THEOREM NoLeak == Spec => []NothingLeaks
<1>1. IInv => NothingLeaks
  <2> SUFFICES ASSUME IInv, phase = "closed", NEW i \in Indices PROVE slots[i] = Raw
    BY DEF NothingLeaks
  <2>1. ppc = "idle" /\ Dist(tail, head) = 0 /\ Dist(tail, i) \in Nat
    BY RingTypes DEF IInv, TypeOK, DestructorAlone
  <2> QED
    BY <2>1 DEF IInv, SlotsTrackIndices, Occupied
<1> QED
  BY <1>1, Invariance, PTL

\* A producer that saw room is not refused by its next try_emplace().
THEOREM RoomKept == Spec => RoomIsStable
<1>1. IInv /\ [Next]_vars => [sawRoom /\ ppc = "check" => ppc' \in {"check", "construct"}]_vars
  <2> SUFFICES ASSUME IInv, Next, sawRoom, ppc = "check"
               PROVE  ppc' \in {"check", "construct"}
    BY DEF vars
  <2>1. CASE Producer
    <3>1. ASSUME NEW t \in Visible(pTail, tail), SeeFull(t) PROVE FALSE
      BY <3>1, ProducerLoad DEF IInv, ProducerKnows, SeeFull
    <3>2. ASSUME NEW t \in Visible(pTail, tail), SeeRoom(t) PROVE ppc' = "construct"
      BY <3>2 DEF SeeRoom
    <3> QED
      BY <2>1, <3>1, <3>2
      DEF Producer, ProducerCall, ProducerStep, CallEmplace, CheckTail,
                              Construct, ConstructThrows, Publish, ProducerSize
  <2>2. CASE Consumer
    BY <2>2
    DEF Consumer, ConsumerCall, ConsumerStep, CallFront, CallPop, LoadHead,
                FrontNull, FrontItem, Take, PopAssert, Destroy, Advance,
                ConsumerEmpty, producerVars
  <2>3. CASE BeginDestructor
    BY <2>3 DEF BeginDestructor
  <2> QED
    BY <2>1, <2>2, <2>3 DEF Next
<1> QED
  BY <1>1, Invariance, PTL DEF Spec, RoomIsStable

-----------------------------------------------------------------------------
(* The ring implements the queue.                                          *)

\* Going k slots ahead.
LEMMA AheadIs ==
  ASSUME NEW i \in Indices, NEW k \in Nat, k < Capacity
  PROVE  Ahead(i, k) \in Indices /\ Dist(i, Ahead(i, k)) = k
  BY CapacityAssumption DEF Ahead, Indices, Dist

LEMMA AheadOfNext ==
  ASSUME NEW i \in Indices, NEW k \in Nat, k + 1 < Capacity
  PROVE  Ahead(NextIndex(i), k) = Ahead(i, k + 1)
  BY CapacityAssumption DEF Ahead, Indices, NextIndex

LEMMA AheadReaches ==
  ASSUME NEW i \in Indices, NEW j \in Indices
  PROVE  Ahead(i, Dist(i, j)) = j
  BY CapacityAssumption DEF Ahead, Indices, Dist

Slot == Value \cup {Raw, Husk}

\* The items between two places of a ring are a sequence.
LEMMA ItemsAre ==
  ASSUME NEW s \in [Indices -> Slot], NEW f \in Indices, NEW h \in Indices
  PROVE  /\ Items(s, f, h) \in Seq(Slot)
         /\ Len(Items(s, f, h)) = Dist(f, h) /\ Dist(f, h) \in Nat
         /\ \A k \in 1 .. Dist(f, h) : Items(s, f, h)[k] = s[Ahead(f, k - 1)]
<1> DEFINE n == Dist(f, h)
           c == Items(s, f, h)
<1>1. n \in Nat /\ n < Capacity /\ Capacity \in Nat
  BY RingTypes
<1>2. c = [k \in 1 .. n |-> s[Ahead(f, k - 1)]]
  BY DEF Items
<1> HIDE DEF n, c
<1>3. ASSUME NEW k \in 1 .. n PROVE s[Ahead(f, k - 1)] \in Slot
  <2>1. k - 1 \in Nat /\ k - 1 < Capacity
    BY <1>1, <1>3
  <2> QED
    BY <2>1, AheadIs
<1>4. c \in [1 .. n -> Slot] /\ DOMAIN c = 1 .. n
  BY <1>2, <1>3
<1>5. c \in Seq(Slot)
  BY <1>1, <1>4, SeqDef
<1>6. Len(c) = n
  BY <1>1, <1>4, <1>5, LenProperties
<1> QED
  BY <1>1, <1>2, <1>5, <1>6 DEF n, c

\* Two rings that differ outside the part in use hold the same items.
LEMMA ItemsStay ==
  ASSUME NEW s \in [Indices -> Slot], NEW r \in [Indices -> Slot],
         NEW f \in Indices, NEW h \in Indices,
         \A i \in Indices : Dist(f, i) < Dist(f, h) => r[i] = s[i]
  PROVE  Items(r, f, h) = Items(s, f, h)
<1>1. ASSUME NEW k \in 1 .. Dist(f, h) PROVE r[Ahead(f, k - 1)] = s[Ahead(f, k - 1)]
  <2>1. Dist(f, h) \in Nat /\ Dist(f, h) < Capacity /\ Capacity \in Nat
    BY RingTypes
  <2>2. k - 1 \in Nat /\ k - 1 < Capacity /\ k - 1 < Dist(f, h)
    BY <1>1, <2>1
  <2>3. Ahead(f, k - 1) \in Indices /\ Dist(f, Ahead(f, k - 1)) = k - 1
    BY <2>2, AheadIs
  <2> QED
    BY <2>2, <2>3
<1> QED
  BY <1>1 DEF Items

\* Storing head_ appends the item at its old place.
LEMMA ItemsGrow ==
  ASSUME NEW s \in [Indices -> Slot], NEW f \in Indices, NEW h \in Indices,
         NextIndex(h) # f
  PROVE  Items(s, f, NextIndex(h)) = Append(Items(s, f, h), s[h])
<1> DEFINE c == Items(s, f, h)
           d == Items(s, f, NextIndex(h))
           n == Dist(f, h)
<1>1. NextIndex(h) \in Indices /\ Dist(f, NextIndex(h)) = n + 1 /\ n \in Nat
  BY RingTypes, DistToNext
<1>2. c \in Seq(Slot) /\ Len(c) = n /\ \A k \in 1 .. n : c[k] = s[Ahead(f, k - 1)]
  BY ItemsAre
<1>3. d \in Seq(Slot) /\ Len(d) = n + 1 /\ \A k \in 1 .. n + 1 : d[k] = s[Ahead(f, k - 1)]
  BY <1>1, ItemsAre
<1>4. d[n + 1] = s[h]
  <2>1. Ahead(f, n) = h
    BY AheadReaches
  <2>2. (n + 1) - 1 = n /\ n + 1 \in 1 .. n + 1
    BY <1>1
  <2> QED
    BY <1>3, <2>1, <2>2
<1> HIDE DEF c, d, n
<1>5. s[h] \in Slot
  OBVIOUS
<1>6. /\ Append(c, s[h]) \in Seq(Slot) /\ Len(Append(c, s[h])) = n + 1
      /\ \A k \in 1 .. n : Append(c, s[h])[k] = c[k]
      /\ Append(c, s[h])[n + 1] = s[h]
  BY <1>2, <1>5, AppendProperties
<1>7. \A k \in 1 .. n + 1 : d[k] = Append(c, s[h])[k]
  <2> SUFFICES ASSUME NEW k \in 1 .. n + 1 PROVE d[k] = Append(c, s[h])[k]
    OBVIOUS
  <2>1. k \in 1 .. n \/ k = n + 1
    BY <1>1
  <2> QED
    BY <1>2, <1>3, <1>4, <1>6, <2>1
<1>8. d = Append(c, s[h])
  BY <1>3, <1>6, <1>7, SeqEqual
<1> QED
  BY <1>8 DEF c, d

\* Leaving the first slot takes the first item away.
LEMMA ItemsShrink ==
  ASSUME NEW s \in [Indices -> Slot], NEW r \in [Indices -> Slot],
         NEW f \in Indices, NEW h \in Indices, f # h,
         \A i \in Indices \ {f} : r[i] = s[i]
  PROVE  /\ Items(s, f, h) # <<>> /\ Head(Items(s, f, h)) = s[f]
         /\ Items(r, NextIndex(f), h) = Tail(Items(s, f, h))
<1> DEFINE c == Items(s, f, h)
           d == Items(r, NextIndex(f), h)
           n == Dist(f, h)
<1>1. /\ NextIndex(f) \in Indices /\ Dist(NextIndex(f), h) = n - 1
      /\ n \in Nat /\ n # 0 /\ n < Capacity /\ Capacity \in Nat
  BY RingTypes, DistFromNext
<1>2. c \in Seq(Slot) /\ Len(c) = n /\ \A k \in 1 .. n : c[k] = s[Ahead(f, k - 1)]
  BY ItemsAre
<1>3. d \in Seq(Slot) /\ Len(d) = n - 1 /\ \A k \in 1 .. n - 1 : d[k] = r[Ahead(NextIndex(f), k - 1)]
  <2>1. /\ d \in Seq(Slot) /\ Len(d) = Dist(NextIndex(f), h)
        /\ \A k \in 1 .. Dist(NextIndex(f), h) : d[k] = r[Ahead(NextIndex(f), k - 1)]
    BY <1>1, ItemsAre
  <2> QED
    BY <1>1, <2>1
<1>4. c[1] = s[f]
  <2>1. Ahead(f, 0) = f
    BY CapacityAssumption DEF Ahead, Indices
  <2>2. 1 \in 1 .. n /\ 1 - 1 = 0
    BY <1>1
  <2> QED
    BY <1>2, <2>1, <2>2
<1>5. ASSUME NEW k \in 1 .. n - 1 PROVE d[k] = c[k + 1]
  <2>1. k - 1 \in Nat /\ (k - 1) + 1 < Capacity /\ (k - 1) + 1 = k /\ k \in Nat /\ k < Capacity /\ k # 0
        /\ k + 1 \in 1 .. n /\ (k + 1) - 1 = k
    BY <1>1, <1>5
  <2>2. Ahead(NextIndex(f), k - 1) = Ahead(f, k)
    BY <2>1, AheadOfNext
  <2>3. Ahead(f, k) \in Indices /\ Dist(f, Ahead(f, k)) = k
    BY <2>1, AheadIs
  <2>4. Ahead(f, k) # f
    BY <2>1, <2>3, RingTypes
  <2>5. d[k] = r[Ahead(f, k)] /\ c[k + 1] = s[Ahead(f, k)]
    BY <1>2, <1>3, <2>1, <2>2
  <2> QED
    BY <2>3, <2>4, <2>5
<1> HIDE DEF c, d, n
<1>6. c # <<>>
  BY <1>1, <1>2, EmptySeq
<1>7. /\ Head(c) = c[1] /\ Tail(c) \in Seq(Slot) /\ Len(Tail(c)) = n - 1
      /\ \A k \in 1 .. n - 1 : Tail(c)[k] = c[k + 1]
  BY <1>2, <1>6, HeadTailProperties
<1>8. d = Tail(c)
  BY <1>1, <1>3, <1>5, <1>7, SeqEqual
<1> QED
  BY <1>4, <1>6, <1>7, <1>8 DEF c, d

\* The first item's slot, and the slots in use.
LEMMA FirstIs ==
  ASSUME IInv
  PROVE  /\ First \in Indices /\ (NextIndex(head) = First => NextIndex(head) = tail \/ head = tail)
         /\ slots \in [Indices -> Slot] /\ head \in Indices /\ tail \in Indices
         /\ NextIndex(tail) \in Indices
         /\ slots[tail] = Husk => cpc \in {"pop", "destroy"}
         /\ cpc \in {"take", "pop", "destroy", "advance"} => head # tail
<1>1. head \in Indices /\ tail \in Indices /\ NextIndex(tail) \in Indices /\ NextIndex(head) \in Indices
  BY RingTypes DEF IInv, TypeOK
<1>2. NextIndex(head) = NextIndex(tail) => head = tail
  BY <1>1, CapacityAssumption DEF NextIndex, Indices
<1>3. slots \in [Indices -> Slot]
  BY DEF IInv, TypeOK, Slot
<1>4. slots[tail] = Husk => cpc \in {"pop", "destroy"}
  BY <1>1 DEF IInv, HuskOnlyAtTail
<1>5. cpc \in {"take", "pop", "destroy", "advance"} => head # tail
  BY ItemBeforeHead DEF IInv, ConsumerKnows
<1>6. First \in Indices /\ (NextIndex(head) = First => NextIndex(head) = tail \/ head = tail)
  BY <1>1, <1>2 DEF First
<1> QED
  BY <1>1, <1>3, <1>4, <1>5, <1>6

\* A step that leaves the ring alone, and neither begins nor ends the time
\* between the destruction of an object and the store of tail_.
LEMMA Idles ==
  ASSUME UNCHANGED <<slots, head, tail, out>>, cpc' = "advance" <=> cpc = "advance"
  PROVE  UNCHANGED <<Contents, out>>
  BY DEF Contents, First

\* The construction is outside of the part in use.
LEMMA ConstructIdles ==
  ASSUME IInv, IInv', Construct
  PROVE  UNCHANGED <<Contents, out>>
<1>1. /\ ppc = "construct" /\ slots' = [slots EXCEPT ![head] = pVal]
      /\ UNCHANGED <<head, tail, cpc, out>>
  BY DEF Construct, consumerVars
<1>2. /\ First \in Indices /\ slots \in [Indices -> Slot] /\ head \in Indices /\ tail \in Indices
  BY FirstIs
<1>3. pVal \in Value /\ pVal # Husk
  BY <1>1, SlotAssumption DEF IInv, ProducerKnows
<1>4. slots' \in [Indices -> Slot]
  BY <1>1, <1>2, <1>3 DEF Slot
<1>5. slots[head] # Husk
  <2>1. ~Occupied(head)
    <3>1. Dist(tail, head) \in Nat
      BY <1>2, RingTypes
    <3> QED
      BY <1>1, <3>1 DEF Occupied
  <2> QED
    BY <1>2, <2>1, SlotAssumption DEF IInv, SlotsTrackIndices
<1>6. slots'[tail] = Husk <=> slots[tail] = Husk
  BY <1>1, <1>2, <1>3, <1>5
<1>7. First' = First
  BY <1>1, <1>6 DEF First
<1>8. \A i \in Indices : Dist(First, i) < Dist(First, head) => slots'[i] = slots[i]
  <2>1. Dist(First, head) \in Nat
    BY <1>2, RingTypes
  <2> QED
    BY <1>1, <1>2, <2>1
<1>9. Items(slots', First, head) = Items(slots, First, head)
  BY <1>2, <1>4, <1>8, ItemsStay
<1> QED
  BY <1>1, <1>7, <1>9 DEF Contents

\* The store of head_ puts the item in.
LEMMA PublishPuts ==
  ASSUME IInv, Publish
  PROVE  \E v \in Value : Fifo!Put(v)
<1>1. ppc = "publish" /\ head' = NextIndex(head) /\ UNCHANGED <<slots, tail, cpc, out>>
  BY DEF Publish, consumerVars
<1>2. /\ First \in Indices /\ (NextIndex(head) = First => NextIndex(head) = tail \/ head = tail)
      /\ slots \in [Indices -> Slot] /\ head \in Indices /\ tail \in Indices
      /\ slots[tail] = Husk => cpc \in {"pop", "destroy"}
      /\ cpc \in {"take", "pop", "destroy", "advance"} => head # tail
  BY FirstIs
<1>3. NextIndex(head) # tail
  BY <1>1, RoomBeforeTail DEF IInv, ProducerKnows
<1>4. NextIndex(head) # First
  BY <1>2, <1>3 DEF First
<1>5. slots[head] \in Value
  <2>1. slots[head] # Raw
    BY <1>1, <1>2 DEF IInv, SlotsTrackIndices, Occupied
  <2>2. slots[head] # Husk
    BY <1>2 DEF IInv, HuskOnlyAtTail
  <2> QED
    BY <1>2, <2>1, <2>2 DEF Slot
<1>6. First' = First
  BY <1>1 DEF First
<1>7. Contents' = Append(Contents, slots[head])
  BY <1>1, <1>2, <1>4, <1>6, ItemsGrow DEF Contents
<1>8. Len(Contents) < Capacity - 1
  <2>1. Len(Contents) = Dist(First, head)
    BY <1>2, ItemsAre DEF Contents
  <2>2. Dist(First, head) < Capacity - 1
    BY <1>2, <1>4, RoomIsDistance
  <2> QED
    BY <2>1, <2>2
<1> QED
  BY <1>1, <1>5, <1>7, <1>8 DEF Fifo!Put

\* The object at tail is handed over: what follows it is what remains.
LEMMA HandsOver ==
  ASSUME IInv, IInv', cpc \in {"take", "destroy"}, slots[tail] # Husk,
         NEW left \in {Raw, Husk}, slots' = [slots EXCEPT ![tail] = left],
         cpc' = "advance" \/ left = Husk, UNCHANGED <<head, tail>>, out' = slots[tail]
  PROVE  Fifo!Take
<1>1. /\ slots \in [Indices -> Slot] /\ head \in Indices /\ tail \in Indices /\ head # tail
  BY FirstIs
<1>2. PICK r \in [Indices -> Slot] : r = slots' /\ r[tail] = left /\ \A i \in Indices \ {tail} : r[i] = slots[i]
  <2>1. slots' \in [Indices -> Slot] /\ slots'[tail] = left /\ \A i \in Indices \ {tail} : slots'[i] = slots[i]
    BY <1>1 DEF Slot
  <2> QED
    BY <2>1
<1>3. First = tail
  BY DEF First
<1>4. First' = NextIndex(tail)
  BY <1>2 DEF First
<1>5. \A i \in Indices \ {tail} : r[i] = slots[i]
  BY <1>2
<1>6. /\ Items(slots, tail, head) # <<>> /\ Head(Items(slots, tail, head)) = slots[tail]
      /\ Items(r, NextIndex(tail), head) = Tail(Items(slots, tail, head))
  BY <1>1, <1>5, ItemsShrink
<1>7. Contents = Items(slots, tail, head) /\ Contents' = Items(r, NextIndex(tail), head)
  BY <1>2, <1>3, <1>4 DEF Contents
<1> QED
  BY <1>6, <1>7 DEF Fifo!Take

\* The move and the destruction.
LEMMA TakeTakes ==
  ASSUME IInv, IInv', Take
  PROVE  Fifo!Take
<1>1. /\ cpc = "take" /\ out' = slots[tail] /\ slots' = [slots EXCEPT ![tail] = Husk]
      /\ cpc' = "pop" /\ UNCHANGED <<head, tail>>
  BY DEF Take
<1>2. slots[tail] # Husk
  BY <1>1, FirstIs
<1> QED
  BY <1>1, <1>2, HandsOver

LEMMA DestroyTakes ==
  ASSUME IInv, IInv', Destroy
  PROVE  Fifo!Take \/ UNCHANGED <<Contents, out>>
<1>1. /\ cpc = "destroy" /\ out' = (IF slots[tail] = Husk THEN out ELSE slots[tail])
      /\ slots' = [slots EXCEPT ![tail] = Raw]
      /\ cpc' = "advance" /\ UNCHANGED <<head, tail>>
  BY DEF Destroy
<1>2. CASE slots[tail] # Husk
  BY <1>1, <1>2, HandsOver
<1>3. CASE slots[tail] = Husk
  <2>1. /\ slots \in [Indices -> Slot] /\ head \in Indices /\ tail \in Indices /\ NextIndex(tail) \in Indices
        /\ head # tail
    BY <1>1, FirstIs
  <2>2. slots' \in [Indices -> Slot] /\ \A i \in Indices \ {tail} : slots'[i] = slots[i]
    BY <1>1, <2>1 DEF Slot
  <2>3. First = NextIndex(tail) /\ First' = NextIndex(tail)
    BY <1>1, <1>3 DEF First
  <2>4. \A i \in Indices : Dist(NextIndex(tail), i) < Dist(NextIndex(tail), head) => slots'[i] = slots[i]
    <3>1. ~(Dist(NextIndex(tail), tail) < Dist(NextIndex(tail), head))
      BY <2>1, CapacityAssumption DEF Dist, NextIndex, Indices
    <3> QED
      BY <2>2, <3>1
  <2>5. Items(slots', NextIndex(tail), head) = Items(slots, NextIndex(tail), head)
    BY <2>1, <2>2, <2>4, ItemsStay
  <2> QED
    BY <1>1, <1>3, <2>3, <2>5 DEF Contents
<1> QED
  BY <1>2, <1>3

\* The store of tail_ comes after the object has left.
LEMMA AdvanceIdles ==
  ASSUME IInv, IInv', Advance
  PROVE  UNCHANGED <<Contents, out>>
<1>1. /\ cpc = "advance" /\ tail' = NextIndex(tail) /\ cpc' \in {"front", "idle"}
      /\ UNCHANGED <<slots, head, out>>
  BY DEF Advance
<1>2. slots'[tail'] # Husk
  <2>1. tail' \in Indices
    BY DEF IInv, TypeOK
  <2> QED
    BY <1>1, <2>1 DEF IInv, HuskOnlyAtTail
<1>3. First = NextIndex(tail) /\ First' = NextIndex(tail)
  BY <1>1, <1>2 DEF First
<1> QED
  BY <1>1, <1>3 DEF Contents

\* For every capacity the ring is a first-in first-out buffer of Capacity - 1
\* items: an object enters with the store of head_ and leaves when blocking_pop()
\* moves it out or pop() destroys it, and nobody sees the slots between.
THEOREM RingIsAFifo == Spec => ImplementsFifo
<1>1. Init => Fifo!Init
  <2> SUFFICES ASSUME Init PROVE Fifo!Init
    OBVIOUS
  <2>1. /\ First \in Indices /\ slots \in [Indices -> Slot] /\ head \in Indices
    BY InitEstablishes, FirstIs
  <2>2. First = 0 /\ head = 0 /\ out = None
    <3>1. 0 \in Indices
      BY CapacityAssumption DEF Indices
    <3> QED
      BY <3>1, SlotAssumption DEF Init, First
  <2>3. Len(Contents) = 0 /\ Contents \in Seq(Slot)
    <3>1. Dist(First, head) = 0
      BY <2>1, <2>2, RingTypes
    <3> QED
      BY <2>1, <3>1, ItemsAre DEF Contents
  <2>4. Contents = <<>>
    BY <2>3, EmptySeq
  <2> QED
    BY <2>2, <2>4 DEF Fifo!Init
<1>2. IInv /\ IInv' /\ [Next]_vars => [Fifo!Next]_Fifo!vars
  <2> SUFFICES ASSUME IInv, IInv', [Next]_vars, ~UNCHANGED <<Contents, out>> PROVE Fifo!Next
    BY DEF Fifo!vars
  <2>1. Construct \/ Publish \/ Take \/ Destroy \/ Advance
    <3> SUFFICES ASSUME ~(Construct \/ Publish \/ Take \/ Destroy \/ Advance)
                 PROVE  UNCHANGED <<slots, head, tail, out>> /\ (cpc' = "advance" <=> cpc = "advance")
      BY Idles
    <3>1. CASE Producer
      BY <3>1 DEF Producer, ProducerCall, ProducerStep, CallEmplace, CheckTail, SeeRoom, SeeFull,
                  ConstructThrows, ProducerSize, consumerVars
    <3>2. CASE Consumer
      BY <3>2 DEF Consumer, ConsumerCall, ConsumerStep, CallFront, CallPop, LoadHead, FrontNull,
                  FrontItem, PopAssert, ConsumerEmpty
    <3>3. CASE BeginDestructor
      BY <3>3 DEF BeginDestructor
    <3>4. CASE UNCHANGED vars
      BY <3>4 DEF vars
    <3> QED
      BY <3>1, <3>2, <3>3, <3>4 DEF Next
  <2>2. Publish \/ Fifo!Take
    BY <2>1, ConstructIdles, TakeTakes, DestroyTakes, AdvanceIdles
  <2> QED
    BY <2>2, PublishPuts DEF Fifo!Next
<1> QED
  BY <1>1, <1>2, Invariance, PTL DEF Spec, ImplementsFifo, Fifo!Spec
=============================================================================
