--------------------------- MODULE TimeEvent_proofs ---------------------------
(***************************************************************************)
(* TimeEvent, proved for every m_tick, every number of events, every       *)
(* lateness of the thread and every setting of the clock: the arithmetic   *)
(* of its drift, then the walk that calls each event on its own tick.      *)
(* Last come AutoEvent and ManualEvent, for any number of threads.         *)
(***************************************************************************)
EXTENDS TimeEvent, Event, FiniteSetTheorems, SequenceTheorems, TLAPS

Phases == {"measured", "waiting", "visit", "checked", "running", "exited"}

TimingType ==
  /\ tpc \in Phases
  /\ lag \in Int /\ remaining \in Int /\ drift \in Int
  /\ offset \in Int /\ read \in Int /\ stall \in Nat

\* What has gone by since the clock was read is the stall, and nothing else.
DriftIsKnown == tpc = "measured" => lag + read = drift + stall

TInv == TimingType /\ DriftIsKnown /\ WaitMakesUpForDrift /\ PassNeverEarly

\* The thread begins with no drift and the clock where it was read.
LEMMA TInvInit == Init => TInv
BY TickAssumption DEF Init, TInv, TimingType, DriftIsKnown, WaitMakesUpForDrift,
   PassNeverEarly, InPass, Phases

\* The users change nothing of the thread's timing.
UserStep ==
  \E h \in Handles :
    \/ \E delay \in Delays, repeats \in BOOLEAN : SetByUser(h, delay, repeats)
    \/ \E delay \in CallbackDelays, repeats \in BOOLEAN : SetByCallback(h, delay, repeats)
    \/ Cancel(h)

\* Setting and cancelling events, in a callback too, touches none of the timing
\* variables.
LEMMA UserKeepsTiming == UserStep \/ Destroy => UNCHANGED <<tpc, timing, offset>>
BY DEF UserStep, SetByUser, SetByCallback, Cancel, Destroy, timing, bounds

\* Time, the clock's jumps, the thread and the users keep the invariant.
LEMMA TInvStep == TInv /\ [Next]_vars => TInv'
<1> SUFFICES ASSUME TInv, [Next]_vars PROVE TInv'
  OBVIOUS
<1> USE TickAssumption
        DEF TInv, TimingType, DriftIsKnown, WaitMakesUpForDrift, PassNeverEarly,
            InPass, Phases
<1>1. CASE Elapse
  BY <1>1 DEF Elapse
<1>2. CASE \E jump \in Jumps : SetClock(jump)
  <2>1. PICK jump \in Jumps : SetClock(jump)
    BY <1>2
  <2>2. jump \in Int
    BY ClockAssumption
  <2> QED
    BY <2>1, <2>2 DEF SetClock, timing
<1>3. CASE StartWait
  BY <1>3 DEF StartWait
<1>4. CASE StopSeen
  BY <1>4 DEF StopSeen, timing
<1>5. CASE Wake
  BY <1>5 DEF Wake
<1>6. CASE Visit
  <2>1. /\ tpc = "visit" /\ tpc' \in {"visit", "checked"}
        /\ UNCHANGED <<timing, offset>>
    BY <1>6 DEF Visit
  <2> QED
    BY <2>1 DEF timing
<1>7. CASE CallBack
  BY <1>7 DEF CallBack, timing
<1>8. CASE Finish
  <2>1. tpc = "running" /\ tpc' = "visit" /\ UNCHANGED <<timing, offset>>
    BY <1>8 DEF Finish
  <2> QED
    BY <2>1 DEF timing
<1>9. CASE Measure
  BY <1>9 DEF Measure
<1>10. CASE UserStep \/ Destroy
  BY <1>10, UserKeepsTiming DEF timing
<1>11. CASE UNCHANGED vars
  BY <1>11 DEF vars, timing
<1> QED
  BY <1>1, <1>2, <1>3, <1>4, <1>5, <1>6, <1>7, <1>8, <1>9, <1>10, <1>11
     DEF Next, ThreadStep, UserStep

\* Every reachable state satisfies the invariant, for every tick, every lateness
\* of the thread and every setting of the clock.
THEOREM Invariance == Spec => []TInv
<1> QED
  BY TInvInit, TInvStep, PTL DEF Spec

\* For every tick and every schedule a walk of the set begins at its tick or
\* later, by the clock as the thread last read it.
THEOREM NeverEarly == Spec => []PassNeverEarly
<1>1. TInv => PassNeverEarly
  BY DEF TInv
<1> QED
  BY <1>1, Invariance, PTL

\* For every tick and every schedule the wait ends on the next tick plus what
\* was lost in this round: the drift does not accumulate over the rounds.
THEOREM DriftIsMadeUpFor == Spec => []WaitMakesUpForDrift
<1>1. TInv => WaitMakesUpForDrift
  BY DEF TInv
<1> QED
  BY <1>1, Invariance, PTL

-----------------------------------------------------------------------------
(* The events.                                                             *)

\* The walk under way has counted event i.
Counted(i) == i < it \/ (tpc \in {"checked", "running"} /\ i = it)

\* From which lag the ticks of event i are counted: a walk that has still to
\* come by has taken its tick off the lag already.
Base(i) == IF InPass /\ ~Counted(i) THEN lag + Tick ELSE lag

OnTime(e, base) == e.age = e.elapsed * Tick + base - e.since

\* The handles of a sequence of events, no two of which have the same.
HandlesOf(s) == {s[i].handle : i \in 1 .. Len(s)}
Distinct(s) ==
  /\ \A i, j \in 1 .. Len(s) : s[i].handle = s[j].handle => i = j
  /\ IsFiniteSet(HandlesOf(s)) /\ Cardinality(HandlesOf(s)) = Len(s)

\* A call that comes after cancel() is one that was about to begin.
LateOnce(e) == e.late <= 1 /\ (e.late > 0 => e.cancelled)

IteratorFits ==
  /\ InPass => it \in 1 .. Len(events) + 1
  /\ tpc \in {"checked", "running"} => it <= Len(events)

CalledWhenDue ==
  /\ tpc \in {"checked", "running"} => events[it].elapsed = events[it].ticks
  /\ tpc = "checked" => events[it].late = 0

BoundsFit == stop \in BOOLEAN /\ calls \in 0 .. MaxCalls /\ jumps \in 0 .. MaxJumps

EInv ==
  /\ TimingType /\ BoundsFit
  /\ events \in Seq(EventRecord) /\ Distinct(events)
  /\ IteratorFits /\ CalledWhenDue
  /\ \A i \in 1 .. Len(events) : OnTime(events[i], Base(i)) /\ LateOnce(events[i])

LEMMA TickTimes ==
  ASSUME NEW n \in Nat
  PROVE  /\ n * Tick \in Int /\ (n + 1) * Tick = n * Tick + Tick /\ 0 * Tick = 0
  BY TickAssumption

LEMMA DelayTicks ==
  ASSUME NEW d \in Nat, d >= Tick
  PROVE  d \div Tick \in Nat \ {0}
  BY TickAssumption

\* What RemoveAt leaves.
LEMMA RemoveIs ==
  ASSUME NEW S, NEW s \in Seq(S), NEW i \in 1 .. Len(s)
  PROVE  /\ RemoveAt(s, i) \in Seq(S) /\ Len(RemoveAt(s, i)) = Len(s) - 1
         /\ \A j \in 1 .. Len(s) - 1 : RemoveAt(s, i)[j] = IF j < i THEN s[j] ELSE s[j + 1]
<1> DEFINE a == SubSeq(s, 1, i - 1)
           b == SubSeq(s, i + 1, Len(s))
<1>1. Len(s) \in Nat /\ i \in Int
  OBVIOUS
<1>2. a \in Seq(S) /\ Len(a) = i - 1 /\ \A j \in 1 .. i - 1 : a[j] = s[j]
  OBVIOUS
<1>3. b \in Seq(S) /\ Len(b) = Len(s) - i /\ \A j \in 1 .. Len(s) - i : b[j] = s[i + j]
  OBVIOUS
<1>4. RemoveAt(s, i) = a \o b
  BY DEF RemoveAt
<1> HIDE DEF a, b
<1>5. /\ a \o b \in Seq(S) /\ Len(a \o b) = Len(s) - 1
      /\ \A j \in 1 .. Len(s) - 1 : (a \o b)[j] = IF j <= i - 1 THEN a[j] ELSE b[j - (i - 1)]
  <2>1. /\ a \o b \in Seq(S) /\ Len(a \o b) = Len(a) + Len(b)
        /\ \A j \in 1 .. Len(a) + Len(b) : (a \o b)[j] = IF j <= Len(a) THEN a[j] ELSE b[j - Len(a)]
    BY <1>2, <1>3, ConcatProperties
  <2>2. Len(a) + Len(b) = Len(s) - 1
    BY <1>1, <1>2, <1>3
  <2> QED
    BY <1>2, <2>1, <2>2
<1>6. ASSUME NEW j \in 1 .. Len(s) - 1
      PROVE  (a \o b)[j] = IF j < i THEN s[j] ELSE s[j + 1]
  <2>1. CASE j < i
    BY <1>1, <1>2, <1>5, <2>1
  <2>2. CASE ~(j < i)
    <3>1. j - (i - 1) \in 1 .. Len(s) - i /\ i + (j - (i - 1)) = j + 1 /\ ~(j <= i - 1)
      BY <1>1, <2>2
    <3> QED
      BY <1>3, <1>5, <2>2, <3>1
  <2> QED
    BY <2>1, <2>2
<1> QED
  BY <1>4, <1>5, <1>6

-----------------------------------------------------------------------------
(* Handles.                                                                *)

LEMMA DistinctStays ==
  ASSUME NEW s \in Seq(EventRecord), NEW r \in Seq(EventRecord), Distinct(s), Len(r) = Len(s),
         \A i \in 1 .. Len(s) : r[i].handle = s[i].handle
  PROVE  Distinct(r)
<1>1. HandlesOf(r) = HandlesOf(s)
  BY DEF HandlesOf
<1> QED
  BY <1>1 DEF Distinct

LEMMA DistinctAppend ==
  ASSUME NEW s \in Seq(EventRecord), NEW e \in EventRecord, Distinct(s), e.handle \notin HandlesOf(s)
  PROVE  Distinct(Append(s, e))
<1> DEFINE r == Append(s, e)
<1>1. /\ r \in Seq(EventRecord) /\ Len(r) = Len(s) + 1 /\ r[Len(s) + 1] = e /\ Len(s) \in Nat
      /\ \A i \in 1 .. Len(s) : r[i] = s[i]
  OBVIOUS
<1> HIDE DEF r
<1>2. HandlesOf(r) = HandlesOf(s) \cup {e.handle}
  <2>1. ASSUME NEW h \in HandlesOf(r) PROVE h \in HandlesOf(s) \cup {e.handle}
    <3>1. PICK i \in 1 .. Len(s) + 1 : h = r[i].handle
      BY <1>1, <2>1 DEF HandlesOf
    <3>2. i \in 1 .. Len(s) \/ i = Len(s) + 1
      BY <1>1
    <3> QED
      BY <1>1, <3>1, <3>2 DEF HandlesOf
  <2>2. ASSUME NEW h \in HandlesOf(s) PROVE h \in HandlesOf(r)
    <3>1. PICK i \in 1 .. Len(s) : h = s[i].handle
      BY <2>2 DEF HandlesOf
    <3>2. i \in 1 .. Len(r) /\ r[i] = s[i]
      BY <1>1
    <3> QED
      BY <3>1, <3>2 DEF HandlesOf
  <2>3. e.handle \in HandlesOf(r)
    <3>1. Len(s) + 1 \in 1 .. Len(r)
      BY <1>1
    <3> QED
      BY <1>1, <3>1 DEF HandlesOf
  <2> QED
    BY <2>1, <2>2, <2>3
<1>3. IsFiniteSet(HandlesOf(r)) /\ Cardinality(HandlesOf(r)) = Len(r)
  <2>1. PICK H, x : H = HandlesOf(s) /\ x = e.handle
    OBVIOUS
  <2>2. IsFiniteSet(H) /\ Cardinality(H) = Len(s) /\ x \notin H /\ HandlesOf(r) = H \cup {x}
    BY <1>2, <2>1 DEF Distinct
  <2>3. IsFiniteSet(H \cup {x}) /\ Cardinality(H \cup {x}) = Cardinality(H) + 1
    BY <2>2, FS_AddElement
  <2> QED
    BY <1>1, <2>2, <2>3
<1>4. ASSUME NEW i \in 1 .. Len(r), NEW j \in 1 .. Len(r), r[i].handle = r[j].handle
      PROVE  i = j
  <2>1. (i \in 1 .. Len(s) \/ i = Len(s) + 1) /\ (j \in 1 .. Len(s) \/ j = Len(s) + 1)
    BY <1>1
  <2>2. \A k \in 1 .. Len(s) : r[k].handle # e.handle
    BY <1>1 DEF HandlesOf
  <2> QED
    BY <1>1, <1>4, <2>1, <2>2 DEF Distinct
<1> QED
  BY <1>3, <1>4 DEF Distinct, r

LEMMA DistinctRemove ==
  ASSUME NEW s \in Seq(EventRecord), NEW k \in 1 .. Len(s), Distinct(s)
  PROVE  Distinct(RemoveAt(s, k))
<1> DEFINE r == RemoveAt(s, k)
<1>1. /\ r \in Seq(EventRecord) /\ Len(r) = Len(s) - 1 /\ Len(s) \in Nat
      /\ \A j \in 1 .. Len(s) - 1 : r[j] = IF j < k THEN s[j] ELSE s[j + 1]
  <2>1. Len(s) \in Nat
    OBVIOUS
  <2>2. PICK S : S = EventRecord
    OBVIOUS
  <2>3. s \in Seq(S)
    BY <2>2
  <2>4. /\ RemoveAt(s, k) \in Seq(S) /\ Len(RemoveAt(s, k)) = Len(s) - 1
        /\ \A j \in 1 .. Len(s) - 1 : RemoveAt(s, k)[j] = IF j < k THEN s[j] ELSE s[j + 1]
    BY <2>3, RemoveIs
  <2> QED
    BY <2>1, <2>2, <2>4
<1> HIDE DEF r
<1>2. HandlesOf(r) = HandlesOf(s) \ {s[k].handle}
  <2>1. ASSUME NEW h \in HandlesOf(r) PROVE h \in HandlesOf(s) /\ h # s[k].handle
    <3>1. PICK i \in 1 .. Len(s) - 1 : h = r[i].handle
      BY <1>1, <2>1 DEF HandlesOf
    <3>2. PICK j \in 1 .. Len(s) : j # k /\ h = s[j].handle
      <4>1. CASE i < k
        <5>1. i \in 1 .. Len(s) /\ i # k /\ r[i] = s[i]
          BY <1>1, <4>1
        <5> QED
          BY <3>1, <5>1
      <4>2. CASE ~(i < k)
        <5>1. i + 1 \in 1 .. Len(s) /\ i + 1 # k
          BY <1>1, <4>2
        <5>2. r[i] = s[i + 1]
          BY <1>1, <4>2
        <5>3. PICK j \in 1 .. Len(s) : j = i + 1
          BY <5>1
        <5>4. j # k /\ h = s[j].handle
          BY <3>1, <5>1, <5>2, <5>3
        <5> QED
          BY <5>4
      <4> QED
        BY <4>1, <4>2
    <3> QED
      BY <3>2 DEF HandlesOf, Distinct
  <2>2. ASSUME NEW h \in HandlesOf(s), h # s[k].handle PROVE h \in HandlesOf(r)
    <3>1. PICK i \in 1 .. Len(s) : h = s[i].handle
      BY <2>2 DEF HandlesOf
    <3>2. i # k
      BY <2>2, <3>1
    <3>3. PICK j \in 1 .. Len(r) : r[j] = s[i]
      <4>1. CASE i < k
        BY <1>1, <4>1
      <4>2. CASE i > k
        <5>1. i - 1 \in 1 .. Len(s) - 1 /\ ~(i - 1 < k) /\ (i - 1) + 1 = i
          BY <1>1, <4>2
        <5> QED
          BY <1>1, <5>1
      <4> QED
        BY <3>2, <4>1, <4>2
    <3> QED
      BY <3>1, <3>3 DEF HandlesOf
  <2> QED
    BY <2>1, <2>2
<1>3. IsFiniteSet(HandlesOf(r)) /\ Cardinality(HandlesOf(r)) = Len(r)
  <2>1. s[k].handle \in HandlesOf(s)
    BY DEF HandlesOf
  <2>2. PICK H, x : H = HandlesOf(s) /\ x = s[k].handle
    OBVIOUS
  <2>3. IsFiniteSet(H) /\ Cardinality(H) = Len(s) /\ x \in H /\ HandlesOf(r) = H \ {x}
    BY <1>2, <2>1, <2>2 DEF Distinct
  <2>4. IsFiniteSet(H \ {x}) /\ Cardinality(H \ {x}) = Cardinality(H) - 1
    BY <2>3, FS_RemoveElement
  <2> QED
    BY <1>1, <2>3, <2>4
<1>4. ASSUME NEW i \in 1 .. Len(r), NEW j \in 1 .. Len(r), r[i].handle = r[j].handle
      PROVE  i = j
  <2>1. /\ i \in 1 .. Len(s) - 1 /\ i + 1 \in 1 .. Len(s) /\ i \in 1 .. Len(s)
        /\ j \in 1 .. Len(s) - 1 /\ j + 1 \in 1 .. Len(s) /\ j \in 1 .. Len(s)
    BY <1>1
  <2>2. r[i] = (IF i < k THEN s[i] ELSE s[i + 1]) /\ r[j] = (IF j < k THEN s[j] ELSE s[j + 1])
    BY <1>1, <2>1
  <2>3. (IF i < k THEN i ELSE i + 1) = (IF j < k THEN j ELSE j + 1)
    BY <1>4, <2>1, <2>2 DEF Distinct
  <2> QED
    BY <2>1, <2>3
<1> QED
  BY <1>3, <1>4 DEF Distinct, r

-----------------------------------------------------------------------------
(* The invariant of the events.                                            *)

LEMMA EInvInit == Init => EInv
<1> SUFFICES ASSUME Init PROVE EInv
  OBVIOUS
<1>1. /\ events = <<>> /\ it = 1 /\ tpc = "measured" /\ lag = 0 /\ remaining = 0 /\ drift = 0
      /\ offset = 0 /\ read = 0 /\ stall = 0 /\ stop = FALSE /\ calls = MaxCalls /\ jumps = MaxJumps
  BY DEF Init
<1>2. events \in Seq(EventRecord) /\ Len(events) = 0
  BY <1>1
<1>3. Distinct(events)
  <2>1. HandlesOf(events) = {}
    BY <1>2 DEF HandlesOf
  <2> QED
    BY <1>2, <2>1, FS_EmptySet DEF Distinct
<1>4. TimingType /\ BoundsFit
  <2>1. TimingType
    BY <1>1 DEF TimingType, Phases
  <2>2. stop \in BOOLEAN
    BY <1>1
  <2>3. calls \in 0 .. MaxCalls /\ jumps \in 0 .. MaxJumps
    BY <1>1, ClockAssumption
  <2> QED
    BY <2>1, <2>2, <2>3 DEF BoundsFit
<1>5. IteratorFits /\ CalledWhenDue
  BY <1>1 DEF IteratorFits, CalledWhenDue, InPass
<1> QED
  BY <1>2, <1>3, <1>4, <1>5 DEF EInv

\* What a step has to show when TInv covers the timing.
LEMMA Kept ==
  ASSUME TimingType', BoundsFit', events' \in Seq(EventRecord), Distinct(events'),
         IteratorFits', CalledWhenDue',
         \A i \in 1 .. Len(events') : OnTime(events'[i], Base(i)') /\ LateOnce(events'[i])
  PROVE  EInv'
  BY DEF EInv

LEMMA Fields ==
  ASSUME NEW e \in EventRecord
  PROVE  /\ e.elapsed \in Nat /\ e.age \in Nat /\ e.since \in Int /\ e.late \in 0 .. 2
         /\ e.ticks \in Nat /\ e.elapsed + 1 \in Nat
  BY DEF EventRecord

\* What keeps an event on time: growing older as time goes on, being counted
\* for the tick that was taken off the lag, and beginning anew.
LEMMA OnTimeOlder ==
  ASSUME NEW e \in EventRecord, NEW r \in EventRecord, NEW b \in Int, OnTime(e, b),
         r.age = e.age + 1, r.elapsed = e.elapsed, r.since = e.since
  PROVE  OnTime(r, b + 1)
<1>1. PICK m \in Int : m = e.elapsed * Tick
  BY TickTimes DEF EventRecord
<1>2. e.since \in Int /\ e.age \in Nat
  BY DEF EventRecord
<1> QED
  BY <1>1, <1>2 DEF OnTime

LEMMA OnTimeCounted ==
  ASSUME NEW e \in EventRecord, NEW r \in EventRecord, NEW b \in Int, OnTime(e, b + Tick),
         r.age = e.age, r.elapsed = e.elapsed + 1, r.since = e.since
  PROVE  OnTime(r, b)
<1>1. PICK m \in Int : m = e.elapsed * Tick /\ (e.elapsed + 1) * Tick = m + Tick
  BY TickTimes DEF EventRecord
<1>2. e.since \in Int /\ e.age \in Nat
  BY DEF EventRecord
<1> QED
  BY <1>1, <1>2, TickAssumption DEF OnTime

LEMMA OnTimeAnew ==
  ASSUME NEW r \in EventRecord, NEW b \in Int, r.age = 0, r.elapsed = 0, r.since = b
  PROVE  OnTime(r, b)
<1>1. 0 * Tick = 0
  BY TickTimes
<1> QED
  BY <1>1 DEF OnTime

LEMMA OnTimeSame ==
  ASSUME NEW e \in EventRecord, NEW r \in EventRecord, NEW b \in Int, OnTime(e, b),
         r.age = e.age, r.elapsed = e.elapsed, r.since = e.since
  PROVE  OnTime(r, b)
  BY DEF OnTime

\* One more late call, at most.
LEMMA OneLate ==
  ASSUME NEW e \in EventRecord, NEW n \in {0, 1}
  PROVE  [e EXCEPT !.late = n] \in EventRecord
<1>1. n \in 0 .. 2
  OBVIOUS
<1> QED
  BY <1>1 DEF EventRecord

\* Growing older leaves the rest of an event alone.
LEMMA OlderIs ==
  ASSUME NEW e \in EventRecord
  PROVE  /\ Older(e) \in EventRecord /\ Older(e).age = e.age + 1 /\ Older(e).elapsed = e.elapsed
         /\ Older(e).since = e.since /\ Older(e).late = e.late
         /\ Older(e).cancelled = e.cancelled /\ Older(e).ticks = e.ticks
         /\ Older(e).handle = e.handle
<1>1. PICK n \in Nat : n = e.age + 1
  BY DEF EventRecord
<1>2. Older(e) = [e EXCEPT !.age = n]
  BY <1>1 DEF Older
<1>3. [e EXCEPT !.age = n] \in EventRecord
  BY DEF EventRecord
<1>4. /\ [e EXCEPT !.age = n].age = n /\ [e EXCEPT !.age = n].elapsed = e.elapsed
      /\ [e EXCEPT !.age = n].since = e.since /\ [e EXCEPT !.age = n].late = e.late
      /\ [e EXCEPT !.age = n].ticks = e.ticks /\ [e EXCEPT !.age = n].handle = e.handle
  BY DEF EventRecord
<1>5. [e EXCEPT !.age = n].cancelled = e.cancelled
  BY DEF EventRecord
<1> QED
  BY <1>1, <1>2, <1>3, <1>4, <1>5

LEMMA ElapseKeeps ==
  ASSUME EInv, TimingType', Elapse
  PROVE  EInv'
<1>1. /\ lag' = lag + 1 /\ UNCHANGED <<tpc, it, stop, calls, jumps>>
      /\ events' = [i \in 1 .. Len(events) |-> Older(events[i])]
  BY DEF Elapse, bounds
<1>2. events \in Seq(EventRecord) /\ Len(events) \in Nat /\ \A i \in 1 .. Len(events) : events[i] \in EventRecord
  BY DEF EInv
<1>3. ASSUME NEW i \in 1 .. Len(events)
      PROVE  /\ Older(events[i]) \in EventRecord
             /\ Older(events[i]).age = events[i].age + 1 /\ Older(events[i]).elapsed = events[i].elapsed
             /\ Older(events[i]).since = events[i].since /\ Older(events[i]).late = events[i].late
             /\ Older(events[i]).cancelled = events[i].cancelled /\ Older(events[i]).ticks = events[i].ticks
             /\ Older(events[i]).handle = events[i].handle
  BY <1>2, OlderIs
<1>4. /\ events' \in Seq(EventRecord) /\ Len(events') = Len(events)
      /\ \A i \in 1 .. Len(events) : events'[i] = Older(events[i])
  <2>1. PICK n \in Nat : n = Len(events)
    BY <1>2
  <2>2. events' \in [1 .. n -> EventRecord] /\ DOMAIN events' = 1 .. n
    BY <1>1, <1>3, <2>1
  <2>3. events' \in Seq(EventRecord)
    BY <2>2, SeqDef
  <2>4. Len(events') = n
    BY <2>2, <2>3, LenProperties
  <2> QED
    BY <1>1, <2>1, <2>3, <2>4
<1>5. Distinct(events')
  BY <1>2, <1>3, <1>4, DistinctStays DEF EInv
<1>6. IteratorFits'
  BY <1>1, <1>4 DEF EInv, IteratorFits, InPass
<1>7. tpc \in {"checked", "running"} => it \in 1 .. Len(events)
  BY DEF EInv, IteratorFits, InPass
<1>8. CalledWhenDue'
  BY <1>1, <1>3, <1>4, <1>7 DEF EInv, CalledWhenDue
<1>9. ASSUME NEW i \in 1 .. Len(events')
      PROVE  OnTime(events'[i], Base(i)') /\ LateOnce(events'[i])
  <2>1. i \in 1 .. Len(events) /\ OnTime(events[i], Base(i)) /\ LateOnce(events[i])
    BY <1>4 DEF EInv
  <2>2. Base(i)' = Base(i) + 1 /\ Base(i) \in Int
    BY <1>1, TickAssumption DEF Base, InPass, Counted, EInv, TimingType
  <2>3. /\ events[i].elapsed \in Nat /\ events[i].since \in Int /\ events[i].age \in Nat
        /\ events[i].elapsed * Tick \in Int
    BY <1>2, <2>1, TickTimes DEF EventRecord
  <2>4. LateOnce(events'[i])
    BY <1>3, <1>4, <2>1 DEF LateOnce
  <2>5. OnTime(events'[i], Base(i)')
    <3>1. events[i] \in EventRecord /\ Older(events[i]) \in EventRecord
      BY <1>2, <1>3, <2>1
    <3>2. OnTime(Older(events[i]), Base(i) + 1)
      BY <1>3, <2>1, <2>2, <3>1, OnTimeOlder
    <3> QED
      BY <1>4, <2>1, <2>2, <3>2
  <2> QED
    BY <2>4, <2>5
<1>10. BoundsFit'
  BY <1>1 DEF EInv, BoundsFit
<1> QED
  BY <1>4, <1>5, <1>6, <1>8, <1>9, <1>10, Kept

\* Steps that leave the events and the lag alone, in the walk or outside.
LEMMA EventsStay ==
  ASSUME EInv, TimingType', BoundsFit', UNCHANGED <<events, lag>>,
         \/ UNCHANGED <<tpc, it>>
         \/ ~InPass /\ ~InPass'
         \/ InPass /\ it > Len(events) /\ ~InPass'
  PROVE  EInv'
<1>1. IteratorFits' /\ CalledWhenDue'
  BY DEF EInv, IteratorFits, CalledWhenDue, InPass
<1>2. events' \in Seq(EventRecord) /\ Distinct(events')
  BY DEF EInv
<1>3. ASSUME NEW i \in 1 .. Len(events')
      PROVE  OnTime(events'[i], Base(i)') /\ LateOnce(events'[i])
  <2>1. i \in 1 .. Len(events) /\ OnTime(events[i], Base(i)) /\ LateOnce(events[i])
    BY DEF EInv
  <2>2. Base(i)' = Base(i)
    <3>1. Len(events) \in Nat /\ (InPass => it \in Int)
      BY DEF EInv, IteratorFits
    <3> QED
      BY <2>1, <3>1 DEF Base, Counted, InPass
  <2> QED
    BY <2>1, <2>2
<1> QED
  BY <1>1, <1>2, <1>3, Kept

\* The walk begins: no event has been counted, and a tick is taken off the lag.
LEMMA WakeKeeps ==
  ASSUME EInv, TimingType', Wake
  PROVE  EInv'
<1>1. /\ tpc = "waiting" /\ tpc' = "visit" /\ it' = 1 /\ lag' = lag - Tick
      /\ UNCHANGED <<events, stop, calls, jumps>>
  BY DEF Wake, bounds
<1>2. events' \in Seq(EventRecord) /\ Distinct(events') /\ BoundsFit'
  BY <1>1 DEF EInv, BoundsFit
<1>3. IteratorFits' /\ CalledWhenDue'
  BY <1>1 DEF EInv, IteratorFits, CalledWhenDue, InPass
<1>4. ASSUME NEW i \in 1 .. Len(events')
      PROVE  OnTime(events'[i], Base(i)') /\ LateOnce(events'[i])
  <2>1. i \in 1 .. Len(events) /\ OnTime(events[i], Base(i)) /\ LateOnce(events[i])
    BY <1>1 DEF EInv
  <2>2. Base(i)' = Base(i)
    BY <1>1, TickAssumption DEF Base, Counted, InPass, EInv, TimingType
  <2> QED
    BY <1>1, <2>1, <2>2
<1> QED
  BY <1>2, <1>3, <1>4, Kept

\* The walk comes by an event that is not due, or due and not cancelled: it is
\* counted.
LEMMA CountKeeps ==
  ASSUME EInv, TimingType', tpc = "visit", it \in 1 .. Len(events),
         events' = [events EXCEPT ![it].elapsed = @ + 1],
         \/ tpc' = "visit" /\ it' = it + 1
         \/ /\ tpc' = "checked" /\ it' = it
            /\ events[it].elapsed + 1 = events[it].ticks /\ ~events[it].cancelled,
         UNCHANGED <<lag, stop, calls, jumps>>
  PROVE  EInv'
<1>1. events \in Seq(EventRecord) /\ Len(events) \in Nat /\ events[it] \in EventRecord
  BY DEF EInv
<1>2. PICK n \in Nat : n = events[it].elapsed + 1
  BY <1>1, Fields
<1>3. PICK r \in EventRecord : r = [events[it] EXCEPT !.elapsed = n]
  BY <1>1 DEF EventRecord
<1>4. /\ r.elapsed = n /\ r.age = events[it].age /\ r.since = events[it].since /\ r.late = events[it].late
      /\ r.handle = events[it].handle /\ r.ticks = events[it].ticks
  BY <1>1, <1>3 DEF EventRecord
<1>5. r.cancelled = events[it].cancelled
  BY <1>1, <1>3 DEF EventRecord
<1>6. events' = [events EXCEPT ![it] = r]
  BY <1>1, <1>2, <1>3
<1>7. /\ events' \in Seq(EventRecord) /\ Len(events') = Len(events) /\ events'[it] = r
      /\ \A i \in 1 .. Len(events) : i # it => events'[i] = events[i]
  BY <1>1, <1>6
<1>8. Distinct(events')
  <2>1. \A i \in 1 .. Len(events) : events'[i].handle = events[i].handle
    BY <1>4, <1>7
  <2> QED
    BY <1>1, <1>7, <2>1, DistinctStays DEF EInv
<1>9. IteratorFits'
  BY <1>1, <1>7 DEF IteratorFits, InPass
<1>10. CalledWhenDue'
  <2>1. ASSUME tpc' = "checked"
        PROVE  events'[it'].elapsed = events'[it'].ticks /\ events'[it'].late = 0
    <3>1. it' = it /\ events[it].elapsed + 1 = events[it].ticks /\ ~events[it].cancelled
      BY <2>1
    <3>2. events[it].late \in 0 .. 2 /\ LateOnce(events[it])
      <4>1. events[it].late \in 0 .. 2
        BY <1>1, Fields
      <4> QED
        BY <4>1 DEF EInv
    <3>3. events[it].late = 0
      BY <3>1, <3>2 DEF LateOnce
    <3> QED
      BY <1>2, <1>4, <1>7, <3>1, <3>3
  <2> QED
    BY <2>1 DEF CalledWhenDue
<1>11. ASSUME NEW i \in 1 .. Len(events')
       PROVE  OnTime(events'[i], Base(i)') /\ LateOnce(events'[i])
  <2>1. i \in 1 .. Len(events) /\ OnTime(events[i], Base(i)) /\ LateOnce(events[i]) /\ lag \in Int
    BY <1>7 DEF EInv, TimingType
  <2>2. CASE i # it
    <3>1. Base(i)' = Base(i)
      BY <2>1, <2>2 DEF Base, Counted, InPass
    <3> QED
      BY <1>7, <2>1, <2>2, <3>1
  <2>3. CASE i = it
    <3>1. Base(i) = lag + Tick /\ Base(i)' = lag
      BY <2>1, <2>3 DEF Base, Counted, InPass
    <3>2. OnTime(r, lag)
      BY <1>1, <1>2, <1>4, <2>1, <2>3, <3>1, OnTimeCounted
    <3>3. LateOnce(r)
      BY <1>4, <1>5, <2>1, <2>3 DEF LateOnce
    <3> QED
      BY <1>7, <2>3, <3>1, <3>2, <3>3
  <2> QED
    BY <2>2, <2>3
<1>12. BoundsFit'
  BY DEF EInv, BoundsFit
<1> QED
  BY <1>7, <1>8, <1>9, <1>10, <1>11, <1>12, Kept

\* An event is erased from under the iterator, which goes on to the next one.
LEMMA EraseKeeps ==
  ASSUME EInv, TimingType', InPass, it \in 1 .. Len(events),
         events' = RemoveAt(events, it), tpc' = "visit", it' = it,
         UNCHANGED <<lag, stop, calls, jumps>>
  PROVE  EInv'
<1>1. events \in Seq(EventRecord) /\ Len(events) \in Nat
  BY DEF EInv
<1>2. /\ events' \in Seq(EventRecord) /\ Len(events') = Len(events) - 1
      /\ \A j \in 1 .. Len(events) - 1 : events'[j] = IF j < it THEN events[j] ELSE events[j + 1]
  <2>1. PICK s : s = events
    OBVIOUS
  <2>2. s \in Seq(EventRecord) /\ it \in 1 .. Len(s)
    BY <1>1, <2>1
  <2>3. PICK k \in 1 .. Len(s) : k = it
    BY <2>2
  <2>4. /\ RemoveAt(s, k) \in Seq(EventRecord) /\ Len(RemoveAt(s, k)) = Len(s) - 1
        /\ \A j \in 1 .. Len(s) - 1 : RemoveAt(s, k)[j] = IF j < k THEN s[j] ELSE s[j + 1]
    BY <2>2, RemoveIs
  <2> QED
    BY <2>1, <2>3, <2>4
<1>3. Distinct(events')
  BY <1>1, DistinctRemove DEF EInv
<1>4. IteratorFits' /\ CalledWhenDue'
  BY <1>1, <1>2 DEF IteratorFits, CalledWhenDue, InPass
<1>5. ASSUME NEW i \in 1 .. Len(events')
      PROVE  OnTime(events'[i], Base(i)') /\ LateOnce(events'[i])
  <2>1. i \in 1 .. Len(events) - 1 /\ i \in 1 .. Len(events) /\ i + 1 \in 1 .. Len(events)
    BY <1>1, <1>2
  <2>2. CASE i < it
    <3>1. OnTime(events[i], Base(i)) /\ LateOnce(events[i]) /\ events'[i] = events[i]
      BY <1>2, <2>1, <2>2 DEF EInv
    <3>2. Base(i)' = Base(i)
      BY <2>2 DEF Base, Counted, InPass
    <3> QED
      BY <3>1, <3>2
  <2>3. CASE ~(i < it)
    <3>1. OnTime(events[i + 1], Base(i + 1)) /\ LateOnce(events[i + 1]) /\ events'[i] = events[i + 1]
      BY <1>2, <2>1, <2>3 DEF EInv
    <3>2. Base(i)' = Base(i + 1)
      BY <2>1, <2>3 DEF Base, Counted, InPass
    <3> QED
      BY <3>1, <3>2
  <2> QED
    BY <2>2, <2>3
<1>6. BoundsFit'
  BY DEF EInv, BoundsFit
<1> QED
  BY <1>2, <1>3, <1>4, <1>5, <1>6, Kept

LEMMA VisitKeeps ==
  ASSUME EInv, TimingType', Visit
  PROVE  EInv'
<1> DEFINE e == events[it]
           due == e.elapsed + 1 = e.ticks
<1>1. /\ tpc = "visit" /\ it <= Len(events) /\ UNCHANGED <<lag, stop, calls, jumps>>
      /\ events' = IF due /\ e.cancelled THEN RemoveAt(events, it)
                   ELSE [events EXCEPT ![it].elapsed = @ + 1]
      /\ tpc' = IF due /\ ~(due /\ e.cancelled) THEN "checked" ELSE tpc
      /\ it' = IF due THEN it ELSE it + 1
  BY DEF Visit, timing, bounds
<1>2. it \in 1 .. Len(events) /\ InPass
  BY <1>1 DEF EInv, IteratorFits, InPass
<1> HIDE DEF due, e
<1>3. CASE due /\ e.cancelled
  BY <1>1, <1>2, <1>3, EraseKeeps
<1>4. CASE due /\ ~e.cancelled
  <2>1. tpc' = "checked" /\ it' = it /\ events' = [events EXCEPT ![it].elapsed = @ + 1]
    BY <1>1, <1>4
  <2>2. events[it].elapsed + 1 = events[it].ticks /\ ~events[it].cancelled
    BY <1>4 DEF due, e
  <2> QED
    BY <1>1, <1>2, <2>1, <2>2, CountKeeps
<1>5. CASE ~due
  <2>1. tpc' = "visit" /\ it' = it + 1 /\ events' = [events EXCEPT ![it].elapsed = @ + 1]
    BY <1>1, <1>5
  <2> QED
    BY <1>1, <1>2, <2>1, CountKeeps
<1> QED
  BY <1>3, <1>4, <1>5

\* A step that changes one event and keeps what its time depends on.
LEMMA ChangeKeeps ==
  ASSUME EInv, TimingType', NEW k \in 1 .. Len(events), NEW r \in EventRecord,
         events' = [events EXCEPT ![k] = r], LateOnce(r),
         r.handle = events[k].handle, OnTime(r, Base(k)'),
         \A i \in 1 .. Len(events) : i # k => Base(i)' = Base(i),
         InPass' => it' \in 1 .. Len(events) + 1,
         tpc' \in {"checked", "running"} => it' <= Len(events),
         CalledWhenDue', UNCHANGED <<stop, calls, jumps>>
  PROVE  EInv'
<1>1. events \in Seq(EventRecord) /\ Len(events) \in Nat
  BY DEF EInv
<1>2. /\ events' \in Seq(EventRecord) /\ Len(events') = Len(events) /\ events'[k] = r
      /\ \A i \in 1 .. Len(events) : i # k => events'[i] = events[i]
  BY <1>1
<1>3. Distinct(events')
  <2>1. \A i \in 1 .. Len(events) : events'[i].handle = events[i].handle
    BY <1>2
  <2> QED
    BY <1>1, <1>2, <2>1, DistinctStays DEF EInv
<1>4. IteratorFits'
  BY <1>2 DEF IteratorFits
<1>5. ASSUME NEW i \in 1 .. Len(events')
      PROVE  OnTime(events'[i], Base(i)') /\ LateOnce(events'[i])
  <2>1. i \in 1 .. Len(events) /\ OnTime(events[i], Base(i)) /\ LateOnce(events[i])
    BY <1>2 DEF EInv
  <2>2. CASE i = k
    BY <1>2, <2>2
  <2>3. CASE i # k
    BY <1>2, <2>1, <2>3
  <2> QED
    BY <2>2, <2>3
<1>6. BoundsFit'
  BY DEF EInv, BoundsFit
<1> QED
  BY <1>2, <1>3, <1>4, <1>5, <1>6, Kept

LEMMA CallBackKeeps ==
  ASSUME EInv, TimingType', CallBack
  PROVE  EInv'
<1>1. /\ tpc = "checked" /\ tpc' = "running"
      /\ events' = [events EXCEPT ![it].late = IF events[it].cancelled /\ @ < 2 THEN @ + 1 ELSE @]
      /\ UNCHANGED <<lag, it, stop, calls, jumps>>
  BY DEF CallBack, timing, bounds
<1>2. /\ it \in 1 .. Len(events) /\ events \in Seq(EventRecord) /\ events[it] \in EventRecord
      /\ events[it].late = 0 /\ events[it].elapsed = events[it].ticks
  BY <1>1 DEF EInv, IteratorFits, CalledWhenDue, InPass
<1>3. PICK n \in {0, 1} : n = (IF events[it].cancelled THEN 1 ELSE 0)
  OBVIOUS
<1>4. PICK r \in EventRecord : r = [events[it] EXCEPT !.late = n]
  BY <1>2, <1>3, OneLate
<1>5. /\ r.late = n /\ r.age = events[it].age /\ r.elapsed = events[it].elapsed
      /\ r.since = events[it].since /\ r.handle = events[it].handle /\ r.ticks = events[it].ticks
  BY <1>2, <1>4 DEF EventRecord
<1>6. r.cancelled = events[it].cancelled
  BY <1>2, <1>4 DEF EventRecord
<1>7. events' = [events EXCEPT ![it] = r]
  BY <1>1, <1>2, <1>3, <1>4
<1>8. LateOnce(r)
  BY <1>3, <1>5, <1>6 DEF LateOnce
<1>9. \A i \in 1 .. Len(events) : Base(i)' = Base(i)
  BY <1>1 DEF Base, Counted, InPass
<1>10. PICK k \in 1 .. Len(events) : k = it
  BY <1>2
<1>11. OnTime(r, Base(k)')
  <2>1. OnTime(events[k], Base(k))
    BY DEF EInv
  <2> QED
    BY <1>5, <1>9, <1>10, <2>1 DEF OnTime
<1>12. CalledWhenDue'
  <2>1. events'[it] = r
    BY <1>2, <1>7
  <2> QED
    BY <1>1, <1>2, <1>5, <2>1 DEF CalledWhenDue
<1>13. it' \in 1 .. Len(events) + 1 /\ it' <= Len(events)
  BY <1>1, <1>2
<1>14. events' = [events EXCEPT ![k] = r] /\ r.handle = events[k].handle
  BY <1>5, <1>7, <1>10
<1>15. \A i \in 1 .. Len(events) : i # k => Base(i)' = Base(i)
  BY <1>9
<1> QED
  BY <1>1, <1>8, <1>11, <1>12, <1>13, <1>14, <1>15, ChangeKeeps

\* An interval counts from 0 again, from this walk on.
LEMMA FinishKeeps ==
  ASSUME EInv, TimingType', Finish
  PROVE  EInv'
<1>1. /\ tpc = "running" /\ tpc' = "visit" /\ UNCHANGED <<lag, stop, calls, jumps>>
  BY DEF Finish, timing, bounds
<1>2. /\ it \in 1 .. Len(events) /\ events \in Seq(EventRecord) /\ events[it] \in EventRecord
      /\ lag \in Int /\ InPass /\ Len(events) \in Nat
  BY <1>1 DEF EInv, IteratorFits, InPass, TimingType
<1>3. CASE ~events[it].repeats
  <2>1. events' = RemoveAt(events, it) /\ it' = it
    BY <1>3 DEF Finish
  <2> QED
    BY <1>1, <1>2, <2>1, EraseKeeps
<1>4. CASE events[it].repeats
  <2>1. /\ events' = [events EXCEPT ![it].elapsed = 0, ![it].age = 0, ![it].since = lag]
        /\ it' = it + 1
    BY <1>4 DEF Finish
  <2>2. PICK r \in EventRecord : r = [events[it] EXCEPT !.elapsed = 0, !.age = 0, !.since = lag]
    BY <1>2 DEF EventRecord
  <2>3. /\ r.elapsed = 0 /\ r.age = 0 /\ r.since = lag /\ r.late = events[it].late
        /\ r.handle = events[it].handle
    BY <1>2, <2>2 DEF EventRecord
  <2>4. r.cancelled = events[it].cancelled
    BY <1>2, <2>2 DEF EventRecord
  <2>5. events' = [events EXCEPT ![it] = r]
    BY <1>2, <2>1, <2>2
  <2>6. LateOnce(r)
    <3>1. LateOnce(events[it])
      BY <1>2 DEF EInv
    <3> QED
      BY <2>3, <2>4, <3>1 DEF LateOnce
  <2>7. PICK k \in 1 .. Len(events) : k = it
    BY <1>2
  <2>8. /\ \A i \in 1 .. Len(events) : i # k => Base(i)' = Base(i)
        /\ Base(k)' = lag
    BY <1>1, <1>2, <2>1, <2>7 DEF Base, Counted, InPass
  <2>9. OnTime(r, Base(k)')
    BY <1>2, <2>3, <2>8, OnTimeAnew
  <2>10. CalledWhenDue'
    BY <1>1 DEF CalledWhenDue
  <2>11. it' \in 1 .. Len(events) + 1 /\ tpc' \notin {"checked", "running"}
    BY <1>1, <1>2, <2>1
  <2>12. events' = [events EXCEPT ![k] = r] /\ r.handle = events[k].handle
    BY <2>3, <2>5, <2>7
  <2> QED
    BY <1>1, <2>6, <2>8, <2>9, <2>10, <2>11, <2>12, ChangeKeeps
<1> QED
  BY <1>3, <1>4

LEMMA CancelKeeps ==
  ASSUME EInv, TimingType', NEW h \in Handles, Cancel(h)
  PROVE  EInv'
<1>1. PICK k \in 1 .. Len(events) : events' = [events EXCEPT ![k].cancelled = TRUE]
  BY DEF Cancel
<1>2. UNCHANGED <<tpc, lag, it, stop, calls, jumps>>
  BY DEF Cancel, timing, bounds
<1>3. events \in Seq(EventRecord) /\ events[k] \in EventRecord /\ Len(events) \in Nat
  BY DEF EInv
<1>4. PICK r \in EventRecord : r = [events[k] EXCEPT !.cancelled = TRUE]
  BY <1>3 DEF EventRecord
<1>5. /\ r.late = events[k].late /\ r.age = events[k].age /\ r.elapsed = events[k].elapsed
      /\ r.since = events[k].since /\ r.handle = events[k].handle /\ r.ticks = events[k].ticks
  BY <1>3, <1>4 DEF EventRecord
<1>6. r.cancelled
  BY <1>3, <1>4 DEF EventRecord
<1>7. events' = [events EXCEPT ![k] = r]
  BY <1>1, <1>3, <1>4
<1>8. LateOnce(r) /\ OnTime(r, Base(k))
  <2>1. LateOnce(events[k]) /\ OnTime(events[k], Base(k))
    BY DEF EInv
  <2>2. LateOnce(r)
    BY <1>5, <1>6, <2>1 DEF LateOnce
  <2> QED
    BY <1>5, <2>1, <2>2 DEF OnTime
<1>9. \A i \in 1 .. Len(events) : Base(i)' = Base(i)
  BY <1>2 DEF Base, Counted, InPass
<1>10. /\ InPass' => it' \in 1 .. Len(events) + 1
       /\ tpc' \in {"checked", "running"} => it' \in 1 .. Len(events) /\ it' <= Len(events)
  BY <1>2, <1>3 DEF EInv, IteratorFits, InPass
<1>11. CalledWhenDue'
  <2>1. ASSUME tpc' \in {"checked", "running"}
        PROVE  events'[it].elapsed = events[it].elapsed /\ events'[it].ticks = events[it].ticks /\ events'[it].late = events[it].late
    <3>1. it \in 1 .. Len(events)
      BY <1>2, <1>10, <2>1
    <3>2. CASE it = k
      BY <1>3, <1>5, <1>7, <3>2
    <3>3. CASE it # k
      BY <1>3, <1>7, <3>1, <3>3
    <3> QED
      BY <3>2, <3>3
  <2> QED
    BY <1>2, <2>1 DEF EInv, CalledWhenDue
<1>12. OnTime(r, Base(k)')
  BY <1>8, <1>9
<1>13. \A i \in 1 .. Len(events) : i # k => Base(i)' = Base(i)
  BY <1>9
<1>14. /\ InPass' => it' \in 1 .. Len(events) + 1
       /\ tpc' \in {"checked", "running"} => it' <= Len(events)
  BY <1>10
<1> QED
  BY <1>2, <1>5, <1>7, <1>8, <1>11, <1>12, <1>13, <1>14, ChangeKeeps

\* A new event is counted from this walk on, or from the next if it has begun.
LEMMA RegisterKeeps ==
  ASSUME EInv, TimingType', NEW h \in Handles, NEW d \in Delays \cup CallbackDelays,
         NEW repeats \in BOOLEAN, Register(h, d, repeats), BoundsFit',
         UNCHANGED <<tpc, lag, it>>
  PROVE  EInv'
<1>1. /\ h \notin HandlesOf(events) /\ events' = Append(events, NewEvent(h, d, repeats))
  BY DEF Register, Pending, HandlesOf
<1>2. events \in Seq(EventRecord) /\ Len(events) \in Nat /\ lag \in Int
  BY DEF EInv, TimingType
<1>3. PICK b \in Int : b = (IF InPass THEN lag + Tick ELSE lag)
  BY <1>2, TickAssumption
<1>4. PICK n \in Nat \ {0} : n = d \div Tick
  BY DelayAssumption, DelayTicks
<1>5. d \in Nat
  BY DelayAssumption
<1>6. PICK r : r = NewEvent(h, d, repeats)
  OBVIOUS
<1>7. r = [handle |-> h, ticks |-> n, elapsed |-> 0, repeats |-> repeats, cancelled |-> FALSE,
           late |-> 0, delay |-> d, age |-> 0, since |-> b]
  BY <1>3, <1>4, <1>6 DEF NewEvent
<1>8. r \in EventRecord
  BY <1>5, <1>7 DEF EventRecord
<1>9. r.handle = h /\ r.elapsed = 0 /\ r.age = 0 /\ r.since = b /\ r.late = 0
  BY <1>7
<1>10. /\ events' \in Seq(EventRecord) /\ Len(events') = Len(events) + 1 /\ events'[Len(events) + 1] = r
       /\ \A i \in 1 .. Len(events) : events'[i] = events[i]
  BY <1>1, <1>2, <1>6, <1>8
<1>11. Distinct(events')
  BY <1>1, <1>2, <1>6, <1>8, <1>9, DistinctAppend DEF EInv
<1>12. IteratorFits' /\ CalledWhenDue'
  BY <1>2, <1>10 DEF EInv, IteratorFits, CalledWhenDue, InPass
<1>13. ASSUME NEW i \in 1 .. Len(events')
       PROVE  OnTime(events'[i], Base(i)') /\ LateOnce(events'[i])
  <2>1. i \in 1 .. Len(events) \/ i = Len(events) + 1
    BY <1>2, <1>10
  <2>2. CASE i \in 1 .. Len(events)
    <3>1. OnTime(events[i], Base(i)) /\ LateOnce(events[i]) /\ events'[i] = events[i]
      BY <1>10, <2>2 DEF EInv
    <3>2. Base(i)' = Base(i)
      BY DEF Base, Counted, InPass
    <3> QED
      BY <3>1, <3>2
  <2>3. CASE i = Len(events) + 1
    <3>1. ~Counted(i) \/ ~InPass
      BY <1>2, <2>3 DEF EInv, IteratorFits, Counted, InPass
    <3>2. Base(i)' = b
      BY <1>3, <3>1 DEF Base, Counted, InPass
    <3>3. OnTime(r, b)
      BY <1>8, <1>9, OnTimeAnew
    <3>4. LateOnce(r)
      BY <1>9 DEF LateOnce
    <3> QED
      BY <1>10, <2>3, <3>2, <3>3, <3>4
  <2> QED
    BY <2>1, <2>2, <2>3
<1> QED
  BY <1>10, <1>11, <1>12, <1>13, Kept

LEMMA EInvStep ==
  ASSUME EInv, TInv', [Next]_vars
  PROVE  EInv'
<1>1. TimingType'
  BY DEF TInv
<1>2. CASE Elapse
  BY <1>1, <1>2, ElapseKeeps
<1>3. CASE \E jump \in Jumps : SetClock(jump)
  <2>1. UNCHANGED <<events, lag, tpc, it, stop, calls>> /\ jumps > 0 /\ jumps' = jumps - 1
    BY <1>3 DEF SetClock, timing
  <2>2. BoundsFit'
    BY <2>1, ClockAssumption DEF EInv, BoundsFit
  <2> QED
    BY <1>1, <2>1, <2>2, EventsStay
<1>4. CASE StartWait \/ StopSeen
  <2>1. UNCHANGED <<events, lag, it, stop, calls, jumps>> /\ ~InPass /\ ~InPass'
    BY <1>4 DEF StartWait, StopSeen, timing, bounds, InPass
  <2>2. BoundsFit'
    BY <2>1 DEF EInv, BoundsFit
  <2> QED
    BY <1>1, <2>1, <2>2, EventsStay
<1>5. CASE Wake
  BY <1>1, <1>5, WakeKeeps
<1>6. CASE Visit
  BY <1>1, <1>6, VisitKeeps
<1>7. CASE CallBack
  BY <1>1, <1>7, CallBackKeeps
<1>8. CASE Finish
  BY <1>1, <1>8, FinishKeeps
<1>9. CASE Measure
  <2>1. UNCHANGED <<events, lag, it, stop, calls, jumps>> /\ InPass /\ it > Len(events) /\ ~InPass'
    BY <1>9 DEF Measure, bounds, InPass
  <2>2. BoundsFit'
    BY <2>1 DEF EInv, BoundsFit
  <2> QED
    BY <1>1, <2>1, <2>2, EventsStay
<1>10. CASE \E h \in Handles, delay \in Delays, repeats \in BOOLEAN : SetByUser(h, delay, repeats)
  <2>1. PICK h \in Handles, d \in Delays, repeats \in BOOLEAN : SetByUser(h, d, repeats)
    BY <1>10
  <2>2. Register(h, d, repeats) /\ UNCHANGED <<tpc, lag, it, stop, jumps>> /\ calls > 0 /\ calls' = calls - 1
    BY <2>1 DEF SetByUser, timing
  <2>3. BoundsFit'
    BY <2>2, ClockAssumption DEF EInv, BoundsFit
  <2>4. d \in Delays \cup CallbackDelays
    OBVIOUS
  <2> QED
    BY <1>1, <2>2, <2>3, <2>4, RegisterKeeps
<1>11. CASE \E h \in Handles, delay \in CallbackDelays, repeats \in BOOLEAN : SetByCallback(h, delay, repeats)
  <2>1. PICK h \in Handles, d \in CallbackDelays, repeats \in BOOLEAN : SetByCallback(h, d, repeats)
    BY <1>11
  <2>2. Register(h, d, repeats) /\ UNCHANGED <<tpc, lag, it, stop, calls, jumps>>
    BY <2>1 DEF SetByCallback, timing, bounds
  <2>3. BoundsFit'
    BY <2>2 DEF EInv, BoundsFit
  <2>4. d \in Delays \cup CallbackDelays
    OBVIOUS
  <2> QED
    BY <1>1, <2>2, <2>3, <2>4, RegisterKeeps
<1>12. CASE \E h \in Handles : Cancel(h)
  BY <1>1, <1>12, CancelKeeps
<1>13. CASE Destroy
  <2>1. UNCHANGED <<events, lag, tpc, it, calls, jumps>>
    BY <1>13 DEF Destroy, timing, bounds
  <2>2. stop' \in BOOLEAN
    BY <1>13 DEF Destroy
  <2>3. BoundsFit'
    BY <2>1, <2>2 DEF EInv, BoundsFit
  <2> QED
    BY <1>1, <2>1, <2>3, EventsStay
<1>14. CASE UNCHANGED vars
  <2>1. UNCHANGED <<events, lag, tpc, it, stop, calls, jumps>>
    BY <1>14 DEF vars, timing, bounds
  <2>2. BoundsFit'
    BY <2>1 DEF EInv, BoundsFit
  <2> QED
    BY <1>1, <2>1, <2>2, EventsStay
<1> QED
  BY <1>2, <1>3, <1>4, <1>5, <1>6, <1>7, <1>8, <1>9, <1>10, <1>11, <1>12, <1>13, <1>14 DEF Next, ThreadStep

LEMMA EventsInvariance == Spec => []EInv
<1>1. EInv /\ TInv' /\ [Next]_vars => EInv'
  BY EInvStep
<1> QED
  BY <1>1, EInvInit, Invariance, PTL DEF Spec

\* For every tick and any number of events, set, cancelled and rescheduled by
\* anyone at any time: what is called is called on the walk that its ticks say,
\* counted from the walk after it was set or called last.
THEOREM EveryEventOnItsTick == Spec => []FiresOnSchedule
<1>1. EInv => FiresOnSchedule
  <2> SUFFICES ASSUME EInv, tpc \in {"checked", "running"}
               PROVE  /\ events[it].elapsed = events[it].ticks
                      /\ events[it].age = events[it].ticks * Tick + lag - events[it].since
    BY DEF FiresOnSchedule
  <2>1. events[it].elapsed = events[it].ticks /\ it \in 1 .. Len(events) /\ Len(events) \in Nat
    BY DEF EInv, CalledWhenDue, IteratorFits, InPass
  <2>2. OnTime(events[it], lag)
    <3>1. OnTime(events[it], Base(it)) /\ Base(it) = lag
      BY <2>1 DEF EInv, Base, Counted
    <3> QED
      BY <3>1
  <2> QED
    BY <2>1, <2>2 DEF OnTime
<1> QED
  BY <1>1, EventsInvariance, PTL

\* For any number of events: the set is well formed, the iterator is in it, and
\* at most one call of an event comes after its cancel().
THEOREM EventsAreSound == Spec => []EventsInv
<1>1. EInv => EventsInv
  <2> SUFFICES ASSUME EInv PROVE EventsInv
    OBVIOUS
  <2>1. Cardinality(Pending) = Len(events)
    BY DEF EInv, Distinct, HandlesOf, Pending
  <2>2. TypeOK
    BY <2>1 DEF EInv, TypeOK, TimingType, BoundsFit, Phases, IteratorFits
  <2>3. CancelStopsTheNext
    BY DEF EInv, CancelStopsTheNext, LateOnce
  <2> QED
    BY <2>2, <2>3 DEF EventsInv
<1> QED
  BY <1>1, EventsInvariance, PTL

-----------------------------------------------------------------------------
(* The two events that threads wait for.                                   *)

SignalsInv == EventInv /\ OnePassPerSignal

Pcs == {"idle", "notify", "test", "sleeping", "timed_out"}

\* A new event: nobody sleeps, nothing has passed.
LEMMA SignalsInvInit == EventInit => SignalsInv
BY EventAssumption
   DEF EventInit, SignalsInv, EventInv, EventTypeOK, NoStuckWaiter, OnePassPerSignal

\* A waiter's own step, or a call, does not disturb a signaler that has still
\* to notify.
LEMMA NotifierStays ==
  ASSUME EventTypeOK, NEW w \in Waiters, NEW where, NEW s \in Signalers,
         pc[s] = "notify", pc' = [pc EXCEPT ![w] = where]
  PROVE  pc'[s] = "notify"
BY EventAssumption DEF EventTypeOK

\* Notification wakes exactly one waiter of an AutoEvent, if any sleeps.
LEMMA NotifyWakes ==
  ASSUME EventTypeOK, NEW s \in Signalers, Notify(s)
  PROVE  \/ sleeping' = {}
         \/ autoReset /\ \E w \in Waiters : pc'[w] = "test"
<1>1. PICK woken \in SUBSET sleeping :
        /\ IF autoReset THEN Cardinality(woken) = (IF sleeping = {} THEN 0 ELSE 1)
           ELSE woken = sleeping
        /\ sleeping' = sleeping \ woken
        /\ pc' = [t \in DOMAIN pc |-> CASE t = s -> "idle"
                                        [] t \in woken -> "test"
                                        [] OTHER -> pc[t]]
  BY DEF Notify
<1>2. CASE ~autoReset \/ sleeping = {}
  BY <1>1, <1>2
<1>3. CASE autoReset /\ sleeping # {}
  <2>1. Cardinality(woken) = 1
    BY <1>1, <1>3
  <2>2. PICK w \in woken : TRUE
    BY <2>1, FS_EmptySet
  <2>3. w \in Waiters /\ w # s /\ w \in DOMAIN pc
    BY EventAssumption DEF EventTypeOK
  <2> QED
    BY <1>1, <1>3, <2>3
<1> QED
  BY <1>2, <1>3 DEF EventTypeOK

\* Every step of a waiter or of a signaler keeps the invariant.
LEMMA SignalsInvStep == SignalsInv /\ [EventNext]_eventVars => SignalsInv'
<1> SUFFICES ASSUME SignalsInv, [EventNext]_eventVars PROVE SignalsInv'
  OBVIOUS
<1>0. EventTypeOK /\ NoStuckWaiter /\ OnePassPerSignal
  BY DEF SignalsInv, EventInv
<1>1. ASSUME NEW s \in Signalers, Signal(s) PROVE SignalsInv'
  <2>1. EventTypeOK'
    BY <1>0, <1>1, EventAssumption DEF Signal, EventTypeOK
  <2>2. NoStuckWaiter'
    BY <1>0, <1>1 DEF Signal, NoStuckWaiter, EventTypeOK
  <2>3. OnePassPerSignal'
    BY <1>0, <1>1 DEF Signal, OnePassPerSignal, EventTypeOK
  <2> QED
    BY <2>1, <2>2, <2>3 DEF SignalsInv, EventInv
<1>2. ASSUME NEW s \in Signalers, Notify(s) PROVE SignalsInv'
  <2>1. EventTypeOK'
    <3>1. PICK woken \in SUBSET sleeping :
            /\ sleeping' = sleeping \ woken
            /\ pc' = [t \in DOMAIN pc |-> CASE t = s -> "idle"
                                            [] t \in woken -> "test"
                                            [] OTHER -> pc[t]]
      BY <1>2 DEF Notify
    <3>2. DOMAIN pc = Waiters \cup Signalers /\ woken \subseteq Waiters /\ s \notin Waiters
      BY <1>0, EventAssumption DEF EventTypeOK
    <3>3. pc' \in [Waiters \cup Signalers -> Pcs]
      BY <3>1, <3>2, <1>0 DEF EventTypeOK, Pcs
    <3>4. sleeping' = {w \in Waiters : pc'[w] = "sleeping"}
      BY <3>1, <3>2, <1>0 DEF EventTypeOK
    <3> QED
      BY <3>1, <3>3, <3>4, <1>0, <1>2 DEF Notify, EventTypeOK, Pcs
  <2>2. NoStuckWaiter'
    BY <1>0, <1>2, NotifyWakes DEF Notify, NoStuckWaiter
  <2>3. OnePassPerSignal'
    BY <1>0, <1>2 DEF Notify, OnePassPerSignal
  <2> QED
    BY <2>1, <2>2, <2>3 DEF SignalsInv, EventInv
<1>3. ASSUME NEW s \in Signalers, Reset(s) PROVE SignalsInv'
  <2>1. resets' \in 0 .. MaxResets
    BY <1>0, <1>3, EventAssumption DEF Reset, EventTypeOK
  <2>2. EventTypeOK'
    BY <2>1, <1>0, <1>3 DEF Reset, EventTypeOK
  <2>3. NoStuckWaiter' /\ OnePassPerSignal'
    BY <1>0, <1>3 DEF Reset, NoStuckWaiter, OnePassPerSignal, EventTypeOK
  <2> QED
    BY <2>2, <2>3 DEF SignalsInv, EventInv
<1>4. ASSUME NEW w \in Waiters, NEW b \in BOOLEAN, CallWait(w, b) PROVE SignalsInv'
  <2>1. EventTypeOK'
    BY <1>0, <1>4 DEF CallWait, EventTypeOK
  <2>2. NoStuckWaiter'
    BY <1>0, <1>4, NotifierStays DEF CallWait, NoStuckWaiter, EventTypeOK
  <2>3. OnePassPerSignal'
    BY <1>0, <1>4 DEF CallWait, OnePassPerSignal
  <2> QED
    BY <2>1, <2>2, <2>3 DEF SignalsInv, EventInv
<1>5. ASSUME NEW w \in Waiters, Pass(w) PROVE SignalsInv'
  <2>1. EventTypeOK'
    BY <1>0, <1>5 DEF Pass, EventTypeOK
  <2>2. NoStuckWaiter'
    BY <1>0, <1>5, NotifierStays DEF Pass, NoStuckWaiter, EventTypeOK
  <2>3. OnePassPerSignal'
    <3>1. CASE autoReset
      <4>1. passed + 1 <= sent
        BY <3>1, <1>0, <1>5 DEF Pass, OnePassPerSignal
      <4>2. passed' = passed + 1 /\ sent' = sent /\ ~signaled'
        BY <3>1, <1>5 DEF Pass
      <4> QED
        BY <4>1, <4>2, <1>0 DEF OnePassPerSignal, EventTypeOK
    <3>2. CASE ~autoReset
      BY <3>2, <1>0, <1>5 DEF Pass, OnePassPerSignal, EventTypeOK
    <3> QED
      BY <3>1, <3>2
  <2> QED
    BY <2>1, <2>2, <2>3 DEF SignalsInv, EventInv
<1>6. ASSUME NEW w \in Waiters, Sleep(w) \/ GiveUp(w) PROVE SignalsInv'
  <2>1. EventTypeOK'
    BY <1>0, <1>6 DEF Sleep, GiveUp, EventTypeOK
  <2>2. NoStuckWaiter' /\ OnePassPerSignal'
    BY <1>0, <1>6 DEF Sleep, GiveUp, NoStuckWaiter, OnePassPerSignal
  <2> QED
    BY <2>1, <2>2 DEF SignalsInv, EventInv
<1>7. ASSUME NEW w \in Waiters, TimeOut(w) \/ SpuriousWake(w) PROVE SignalsInv'
  <2>1. EventTypeOK'
    BY <1>0, <1>7, EventAssumption DEF TimeOut, SpuriousWake, EventTypeOK
  <2>2. sleeping # {} /\ signaled' = signaled /\ autoReset' = autoReset
        /\ pc'[w] \in {"test", "timed_out"}
    BY <1>0, <1>7 DEF TimeOut, SpuriousWake, EventTypeOK
  <2>3. \A s \in Signalers : pc[s] = "notify" => pc'[s] = "notify"
    BY <1>0, <1>7, NotifierStays DEF TimeOut, SpuriousWake
  <2>4. NoStuckWaiter'
    BY <1>0, <2>2, <2>3 DEF NoStuckWaiter
  <2>5. OnePassPerSignal'
    BY <1>0, <1>7 DEF TimeOut, SpuriousWake, OnePassPerSignal
  <2> QED
    BY <2>1, <2>4, <2>5 DEF SignalsInv, EventInv
<1>8. ASSUME UNCHANGED eventVars PROVE SignalsInv'
  BY <1>0, <1>8 DEF eventVars, SignalsInv, EventInv, EventTypeOK, NoStuckWaiter, OnePassPerSignal
<1> QED
  BY <1>1, <1>2, <1>3, <1>4, <1>5, <1>6, <1>7, <1>8 DEF EventNext, WaiterStep

\* The invariant holds of every event, however many threads use it.
LEMMA SignalsInvariance == EventSpec => []SignalsInv
<1> QED
  BY SignalsInvInit, SignalsInvStep, PTL DEF EventSpec

\* signal() notifies after it has released the mutex; still, for any number of
\* threads, nobody sleeps beside a signal that no notification is on its way for
\* and no waiter of an AutoEvent is awake for.
THEOREM NoSignalIsLost == EventSpec => []EventInv
<1>1. SignalsInv => EventInv
  BY DEF SignalsInv
<1> QED
  BY <1>1, SignalsInvariance, PTL

\* For any number of timed and untimed waiters, at most one of them passes for
\* each signal of an AutoEvent.
THEOREM SignalsPassOnce == EventSpec => []OnePassPerSignal
<1>1. SignalsInv => OnePassPerSignal
  BY DEF SignalsInv
<1> QED
  BY <1>1, SignalsInvariance, PTL
=============================================================================
