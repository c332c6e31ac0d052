------------------------------ MODULE TimeEvent ------------------------------
(***************************************************************************)
(* TimeEvent of timer/time_event.h: one thread that wakes up every m_tick, *)
(* walks through the set of events and calls those that are due.           *)
(*                                                                         *)
(* Time is discrete and relative: lag is how far the present is beyond     *)
(* start + m_tick * m_ticks, remaining is the time left of the wait_for()  *)
(* that m_event is blocked in.  m_events is ordered by seq_num, which only *)
(* grows, so that it is a sequence and an insertion appends to it.         *)
(* high_resolution_clock, which the thread measures its drift with, may be *)
(* the system's clock and be set (SetClock) while wait_for() goes by the   *)
(* steady clock.  Insertions are taken to be serialised with the walk by   *)
(* their caller: the class has no lock for them.                           *)
(***************************************************************************)
EXTENDS Integers, Sequences, SequencesExt, FiniteSets

CONSTANTS Tick,            \* m_tick
          Delays,          \* what a user's thread asks for
          CallbackDelays,  \* what a callback asks for
          Handles,         \* the shared ManualEvents in use at a time
          Jumps,           \* how far the clock may be set
          MaxCalls,        \* bound: set_timeout/set_interval by users
          MaxJumps,        \* bound: settings of the clock
          MaxLag           \* bound: how late the thread is scheduled

\* The constructor's assertion, and the one of set_timeout and set_interval.
ASSUME TickAssumption == Tick \in Nat \ {0}
ASSUME DelayAssumption ==
  \A d \in Delays \cup CallbackDelays : d \in Nat /\ d >= Tick
ASSUME ClockAssumption ==
  Jumps \subseteq Int /\ MaxCalls \in Nat /\ MaxJumps \in Nat /\ MaxLag \in Nat

VARIABLES
  tpc,        \* where m_thread is
  lag, remaining, drift,
  offset,     \* how far the clock has been set since start
  read,       \* offset when the clock was last read
  stall,      \* the time lost between that reading and the wait
  events, it, \* m_events and the iterator of the walk
  stop,       \* m_event is signaled
  calls, jumps

timing == <<lag, remaining, drift, read, stall>>
bounds == <<calls, jumps>>
vars == <<tpc, timing, offset, events, it, stop, bounds>>

\* In use, and visited by the walk.
Pending == {events[i].handle : i \in 1 .. Len(events)}
InPass == tpc \in {"visit", "checked", "running"}

Init ==
  /\ tpc = "measured" /\ lag = 0 /\ remaining = 0 /\ drift = 0
  /\ offset = 0 /\ read = 0 /\ stall = 0
  /\ events = <<>> /\ it = 1 /\ stop = FALSE
  /\ calls = MaxCalls /\ jumps = MaxJumps

-----------------------------------------------------------------------------
(* The passing of time                                                     *)

Older(e) == [e EXCEPT !.age = @ + 1]

\* MaxLag bounds the lateness of the thread, never the time that it waits.
Elapse ==
  /\ tpc # "exited"
  /\ lag < MaxLag \/ (tpc = "waiting" /\ remaining > 0)
  /\ lag' = lag + 1
  /\ remaining' = IF tpc = "waiting" THEN remaining - 1 ELSE remaining
  /\ stall' = IF tpc = "measured" THEN stall + 1 ELSE stall
  /\ events' = [i \in 1 .. Len(events) |-> Older(events[i])]
  /\ UNCHANGED <<tpc, drift, offset, read, it, stop, bounds>>

SetClock(jump) ==
  /\ tpc # "exited" /\ jumps > 0
  /\ offset' = offset + jump /\ jumps' = jumps - 1
  /\ UNCHANGED <<tpc, timing, events, it, stop, calls>>

-----------------------------------------------------------------------------
(* The thread                                                              *)

\* wait_for(m_tick - drift) begins.
StartWait ==
  /\ tpc = "measured"
  /\ tpc' = "waiting"
  /\ remaining' = Tick - drift
  /\ UNCHANGED <<lag, drift, offset, read, stall, events, it, stop, bounds>>

\* A slip to be caught: the flag is not read once the time is over.
StopSeenInTime ==
  /\ tpc = "waiting" /\ stop /\ remaining > 0
  /\ tpc' = "exited"
  /\ UNCHANGED <<timing, offset, events, it, stop, bounds>>

\* wait_for() returns true: its predicate holds, be the time over or not.
StopSeen ==
  /\ tpc = "waiting" /\ stop
  /\ tpc' = "exited"
  /\ UNCHANGED <<timing, offset, events, it, stop, bounds>>

\* A slip to be caught: any wake-up is taken for the end of the time.
WakeSpuriously ==
  /\ tpc = "waiting" /\ ~stop
  /\ tpc' = "visit" /\ it' = 1
  /\ lag' = lag - Tick
  /\ UNCHANGED <<remaining, drift, offset, read, stall, events, stop, bounds>>

\* A slip to be caught: the thread wakes up in time or not at all.
WakeInTime ==
  /\ tpc = "waiting" /\ ~stop /\ remaining = 0
  /\ tpc' = "visit" /\ it' = 1
  /\ lag' = lag - Tick
  /\ UNCHANGED <<remaining, drift, offset, read, stall, events, stop, bounds>>

\* wait_for() returns false: ++m_ticks, and the walk begins.
Wake ==
  /\ tpc = "waiting" /\ ~stop /\ remaining <= 0
  /\ tpc' = "visit" /\ it' = 1
  /\ lag' = lag - Tick
  /\ UNCHANGED <<remaining, drift, offset, read, stall, events, stop, bounds>>

\* A slip to be caught: proc of an interval does not look at its event.
VisitUnchecked ==
  /\ tpc = "visit" /\ it <= Len(events)
  /\ LET e == events[it]
         due == e.elapsed + 1 = e.ticks
         dropped == due /\ e.cancelled /\ ~e.repeats
     IN  /\ events' = IF dropped THEN RemoveAt(events, it)
                      ELSE [events EXCEPT ![it].elapsed = @ + 1]
         /\ tpc' = IF due /\ ~dropped THEN "checked" ELSE tpc
         /\ it' = IF due THEN it ELSE it + 1
  /\ UNCHANGED <<timing, offset, stop, bounds>>

\* One event: it is counted; if it is due, proc looks whether it is cancelled,
\* and then it is erased without a call.
Visit ==
  /\ tpc = "visit" /\ it <= Len(events)
  /\ LET e == events[it]
         due == e.elapsed + 1 = e.ticks
         dropped == due /\ e.cancelled
     IN  /\ events' = IF dropped THEN RemoveAt(events, it)
                      ELSE [events EXCEPT ![it].elapsed = @ + 1]
         /\ tpc' = IF due /\ ~dropped THEN "checked" ELSE tpc
         /\ it' = IF due THEN it ELSE it + 1
  /\ UNCHANGED <<timing, offset, stop, bounds>>

\* proc calls f.  late counts the calls that begin after a cancel(), up to 2.
CallBack ==
  /\ tpc = "checked"
  /\ tpc' = "running"
  /\ events' = [events EXCEPT ![it].late = IF events[it].cancelled /\ @ < 2
                                            THEN @ + 1 ELSE @]
  /\ UNCHANGED <<timing, offset, it, stop, bounds>>

\* A slip to be caught: an event is erased and the next one is skipped.
FinishSkipping ==
  /\ tpc = "running"
  /\ tpc' = "visit" /\ it' = it + 1
  /\ events' = IF events[it].repeats
               THEN [events EXCEPT ![it].elapsed = 0, ![it].age = 0, ![it].since = lag]
               ELSE RemoveAt(events, it)
  /\ UNCHANGED <<timing, offset, stop, bounds>>

\* A slip to be caught: a timeout is rescheduled like an interval.
FinishRepeating ==
  /\ tpc = "running"
  /\ tpc' = "visit" /\ it' = it + 1
  /\ events' = [events EXCEPT ![it].elapsed = 0, ![it].age = 0, ![it].since = lag]
  /\ UNCHANGED <<timing, offset, stop, bounds>>

\* f returns: a timeout is erased, an interval counts from 0 again.
Finish ==
  /\ tpc = "running"
  /\ tpc' = "visit"
  /\ IF events[it].repeats
     THEN /\ events' = [events EXCEPT ![it].elapsed = 0,
                                      ![it].age = 0, ![it].since = lag]
          /\ it' = it + 1
     ELSE /\ events' = RemoveAt(events, it)
          /\ it' = it
  /\ UNCHANGED <<timing, offset, stop, bounds>>

\* A slip to be caught: the walk's own time is not made up for.
MeasureNothing ==
  /\ tpc = "visit" /\ it > Len(events)
  /\ tpc' = "measured"
  /\ drift' = 0 /\ read' = offset /\ stall' = 0
  /\ UNCHANGED <<lag, remaining, offset, events, it, stop, bounds>>

\* The walk is over: drift = realDuration - fakeDuration.
Measure ==
  /\ tpc = "visit" /\ it > Len(events)
  /\ tpc' = "measured"
  /\ drift' = lag + offset /\ read' = offset /\ stall' = 0
  /\ UNCHANGED <<lag, remaining, offset, events, it, stop, bounds>>

-----------------------------------------------------------------------------
(* The users                                                               *)

\* What set_timeout and set_interval insert.  since is the lag that the event's
\* first tick is counted from: a walk under way still has to come by.
NewEvent(h, delay, repeats) ==
  [handle |-> h, ticks |-> delay \div Tick, elapsed |-> 0, repeats |-> repeats,
   cancelled |-> FALSE, late |-> 0, delay |-> delay, age |-> 0,
   since |-> IF InPass THEN lag + Tick ELSE lag]

Register(h, delay, repeats) ==
  /\ h \notin Pending
  /\ events' = Append(events, NewEvent(h, delay, repeats))

SetByUser(h, delay, repeats) ==
  /\ ~stop /\ calls > 0 /\ calls' = calls - 1
  /\ Register(h, delay, repeats)
  /\ UNCHANGED <<tpc, timing, offset, it, stop, jumps>>

SetByCallback(h, delay, repeats) ==
  /\ tpc = "running"
  /\ Register(h, delay, repeats)
  /\ UNCHANGED <<tpc, timing, offset, it, stop, bounds>>

\* cancel() of the ManualEvent that set_timeout or set_interval returned, by
\* any thread, the callback's too.
Cancel(h) ==
  /\ \E i \in 1 .. Len(events) :
       /\ events[i].handle = h /\ ~events[i].cancelled
       /\ events' = [events EXCEPT ![i].cancelled = TRUE]
  /\ UNCHANGED <<tpc, timing, offset, it, stop, bounds>>

\* ~TimeEvent() signals m_event; its join() ends when the thread has exited.
Destroy ==
  /\ ~stop /\ stop' = TRUE
  /\ UNCHANGED <<tpc, timing, offset, events, it, bounds>>

ThreadStep == StartWait \/ StopSeen \/ Wake \/ Visit \/ CallBack \/ Finish \/ Measure

Next ==
  \/ Elapse
  \/ \E jump \in Jumps : SetClock(jump)
  \/ ThreadStep
  \/ \E h \in Handles :
       \/ \E delay \in Delays, repeats \in BOOLEAN : SetByUser(h, delay, repeats)
       \/ \E delay \in CallbackDelays, repeats \in BOOLEAN : SetByCallback(h, delay, repeats)
       \/ Cancel(h)
  \/ Destroy

Spec == Init /\ [][Next]_vars

\* Time goes on and the thread is scheduled; callbacks return.
FairSpec == Spec /\ WF_vars(Elapse) /\ WF_vars(ThreadStep)

-----------------------------------------------------------------------------
(* Properties                                                              *)

EventRecord ==
  [handle : Handles, ticks : Nat \ {0}, elapsed : Nat, repeats : BOOLEAN,
   cancelled : BOOLEAN, late : 0 .. 2, delay : Nat, age : Nat, since : Int]

\* The state is well typed; in a walk the iterator is in the set or at its end,
\* at the event whose proc runs, and no handle is in the set twice.
TypeOK ==
  /\ tpc \in {"measured", "waiting", "visit", "checked", "running", "exited"}
  /\ lag \in Int /\ remaining \in Int /\ drift \in Int
  /\ offset \in Int /\ read \in Int /\ stall \in Nat
  /\ events \in Seq(EventRecord) /\ Cardinality(Pending) = Len(events)
  /\ InPass => it \in 1 .. Len(events) + 1
  /\ tpc \in {"checked", "running"} => it <= Len(events)
  /\ stop \in BOOLEAN /\ calls \in 0 .. MaxCalls /\ jumps \in 0 .. MaxJumps

\* No walk begins before its tick, whatever the callbacks and the scheduler
\* cost in the rounds before, by the clock as it was last read.
PassNeverEarly == InPass => lag + read >= 0

\* The lateness of a round is made up for in the next: but for the stall of this
\* very round, the wait ends on the tick that follows, not a tick after now.
WaitMakesUpForDrift ==
  tpc = "waiting" => lag + read + remaining = Tick + stall

\* An event is called on the tick-th walk it sees, none skipped and none counted
\* twice while others are erased, inserted and rescheduled during the walk: its
\* age is its ticks, corrected by the thread's lag now and when it was set.
FiresOnSchedule ==
  tpc \in {"checked", "running"} =>
    LET e == events[it] IN
      e.elapsed = e.ticks /\ e.age = e.ticks * Tick + lag - e.since

\* cancel() may come between proc's look at the event and the call of f, but
\* then f is called this once and never again.
CancelStopsTheNext == \A i \in 1 .. Len(events) : events[i].late <= 1

\* The set of events and the iterator are well formed, and cancel() holds.
EventsInv == TypeOK /\ CancelStopsTheNext

Has(h, Test(_)) == \E i \in 1 .. Len(events) : events[i].handle = h /\ Test(events[i])

IsInterval(e) == e.repeats

Running(h) == tpc = "running" /\ events[it].handle = h

\* A timeout leaves the set, and so does whatever is cancelled, an interval too.
Ends(e) == ~e.repeats \/ e.cancelled
EventEnds == \A h \in Handles : Has(h, Ends) ~> h \notin Pending \/ stop

\* An interval is called again and again until it is cancelled.
IntervalRepeats ==
  \A h \in Handles : Has(h, IsInterval) ~> Running(h) \/ h \notin Pending \/ stop

\* ~TimeEvent() returns, also while the thread is behind its ticks.
DestructorReturns == stop ~> tpc = "exited"
=============================================================================
