-------------------------------- MODULE Event --------------------------------
(***************************************************************************)
(* The two events of timer/time_event.h: AutoEvent (autoReset), a signal   *)
(* of which lets one waiter pass, and ManualEvent, which lets every waiter *)
(* pass until it is reset.  cancel() is signal() under another name.  The  *)
(* mutex is released before the notification.                              *)
(***************************************************************************)
EXTENDS Naturals, FiniteSets

CONSTANTS Waiters, Signalers,  \* threads
          MaxSignals,          \* bound: calls of signal()
          MaxResets,           \* bound: calls of reset()
          MaxSpurious          \* bound: spurious wake-ups

ASSUME EventAssumption ==
  /\ Waiters \cap Signalers = {}
  /\ IsFiniteSet(Waiters) /\ IsFiniteSet(Signalers)
  /\ MaxSignals \in Nat /\ MaxResets \in Nat /\ MaxSpurious \in Nat

VARIABLES
  autoReset,  \* which of the two classes the event is of
  signaled,   \* m_signaled
  sleeping,   \* the waiters blocked in m_cv
  pc,         \* where each thread is
  timed,      \* the waiters that called wait_for or wait_until
  sent,       \* calls of signal() that have set m_signaled
  passed,     \* waits that have ended because of a signal
  resets, spurious

eventVars == <<autoReset, signaled, sleeping, pc, timed, sent, passed, resets, spurious>>

EventInit ==
  /\ autoReset \in BOOLEAN /\ signaled \in BOOLEAN /\ sleeping = {} /\ timed = {}
  /\ pc = [t \in Waiters \cup Signalers |-> "idle"]
  /\ sent = (IF signaled THEN 1 ELSE 0) /\ passed = 0
  /\ resets = MaxResets /\ spurious = MaxSpurious

-----------------------------------------------------------------------------
Signal(s) ==
  /\ pc[s] = "idle" /\ sent < MaxSignals
  /\ signaled' = TRUE /\ sent' = sent + 1
  /\ pc' = [pc EXCEPT ![s] = "notify"]
  /\ UNCHANGED <<autoReset, sleeping, timed, passed, resets, spurious>>

\* A slip to be caught: a ManualEvent that notifies one waiter only.
NotifyOne(s) ==
  /\ pc[s] = "notify"
  /\ \/ sleeping = {} /\ UNCHANGED sleeping /\ pc' = [pc EXCEPT ![s] = "idle"]
     \/ \E w \in sleeping : /\ sleeping' = sleeping \ {w}
                            /\ pc' = [pc EXCEPT ![s] = "idle", ![w] = "test"]
  /\ UNCHANGED <<autoReset, signaled, timed, sent, passed, resets, spurious>>

\* A slip to be caught: nobody is notified.
NotifyNone(s) ==
  /\ pc[s] = "notify" /\ pc' = [pc EXCEPT ![s] = "idle"]
  /\ UNCHANGED <<autoReset, signaled, sleeping, timed, sent, passed, resets, spurious>>

\* notify_one() of an AutoEvent, notify_all() of a ManualEvent.
Notify(s) ==
  /\ pc[s] = "notify"
  /\ \E woken \in SUBSET sleeping :
       /\ IF autoReset THEN Cardinality(woken) = (IF sleeping = {} THEN 0 ELSE 1)
          ELSE woken = sleeping
       /\ sleeping' = sleeping \ woken
       /\ pc' = [t \in DOMAIN pc |-> CASE t = s -> "idle"
                                       [] t \in woken -> "test"
                                       [] OTHER -> pc[t]]
  /\ UNCHANGED <<autoReset, signaled, timed, sent, passed, resets, spurious>>

\* reset() of a ManualEvent.
Reset(s) ==
  /\ ~autoReset /\ pc[s] = "idle" /\ resets > 0
  /\ signaled' = FALSE /\ resets' = resets - 1
  /\ UNCHANGED <<autoReset, sleeping, pc, timed, sent, passed, spurious>>

CallWait(w, withTimeout) ==
  /\ pc[w] = "idle"
  /\ pc' = [pc EXCEPT ![w] = "test"]
  /\ timed' = IF withTimeout THEN timed \cup {w} ELSE timed \ {w}
  /\ UNCHANGED <<autoReset, signaled, sleeping, sent, passed, resets, spurious>>

\* A slip to be caught: an AutoEvent that stays signaled after a timed wait.
PassKeeping(w) ==
  /\ pc[w] \in {"test", "timed_out"} /\ signaled
  /\ passed' = passed + 1
  /\ signaled' = IF autoReset /\ w \notin timed THEN FALSE ELSE TRUE
  /\ pc' = [pc EXCEPT ![w] = "idle"]
  /\ UNCHANGED <<autoReset, sleeping, timed, sent, resets, spurious>>

\* The predicate holds: the wait returns (true), and an AutoEvent is reset.
\* So it does when it holds in the test after a timeout.
Pass(w) ==
  /\ pc[w] \in {"test", "timed_out"} /\ signaled
  /\ passed' = IF autoReset THEN passed + 1 ELSE passed
  /\ signaled' = ~autoReset
  /\ pc' = [pc EXCEPT ![w] = "idle"]
  /\ UNCHANGED <<autoReset, sleeping, timed, sent, resets, spurious>>

Sleep(w) ==
  /\ pc[w] = "test" /\ ~signaled
  /\ sleeping' = sleeping \cup {w}
  /\ pc' = [pc EXCEPT ![w] = "sleeping"]
  /\ UNCHANGED <<autoReset, signaled, timed, sent, passed, resets, spurious>>

\* The time of a timed wait is over; the predicate is tested once more.
TimeOut(w) ==
  /\ w \in sleeping /\ w \in timed
  /\ sleeping' = sleeping \ {w}
  /\ pc' = [pc EXCEPT ![w] = "timed_out"]
  /\ UNCHANGED <<autoReset, signaled, timed, sent, passed, resets, spurious>>

\* wait_for() and wait_until() return false.
GiveUp(w) ==
  /\ pc[w] = "timed_out" /\ ~signaled
  /\ pc' = [pc EXCEPT ![w] = "idle"]
  /\ UNCHANGED <<autoReset, signaled, sleeping, timed, sent, passed, resets, spurious>>

SpuriousWake(w) ==
  /\ w \in sleeping /\ spurious > 0
  /\ sleeping' = sleeping \ {w} /\ spurious' = spurious - 1
  /\ pc' = [pc EXCEPT ![w] = "test"]
  /\ UNCHANGED <<autoReset, signaled, timed, sent, passed, resets>>

WaiterStep(w) == Pass(w) \/ Sleep(w) \/ GiveUp(w)

EventNext ==
  \/ \E s \in Signalers : Signal(s) \/ Notify(s) \/ Reset(s)
  \/ \E w \in Waiters : \/ \E withTimeout \in BOOLEAN : CallWait(w, withTimeout)
                        \/ WaiterStep(w) \/ TimeOut(w) \/ SpuriousWake(w)

EventSpec == EventInit /\ [][EventNext]_eventVars

\* Threads that are not blocked run, and a timed wait times out.
FairEventSpec == /\ EventSpec
            /\ \A s \in Signalers : WF_eventVars(Notify(s))
            /\ \A w \in Waiters : WF_eventVars(WaiterStep(w)) /\ WF_eventVars(TimeOut(w))

-----------------------------------------------------------------------------
(* Properties                                                              *)

EventTypeOK ==
  /\ autoReset \in BOOLEAN /\ signaled \in BOOLEAN
  /\ sleeping \subseteq Waiters /\ timed \subseteq Waiters
  /\ pc \in [Waiters \cup Signalers ->
               {"idle", "notify", "test", "sleeping", "timed_out"}]
  /\ sleeping = {w \in Waiters : pc[w] = "sleeping"}
  /\ sent \in Nat /\ passed \in Nat
  /\ resets \in 0 .. MaxResets /\ spurious \in 0 .. MaxSpurious

\* A signal is not lost: while the event is signaled nobody sleeps, unless a
\* notification is still to come or a waiter that is awake will use the signal.
NoStuckWaiter ==
  signaled /\ sleeping # {} =>
    \/ \E s \in Signalers : pc[s] = "notify"
    \/ autoReset /\ \E w \in Waiters : pc[w] \in {"test", "timed_out"}

\* The state of the event: well typed, and no signal lost.
EventInv == EventTypeOK /\ NoStuckWaiter

\* A signal of an AutoEvent lets at most one waiter pass, also when it arrives
\* while a timed wait times out.
OnePassPerSignal == passed + (IF signaled /\ autoReset THEN 1 ELSE 0) <= sent

\* A waiter of a ManualEvent does not sleep on while the event stays signaled.
WaitReturns ==
  \A w \in Waiters :
    ~autoReset /\ pc[w] = "sleeping" /\ signaled ~> pc[w] # "sleeping" \/ ~signaled
=============================================================================
