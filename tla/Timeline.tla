------------------------------ MODULE Timeline ------------------------------
(***************************************************************************)
(* The profiler of timer/timeline.h: the Instrumentor that everybody       *)
(* shares, and one InstrumentationTimer per thread at a time.  The file is *)
(* the sequence of what is written to it; the insertions that make up one  *)
(* profile entry are its beginning and its end.  Nothing is locked.  The   *)
(* insertions of two threads are taken to be whole, though their order and *)
(* the increments of m_ProfileCount are not protected.                     *)
(***************************************************************************)
EXTENDS Naturals, Sequences, FiniteSets

CONSTANTS Threads,
          MaxTimers,    \* bound: timers, and calls of stop() that are one too many
          MaxSessions   \* bound: sessions

ASSUME BoundsAssumption == MaxTimers \in Nat /\ MaxSessions \in Nat

VARIABLES
  open,      \* m_OutputStream has its file open
  good,      \* m_OutputStream.good()
  file,      \* what was written to the file opened last
  session,   \* m_CurrentSession is not null
  count,     \* m_ProfileCount
  timer,     \* each thread's InstrumentationTimer
  pc, seen,  \* where each thread is in WriteProfile, and the count it read
  begun,     \* the timers begun since the session began
  clean,     \* the session began by opening a file, on a closed stream with no
             \* timer alive and a count of 0, ends likewise, and no timer is
             \* stopped twice
  timers, sessions

stream == <<open, good, file>>
vars == <<open, good, file, session, count, timer, pc, seen, begun, clean,
          timers, sessions>>

\* No timer is alive.
Quiet == \A t \in Threads : timer[t] = "none" /\ pc[t] = "out"

Init ==
  /\ open = FALSE /\ good = TRUE /\ file = <<>> /\ session = FALSE /\ count = 0
  /\ timer = [t \in Threads |-> "none"]
  /\ pc = [t \in Threads |-> "out"] /\ seen = [t \in Threads |-> 0]
  /\ begun = 0 /\ clean = FALSE /\ timers = MaxTimers /\ sessions = MaxSessions

\* An insertion: dropped by a stream that is not good, and on a closed file it
\* makes the stream bad.
Put(item) ==
  /\ file' = IF good /\ open THEN Append(file, item) ELSE file
  /\ good' = (good /\ open)
  /\ UNCHANGED open

-----------------------------------------------------------------------------
(* Sessions                                                                *)

\* A slip to be caught: a stream that went bad stays bad when a file is opened.
BeginSessionBad(opens) ==
  /\ sessions > 0
  /\ sessions' = sessions - 1
  /\ open' = (open \/ opens) /\ good' = (good /\ ~open /\ opens)
  /\ file' = IF open \/ ~opens THEN file ELSE IF good THEN <<<<"header">>>> ELSE <<>>
  /\ session' = TRUE /\ begun' = 0
  /\ clean' = (~open /\ opens /\ count = 0 /\ Quiet)
  /\ UNCHANGED <<count, timer, pc, seen, timers>>

\* open() fails, and spoils the stream, while a file is open and when the path
\* cannot be opened; otherwise it empties the file and clears the stream.  The
\* header follows.  Nobody looks at the stream: the session begins either way.
BeginSession(opens) ==
  /\ sessions > 0
  /\ sessions' = sessions - 1
  /\ open' = (open \/ opens) /\ good' = (~open /\ opens)
  /\ file' = IF open \/ ~opens THEN file ELSE <<<<"header">>>>
  /\ session' = TRUE /\ begun' = 0
  /\ clean' = (~open /\ opens /\ count = 0 /\ Quiet)
  /\ UNCHANGED <<count, timer, pc, seen, timers>>

\* The footer is written and the file closed; close() fails if there is none.
EndSession ==
  /\ file' = IF good /\ open THEN Append(file, <<"footer">>) ELSE file
  /\ open' = FALSE /\ good' = (good /\ open)
  /\ session' = FALSE /\ count' = 0 /\ clean' = (clean /\ Quiet)
  /\ UNCHANGED <<timer, pc, seen, begun, timers, sessions>>

-----------------------------------------------------------------------------
(* Timers                                                                  *)

StartTimer(t) ==
  /\ timer[t] = "none" /\ timers > 0
  /\ timer' = [timer EXCEPT ![t] = "running"]
  /\ timers' = timers - 1 /\ begun' = begun + (IF session THEN 1 ELSE 0)
  /\ UNCHANGED <<stream, session, count, pc, seen, clean, sessions>>

\* stop() measures the time and calls WriteProfile, also when the timer was
\* stopped already.
Stop(t) ==
  /\ timer[t] # "none" /\ pc[t] = "out"
  /\ pc' = [pc EXCEPT ![t] = "count"]
  /\ \/ timer[t] = "running" /\ UNCHANGED <<clean, timers>>
     \/ timer[t] = "stopped" /\ timers > 0 /\ clean' = FALSE /\ timers' = timers - 1
  /\ UNCHANGED <<stream, session, count, timer, seen, begun, sessions>>

\* The destructor of a timer that was stopped does nothing; of one that was
\* not it calls Stop first.
Destroy(t) ==
  /\ timer[t] = "stopped" /\ pc[t] = "out"
  /\ timer' = [timer EXCEPT ![t] = "none"]
  /\ UNCHANGED <<stream, session, count, pc, seen, begun, clean, timers, sessions>>

\* m_ProfileCount++ is a load ...
LoadCount(t) ==
  /\ pc[t] = "count"
  /\ seen' = [seen EXCEPT ![t] = count]
  /\ pc' = [pc EXCEPT ![t] = "bump"]
  /\ UNCHANGED <<stream, session, count, timer, begun, clean, timers, sessions>>

\* A slip to be caught: the comma is decided by the count after the increment.
StoreCountLate(t) ==
  /\ pc[t] = "bump"
  /\ count' = seen[t] + 1
  /\ pc' = [pc EXCEPT ![t] = "comma"]
  /\ UNCHANGED <<stream, session, timer, seen, begun, clean, timers, sessions>>

\* ... and a store.
StoreCount(t) ==
  /\ pc[t] = "bump"
  /\ count' = seen[t] + 1
  /\ pc' = [pc EXCEPT ![t] = IF seen[t] > 0 THEN "comma" ELSE "begin"]
  /\ UNCHANGED <<stream, session, timer, seen, begun, clean, timers, sessions>>

PutComma(t) ==
  /\ pc[t] = "comma"
  /\ Put(<<"comma">>)
  /\ pc' = [pc EXCEPT ![t] = "begin"]
  /\ UNCHANGED <<session, count, timer, seen, begun, clean, timers, sessions>>

BeginEntry(t) ==
  /\ pc[t] = "begin"
  /\ Put(<<"begin", t>>)
  /\ pc' = [pc EXCEPT ![t] = "end"]
  /\ UNCHANGED <<session, count, timer, seen, begun, clean, timers, sessions>>

EndEntry(t) ==
  /\ pc[t] = "end"
  /\ Put(<<"end", t>>)
  /\ pc' = [pc EXCEPT ![t] = "out"]
  /\ timer' = [timer EXCEPT ![t] = "stopped"]
  /\ UNCHANGED <<session, count, seen, begun, clean, timers, sessions>>

Next ==
  \/ \E opens \in BOOLEAN : BeginSession(opens)
  \/ EndSession
  \/ \E t \in Threads : \/ StartTimer(t) \/ Stop(t) \/ Destroy(t)
                        \/ LoadCount(t) \/ StoreCount(t)
                        \/ PutComma(t) \/ BeginEntry(t) \/ EndEntry(t)

Spec == Init /\ [][Next]_vars

-----------------------------------------------------------------------------
(* Properties                                                              *)

Tokens == {<<"header">>, <<"footer">>, <<"comma">>} \cup {"begin", "end"} \X Threads

TypeOK ==
  /\ open \in BOOLEAN /\ good \in BOOLEAN /\ session \in BOOLEAN
  /\ file \in Seq(Tokens)
  /\ count \in Nat /\ seen \in [Threads -> Nat]
  /\ timer \in [Threads -> {"none", "running", "stopped"}]
  /\ pc \in [Threads -> {"out", "count", "bump", "comma", "begin", "end"}]
  /\ begun \in Nat /\ timers \in 0 .. MaxTimers
  /\ clean \in BOOLEAN /\ sessions \in 0 .. MaxSessions
  /\ open => session
  /\ clean => (session <=> open)

\* A closed file is a JSON text: the header, the entries with one comma between
\* each two of them, and the footer, also in the second session and the third
\* and after sessions that were misused.
IsEntry(f, i) ==
  /\ f[i][1] = "begin" /\ f[i + 1] = <<"end", f[i][2]>>
  /\ i = 2 \/ f[i - 1] = <<"comma">>

IsList(f) ==
  \/ f = <<<<"header">>, <<"footer">>>>
  \/ /\ Len(f) > 1 /\ Len(f) % 3 = 1
     /\ f[1] = <<"header">> /\ f[Len(f)] = <<"footer">>
     /\ \A i \in {j \in 2 .. Len(f) - 2 : j % 3 = 2} : IsEntry(f, i)

FileIsAList == clean /\ ~open => IsList(file)

\* A closed file has one entry for each timer of its session: none was lost,
\* and a timer that was stopped before its destruction has not two.
Entries == {i \in DOMAIN file : file[i][1] = "begin"}
OneEntryPerTimer == clean /\ ~open => Cardinality(Entries) = begun

\* The state is well typed and no closed file lost or doubled an entry.
EntriesInv == TypeOK /\ OneEntryPerTimer
=============================================================================
