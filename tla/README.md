# newplan_toolkit in TLA+

A verification project for [newplan_toolkit](../src/README.md), a C++ tool box:
queues, a thread pool, a memory pool, timers, a profiler, command-line flags and
some helpers. The parts do not call each other, except that `time_event.h` is
built on its own two event classes and `main.cc` shows the flags in use; each
part is therefore a specification of its own. What makes the parts hard is inside
them: lock-free code, condition variables, threads that end while others work,
callbacks that change what is being walked through, and bookkeeping that must
survive any order of calls.

Contents: [inventory](#inventory), [modules](#the-modules-and-the-code),
[runs](#runs), [bounds](#bounds), [fairness](#fairness), [proofs](#proofs),
[findings](#findings), [not modelled](#not-modelled), [plan](#plan).

## Inventory

| component | state it keeps | operations | what is hard | what makes it correct |
|---|---|---|---|---|
| `queue/spsc_queue.h` `SPSCQueue` | ring of raw slots, `head_` (producer), `tail_` (consumer) | `emplace`, `try_emplace`, `push`, `try_push`, `front`, `pop`, `blocking_pop`, `size`, `empty`, destructor | two threads without a lock; loads of the other index may be old; constructors that throw; moved-from objects | a slot is never in two hands, FIFO order, nothing leaked, blocked calls return |
| `queue/blocking_queue.h` `BlockingQueue` | `std::queue`, mutex, condition variable | `push`, `pop`, `pop(log)`, `try_pop`, `peek`, `try_peek`, `size`, `nonblocking_size` | the notification comes after the unlock; `pop` and `peek` wait on one condition; spurious wake-ups; throwing copies | FIFO, no lost wake-up |
| `thread/thread_pool.h` `ThreadPool` | task queue, `running_`, `complete_`, `available_`, one mutex, two condition variables | constructor, `runTask`, `waitWorkComplete`, `main_loop`, destructor | tasks that throw or submit tasks; the destructor against sleeping workers; a wait that is not in a loop | each task once, `complete_` exact, waits end |
| `bfc_allocator/` `BfcAllocator` | chunk register, bins, links between chunks, byte counters | `allocate`, `release`, `extend`, `splitChunk`, `coalesce`, `shrink`, destructor | aliases into erased set elements, rounding at the width of `size_t`, threads between the mutexes | chunks disjoint and linked, bins hold the free chunks, sums exact |
| `timer/time_event.h` `AutoEvent`, `ManualEvent` | `m_signaled`, mutex, condition variable | `signal`, `reset`, `cancel`, `wait`, `wait_for`, `wait_until` | a timeout racing a signal | no signal lost, at most one passer per signal of an `AutoEvent` |
| `timer/time_event.h` `TimeEvent` | the set of events, `m_tick`, `m_ticks`, the drift | `set_timeout`, `set_interval`, the returned handle's `cancel`, the thread, destructor | erasing and inserting during the walk, `cancel` between check and call, lateness, a clock that is set | every event called on its tick, drift made up for, destructor returns |
| `timer/timeline.h` `Instrumentor`, `InstrumentationTimer` | a file stream, `m_ProfileCount`, the session | `BeginSession`, `EndSession`, `WriteProfile`, timers | misused sessions, threads without a lock | a closed file is a JSON list with one entry per timer |
| `cmdlines` `Flags` | the caller's `argv`, the flags' variables | `Flags::Parse`, `Flags::Usage` | names that begin other names, several calls on one `argv`, in-place rewriting, widths | what remains, what is stored and what is returned agree |
| `cmdlines` `tstring` | a 24-byte union of four representations | assignment, moves, views, `append`, `insert`, `erase`, `resize`, `reserve`, `swap`, `operator+`, `compare` | aliasing, ownership, capacity arithmetic, changes of representation | one owner per buffer, text terminated, holds what a `std::string` would |
| `cmdlines` `str_util`, `stringprintf` | none | consuming, rewriting, splitting and printing functions | overflow that is detected after it happened, two passes that must agree, a loop that searches what it changes | agree with a reference definition |
| `timer/time_record.h` `Timer` | two flags, two time points | `Start`, `Stop`, four readings | a reading stops the timer | |
| `logger/`, `net/`, `thread/thread_perf.h`, `backtrace/`, `timer/timeline.py` | almost none | environment, kernel and `/proc` queries, formatting | | |

The full list of hazards, each with its line and the properties that would catch
it, is `hazards` in `PROJECT.json`.

## The modules and the code

Each `MCx` module gives `x` its small sets of threads, values and sizes, and the
`.cfg` files select among them. `map` in `PROJECT.json` ties every definition to
its lines. Definitions whose comment begins "A slip to be caught" are not part of
a specification: they are wrong versions of the definition below them, kept to
show that the properties notice the difference.

**BoundedFifo** is what both queues promise: a sequence, appended to at one end,
shortened at the other, never longer than `Bound`. `SPSCQueue` and
`BlockingQueue` are checked to implement it (`ImplementsFifo`).

**SPSCQueue** takes one step per access to shared memory. `head_` and `tail_` are
read exactly by the thread that writes them; an acquire load of the other
thread's index returns any value from the one seen last up to the current one
(`Visible`), which is what coherence leaves open. `ppc` and `cpc` are positions
inside `emplace`/`try_emplace` and inside `front`/`pop`/`blocking_pop`;
`sawItem` and `sawRoom` remember what the caller learnt from `front()`,
`empty()` and `size()`. The destructor is `front()`/`pop()` in a loop after both
threads have gone. The refinement maps the items to the slots from `First` to
`head_`: an item enters with the store of `head_` and leaves when it is moved
from or destroyed, not when `tail_` is stored.

**BlockingQueue** has a mutex with an owner, the set of threads in
`condition_.wait` and a notification that is a step of its own after the unlock.
Copies of items may throw (`CopyThrows`), waits may end spuriously. `wasted`
remembers that a notification may have gone to a call that takes no item: a
`peek()`, or a `pop()` whose copy throws. `pop(log)` is `pop()`: its message is
left out.

**ThreadPool**: what happens between taking `mutex_` and releasing it, or
waiting, is one step, since only `running_` is read without it. `waiting` and
`awaiting` are the sleepers of the two condition variables. Any task may return,
throw a `std::exception`, throw something else, or call `runTask()`.

**BfcAllocator** keeps the pool in a record; the private functions are operators
from record to record, so that `Allocate` is the whole of `allocate()` under the
mutex. A `Chunk*` is the pair of address and size: the register erases and
re-inserts a chunk whose size changes, and a pointer to the old one is then
dangling. A failed `ASSERT` or the use of a dangling pointer sets `fault`.
`allocatedMap_` and `currAllocated_` change in separate steps, as in the code.
`size_t` arithmetic is modulo `Word`.

**Event** is both event classes; `autoReset`, chosen at the start, tells them
apart. `sent` and `passed` count the signals it was given and the waiters it let
through.

**TimeEvent** has discrete relative time: `lag` is how far the present is beyond
`start + m_tick * m_ticks`, `remaining` what is left of the wait. This keeps the
states finite although ticks are counted for ever. `Visit`, `CallBack` and
`Finish` are the three parts of one event in the walk, with users and callbacks
between them. Insertions are assumed to be serialised with the walk by the
caller: `set_timeout` inserts into a `std::set` the thread walks through, without
a lock, and a torn set has no meaning to model.

**Timeline**: the file is the sequence of insertions; a stream that is not good
drops them, and `open()` may fail. `clean` marks the sessions whose file the
properties speak of: begun by opening a file, with no timer alive and a count of 0,
and ended likewise. A session that begins with a count that a timer left behind
(stopped outside any session) has a list that starts with a comma; it is not clean.

**CommandLineFlags**: an argument is a sequence of tokens, cut so that one text
is a prefix of another exactly when it is one in the program. One action per
argument, one for the final rewriting of `argv`. The properties describe a call by
the whole line (`given`), not by the loop that reads it: what an argument stands for
(`Meant`) is the number that was written, not what `sscanf` makes of it, and the
cases in which the two differ are named (`Cut`, `CutTaken`).

**TString**: the `TF_TString_*` functions are operators from memory to memory.
Memory is the objects, each one of the four representations (`small`, `large`,
`view`, `offset`), and a heap of buffers; a character nobody has written, or that
was freed, is `Wild`. `operator+` works in a `Temporary` that is moved from, as in
the code. The size field of an `offset` object is read as a little-endian host does
it: `TF_le32toh` takes the field apart into `SizeBytes` bytes and puts them together
in the other order (see finding 10). The history variable `text` holds the text a
`std::string` would hold after the same calls, computed side by side with the
memory: `Dead` for a destroyed object, `Lost` where `std::string` has an answer and
`tstring` has not. `from` is the object whose text a view shows; it makes the views
of an object `Lost` when the object changes, which is what the user of a view has to
avoid. Arguments may be the changing object itself, a view of it (except for
`assign_as_view` and `swap`) or characters of its own text (`AssignInside`,
`AppendInside`). `memcpy` reads what it copies before it writes; the code calls it
with overlapping arguments only where the model says `Lost`, or copies a text onto
itself (`s.assign(s.c_str())`).

**StrUtil**: each function is an operator on texts, whose characters are ASCII
codes, and an action that applies it to the current text, `piece`. The functions
that consume change it, those that return leave it; `call` is the last call with
what it returned, `whole` and `tokens` are what a caller has split by hand so far.

## Runs

Runs that are expected to pass check their properties on every reachable state of
the instance; the other two show a disagreement (see [findings](#findings)).

| run | question | properties |
|---|---|---|
| `SPSCQueue` | Does the ring keep slots exclusive, destroy everything, keep room once seen and implement the FIFO, with the oldest loads allowed; do a blocked `emplace()` and `blocking_pop()` return? | `SlotsInv`, `NothingLeaks`, `RoomIsStable`, `ImplementsFifo`, `SpinsEnd` |
| `BlockingQueue` | Is it a FIFO with exceptions, `peek` and `try_` calls between; while somebody waits, is every item announced or about to be taken; does a waiting `pop()` get out, as long as no notification was wasted? | `QueueInv`, `ImplementsFifo`, `PopReturns` |
| `ThreadPool` | Is `complete_` exact, each task in one place, no wake-up lost, with tasks that may end the process; does `waitWorkComplete()` cover what was submitted before, does it end, does every task run, does the destructor return? | `CompleteIsExact`, `TasksInv`, `WaitCoversEarlierTasks`, `EveryTaskRuns`, `LoneWaitEnds`, `DestructorEnds` |
| `BfcAllocator` | Do the assertions hold, are links, bins and sums exact, does everything go back, do two clients never share memory, does `allocatedBytes()` stay below `cachedBytes()`, with a size that wraps to 0 too? | `PoolInv`, `AllReturned`, `ClientsAreDisjoint`, `AllocatedWithinCached` |
| `Event` | Is no signal lost, does an `AutoEvent` let one waiter pass per signal, does a `ManualEvent` that stays signaled let all of them? | `EventInv`, `OnePassPerSignal`, `WaitReturns` |
| `TimeEvent` | Is lateness made up for while the clock is set back and forth; does each event fire on its tick while others are erased, inserted, cancelled and rescheduled; do timeouts end, intervals repeat, cancelled events go, does the destructor return? | `PassNeverEarly`, `WaitMakesUpForDrift`, `FiresOnSchedule`, `EventsInv`, `EventEnds`, `IntervalRepeats`, `DestructorReturns` |
| `Timeline` | Is a closed file a list with one entry per timer, after misuse too? | `FileIsAList`, `EntriesInv` |
| `CommandLineFlags` | Do what remains in `argv`, what is stored and what is returned agree with the whole line, numerals that are cut left out by name; does a second call find nothing more? | `ArgvInv`, `OutcomeInv`, `SecondParseFindsNothing` |
| `TString` | Has every buffer one owner that knows its size, is owned text terminated, does every object hold what a `std::string` would, after calls with the object, views of it and its own characters too, and is `compare` an order? | `HeapInv`, `OwnedTextEnds`, `TextInv` |
| `StrUtil` | Are numbers exact or refused, do the two passes of `ArgDefCase` agree, does `StringReplace` end without searching what it put in, is printed output whole, do tokens taken one by one make up what `Split` finds? | `NumbersAreExact`, `ArgDefCaseInv`, `RewritesInv`, `WordsInv` |
| `ThreadPool_twowaiters` | finding 1 | `EveryWaitEnds` |
| `Timeline_threads` | finding 2 | `FileIsAList` |

The type invariant of a module is the first conjunct of the property named after
its main invariant (`SlotsInv`, `QueueInv`, `TasksInv`, `PoolInv`, `EventInv`,
`EventsInv`, `EntriesInv`, `ArgvInv`, `HeapInv`). StrUtil has none: its state is
texts and the last call, and every property looks into both.

`CHECK_DEADLOCK FALSE` is set everywhere because every instance may stop for a
good reason: callers have used up their calls, the object was destroyed, or
everybody waits for an item nobody will push. That nobody waits for something
that is there is what `NoLostWakeup` (in `QueueInv` and in `TasksInv`),
`NoStuckWaiter` (in `EventInv`) and the liveness properties say instead.

## Bounds

- SPSCQueue needs none: indices wrap. Capacity 4, that is three items, so that the
  ring can be full, empty, wrapped and neither (94,482 states).
- BlockingQueue: `MaxItems`, `MaxCalls`, `MaxSpurious`. Two items and six calls
  by one pusher, two poppers and a peeker let two waits, two `push()` and two
  further calls overlap, a second `push()` before anybody has woken up; one
  spurious wake-up puts an awake thread in competition with a notified one.
- ThreadPool: two workers, two clients, three tasks, one spurious wake-up of each
  condition variable. `available_` takes all its values, a spawning task competes
  with a finishing one, and there may be more tasks than workers.
- BfcAllocator: addresses below 14 in units of 2, two bins, a limit of 10 bytes,
  requests of 1, 4, 5 and 31 bytes with a `size_t` of 32 values. Two regions,
  splits, both-sided coalescing, a region that returns to the system and another
  that grows, a request cut by the limit, and one that rounds to 0 all occur.
- Event: three waiters, two signalers, four signals, two resets, one spurious
  wake-up.
- TimeEvent: `MaxLag` bounds lateness only, never the length of the run: time is
  relative. A tick of 2, a user's delay of 3 and a callback's of 5, two handles,
  one setting of the clock by -1 or 2, lateness of 1. Drift above and below 0, two
  events at once, delays that are no multiple of the tick, and a callback that
  sets a new event in its own place occur (481,594 states).
- Timeline: three sessions, each of which may fail to open its file, and four
  timers of one thread. A session with leftovers of another, or without a file, and
  one after are what a wrong stream or count needs to show.
- CommandLineFlags: every line of up to three of thirteen arguments, three lists of
  flags, two calls. Three places suffice for accepted-refused-accepted orders and
  for `--` between two arguments; the numbers need one value for each of: fits
  both widths, fits the larger only, fits neither.
- TString: two objects and the temporary, texts of up to three characters, a small
  capacity of 1 and an alignment of 2, four buffers, `reserve()` of 3 and 6, and an
  OFFSET size field of two bytes of four values each (10,574 states). An
  object becomes each representation out of each other one, grows within its
  buffer and beyond it, and shrinks back; two objects view, append, insert and
  swap with each other and with themselves. Four buffers are enough for a call
  that moves one while both objects and the temporary own theirs. Of the OFFSET
  sizes 0, 2 and 3 only 2 comes out of the swapped bytes as it was, so that there are
  OFFSET strings of either kind. One case needs longer texts than these: characters
  of the own text that lie wholly behind the new end and are assigned in place
  (`s.assign(s.c_str() + 2, 1)` in a SMALL string). The theorem covers it.
- StrUtil: texts of up to four characters of six kinds (space, dash, two
  digits, an upper and a lower case letter), a type of 32 values, which numbers of
  two digits miss and exceed, and a buffer of 3 characters, which texts miss, meet
  and exceed. `StringReplace` has "", "b" and "bb" for what is replaced and for
  what replaces it, so that results contain what was searched (about 224,000
  states).

Symmetry is used in `BfcAllocator` (threads) and `TString` (objects), which check
safety only, on values that no action distinguishes.

## Fairness

- SPSCQueue: a thread inside a call runs (weak fairness of its steps). Strong
  fairness of the loads that return the CURRENT index says that a store becomes
  visible in finite time, as the C++ standard asks; old values may be returned any
  finite number of times. The run's workload calls the blocking operations again
  and again.
- BlockingQueue, ThreadPool, Event: weak fairness of the steps of each thread.
  Calls, tasks and spurious wake-ups are bounded, so that a thread that wants the
  mutex finds it free in the end and no assumption on the mutex is needed. Calls,
  spurious wake-ups and the decision to destroy are never forced. Timed waits time
  out.
- TimeEvent: time passes and the thread is scheduled. Callbacks return. Nothing
  forces the users, the setting of the clock or the destructor.
- `BfcAllocator`, `Timeline`, `CommandLineFlags`, `TString` and `StrUtil` run in
  the thread that calls them, to the end, and are checked for safety only.

## Proofs

Eight modules hold theorems, checked by TLAPS for every value of the constants:
any number of threads, items, tasks, events, timers and arguments. The assumptions
are those named in the modules (`CapacityAssumption`, `PoolAssumption`,
`TickAssumption`, `NamesAssumption`, ...); TLC evaluates them in every run.

**SPSCQueue_proofs**, for every capacity of at least 2 and every set of values.
The invariant behind `ExclusiveSlots`, `PopIsSafe`, `SlotsCorrect`, `NoLeak` and
`RoomKept` adds to the checked properties the order of the four indices around the
ring (*RingOrder*): from the tail the producer saw last to `tail_`, to the head
the consumer saw last, to `head_`, one never meets them in another order, and
the whole way is shorter than the ring. Distances modulo the capacity satisfy an
addition lemma, from which each of the steps that move or load an index keeps the
order. Raw slots are those from `head_` to `tail_`, full ones those from `tail_`
to `head_`, with one exception for each thread in the middle of its work; this is
what makes a slot seen as free or as full stay so until its owner acts. `PopIsSafe`
is about the assertion at the start of `pop()`; no run checks it by itself.
`RingIsAFifo` is the refinement: each step of the ring is one of BoundedFifo or
leaves the items alone. The store of `head_` adds one at the end (`ItemsGrow`),
the move or the destruction of the oldest object takes one away (`ItemsShrink`),
and what a thread does in a slot outside leaves them alone (`ItemsStay`), a store
of `tail_` included, since `First` has passed the slot already.

**BlockingQueue_proofs**. `NoWakeupIsLost` counts: while somebody waits and no
notification was wasted, there are at least as many pushers about to notify and
poppers awake as there are items. A `push()` adds one to either side, a
notification turns a pusher into a popper, and a `pop()` takes one from both.
`IsAFifo` is the refinement, whose steps are those that change `queue_`.

**ThreadPool_proofs**, for any workers, clients and tasks. `complete_` is
set by a worker that compares `available_ + 1` with `total_`; the comparison means
"I am the last" only because `available_` is the number of workers that run
nothing (`AvailableCountsTheIdle`), which is the strengthening that makes
`CompletionIsExact` inductive. It rests on the lemma that a set of workers loses or
gains exactly one when a worker takes or finishes a task. `TasksCorrect` adds that
nobody is asleep once `running_` is off (`NoSleepAtTheEnd`) and that what a busy
worker holds is a task, which has run when the worker is done (`HeldTasks`).
`WaitCoversTheTasks` is about a step, the return of `waitWorkComplete()`, and needs
what was true at each moment since the call (`WaitInv`): what a client was
promised has been submitted, and once the client is awake, has run, unless a wait
ended by itself. The notification wakes clients when `complete_` is on, which is
when every task submitted so far has run.

**BfcAllocator_proofs**, for every unit, number of bins, limit and width of
`size_t`, any requests and any threads. The invariant `IInv` says of the register

- that its chunks are disjoint intervals (`Fits`), linked to the chunk that begins
  where they end and back (`Linked`), and none of them empty (`Positive`);
- that no two neighbours are free (`Apart`): coalescing has missed none;
- that the bins are an index of the free chunks (`InBins`);
- that `cached` is the number of bytes that chunks cover (`Numbers`);

and of the clients that they hold different chunks in use, each within its chunk,
and that `currAllocated_` is the number of bytes they hold (`OneClientEach`,
`Books`). Bytes are counted as sets, so that "the sum of the sizes" becomes a
cardinality; `SumIsBytes` shows that for disjoint chunks it is the sum that
`CachedIsTheSum` computes. Each private function has a lemma about any pool that
is sound but for a set `X` of chunks that are out of their bins (`Pool(h, X)`):
`InsertKeeps` and `RemoveKeeps` take a chunk out of `X` and into it, `SplitKeeps`
and `MergeKeeps` keep links and intervals together, `FreeKeeps`, `FindKeeps`,
`ShrinkKeeps` and `FinishKeeps` put these together, and with them a step of
`allocate()` or `release()` leads from one pool that is sound between two calls
(`Between`) to the next. A request so large that `roundBytes()` wraps to 0 ends in
the failed `ASSERT` that the code has for it: `AtTheEnd` says what is left then.
`PoolInvariance`, `DisjointInvariance`, `WithinCachedInvariance` and
`ReturnedInvariance` are the four properties of the run.

**TimeEvent_proofs**, for every tick, lateness and setting of the clock.
`NeverEarly` and `DriftIsMadeUpFor` need that between the reading of the clock and
the wait, what has gone by is the stall and nothing else (`DriftIsKnown`).
`EveryEventOnItsTick` and `EventsAreSound` need where every event stands at every
moment (`OnTime`): its age is the time of the ticks counted for it, plus how far
the present is beyond the walk that counted last, minus the lag it was set at.
That walk is the one under way for the events that the iterator has passed and
the one before for the others (`Base`), so that erasing, appending and
rescheduling must move events and iterator together, which is the point. The
module ends with the two classes of event: `NoSignalIsLost` and `SignalsPassOnce`.

**Timeline_proofs**, for one thread (`Threads = {t}`) and any number of sessions
and timers: `OneThreadWritesAList` and `OneThreadWritesEachTimer`. From
`m_ProfileCount` and the place in `WriteProfile` follow the length of the file and
what stands at each place. Finding 2 shows that the assumption is needed.

**CommandLineFlags_proofs**, for every command line and every list of flags:
`UnknownArgumentsStay`, `OneParseIsEnough` and `LineIsRead`. What holds of the
whole line after the return holds of the part before `i` during the scan; one
argument more adds to it or leaves it alone. `LineIsRead` says that a variable has
the very number of its last good argument and that the result is true exactly when
all were parsed correctly, but for numerals that were cut (`Cut`, `CutTaken`). It needs that the flags of a
list have distinct names (`NamesAssumption`), or one would take the other's arguments.

**String_proofs** is about both modules that deal in texts (whose names are kept
apart for it: `StrUtilInit`, `StrUtilNext`, ...). Of StrUtil it proves all four
properties, for every text and every width of at least 16 values.
`ConsumeLeadingDigits` computes at the width of the type and then compares an
eighth of the new value with the old one; `OverflowTestIsExact` says that this
refuses exactly the sums that wrapped. `NumbersInvariance` puts this to work for the
whole loop: as long as nothing was refused, the value is the number that the
digits so far spell (`ValuesAre`), and numbers only grow with their digits
(`DecimalGrows`), so that what is refused at some digit does not fit at the last.
The functions here are recursive. The provers know nothing of such a function
until they are told that there is one: `Recursion` shows that every equation that
leads from smaller numbers to larger ones has a solution, by induction up to a
number given as a set (`UpTo`), which is first-order and needs none of the library
theorems that take an operator. `ArgDefCaseInvariance` compares the two passes of
`ArgDefCase` character by character (`PlacesCount`): the place of each is its
distance from the first letter plus the underscores counted so far. `OutputIsWhole`
is about `Appendv`, on either side of `kSpaceLength`.

`RewritesInvariance` follows two runs of the loop of `StringReplace` side by side
(`ReplacedApart`): the one of the call, and one that puts a mark where the first
puts the new text. Turn by turn (`ApartStep`), the text of the first run is that of the second
with every mark filled in (`Filled`), the text before the call is the same with the
old text for the marks, and both runs have before them the same `u` that nobody
has changed yet; a match lies in `u`, since that is where the search begins
(`MatchesBehind`). What is left of `u` gets shorter with each turn, also when the
old text is empty (`over`), so that the turns the model allows, two more than the
text has characters, are enough for the loop to leave. Putting the old or the new
text for the marks afterwards is the same as filling them in (`MarksReplaced`),
which is this lemma once more, with a second mark. `AlphabetAssumption` has it that the mark,
`Fresh`, is none of the 128 characters.

`WordsInvariance` is by induction over texts (`TextInduction`), one character
after the other, as `Splitting` reads them: what was `Ended` and the word still
open. Where no word is open, two texts have the words of both (`WordsJoin`); so
white space at either end has none (`WordsBefore`, `WordsBehind`), and a token
taken from the front is the first of the words (`FirstWord`). The inductive
invariant `WordsSoFar` adds that `tokens` is a list of texts. That the parts,
joined, are the text (`PartsJoin`) and have no delimiter in them (`PartsApart`) is
an induction of the same kind, for any delimiters.

Of TString it proves all three properties, for any objects, characters, texts and
capacities, and as many buffers as it takes for `malloc` to find one
(`BuffersAssumption`). `StringsInv` says of memory that it is `Sound`: the four
representations have the fields they should have, owned texts end within their
capacity (`Ends`), no buffer has two owners and none is left without (`Owned`).
Of every object whose text is not `Lost` it says that it shows its text, and of a view that what it
points to is an array or the characters of an object that it is known to view
(`Shows`): without this, a step that moves the characters of one object could
change what another shows. Each function from memory to memory has a lemma that
speaks of any sound memory, with the same three parts: memory is sound again,
the object has the text that `std::string` would give it, and all others and
their buffers are as they were (`Effect`, `Holds`, `Gives`). Functions are put
together as in the code: `InsertIs` follows from `OpenIs`, `ResizeIs` and `WriteIs`,
`PlusIs` from `ReserveIs`, `AppendIs` and `MoveBuffer`. Then each method has a lemma
(`AssignTextKeeps`, ..., `ConcatenateKeeps`) that keeps `StringsInv`, with the
calls that lose a text as a case of its own (`LostKeeps`). Where an argument lies in
the object's own text the lemmas show that it is still there when it is read
(`ReadsAre`), which is what the conditions for `Lost` are made of. The theorems hold
for any number of byte values and of bytes in the size field: no OFFSET string is
assumed to be read rightly, a misread one (`Misread`) begins as `Lost`. That `compare()` is an
order rests on `CompareIs`: the answer tells whether one of the texts `Precedes`
the other, which only one of them can, and which is transitive.

Only model-checked: all liveness, which TLAPS cannot reason about (fairness and
ENABLED are out of its reach): `SpinsEnd`, `PopReturns`, `EveryTaskRuns`,
`LoneWaitEnds`, `DestructorEnds`, `WaitReturns`, `EventEnds`, `IntervalRepeats` and
`DestructorReturns`. Every invariant and every action property of the runs that pass
is stated by a theorem, Timeline's for one thread.

## Findings

The first two are the counterexamples of the runs that expect a violation.

1. `ThreadPool_twowaiters`: of two waiting clients only one is notified.
2. `Timeline_threads`: two profiled threads produce a file that is no JSON list.

The models also contain these, as the condition under which a property holds or
as something no property covers:

3. `BlockingQueue`: a `peek()` may consume the only notification and leave a
   `pop()` waiting on a queue that has an item; so may a `pop()` whose copy
   throws. `NoLostWakeup` and `PopReturns` hold as long as this has not happened
   (`wasted`), which says that nothing else can break them.
4. `ThreadPool`: `waitWorkComplete()` waits under an `if`; after a spurious
   wake-up it returns early. `WaitCoversEarlierTasks` holds as long as there was
   none.
5. `ThreadPool`: `runTask()` does not look at `available_`, though the comment at
   line 145 says so; and "Suppress all exceptions" (line 201) covers
   `std::exception` only.
6. `blocking_queue.h:41`: the test of `pop_count` is inverted; the first
   `pop(log)` that blocks writes nothing. Not modelled.
7. `CommandLineFlags`: a bool flag takes the arguments of every later flag whose
   name begins with its own, without asking what follows the name. It cannot read
   them: `NamedFlagGetsItsValue` says that the argument reaches the flag it names or,
   where a bool flag stands before it (`Shadowed`), that the result is at least false.
8. `CommandLineFlags`: a number too large for the variable is cut (lines 53 and 79)
   and reported as parsed, while `command_line_flags.h:126` says "Return true iff all
   recognized flag values were parsed correctly". `--n=5` with an int of three bits
   is on the lines of the run; `LastGoodValueWins` and `TrueIffParsed` name the case
   (`Cut`, `CutTaken`) and say nothing of what such a numeral stores and returns.
9. `tstring`: what a call reads in the object's own text may be gone, while
   `tstring.h:48` promises the semantics of `std::string`, which has an answer to all
   of these (`ctstring.h:79-81` and `95-96` warn that source and destination must not
   share memory). The text is `Lost`
   - when a string, a view of it or characters of it are appended to it and its text
     has moved to the heap or there (`AppendTo`, `AppendInside`);
   - when characters of it are assigned to it and it has moved, or its new end, the
     `'\0'`, falls into them (`AssignInside`);
   - when a view of it is assigned or moved to it (`AssignString`, `MoveString`): the
     view shows what was just given up;
   - when a string is inserted into itself, or a view of it is, from behind the gap,
     or a view of it after the text has moved (`InsertString`).

   In every other call of these methods with an argument of this kind the text is the
   one of `std::string`, which `TextInv` checks and `TextInvariance` proves.
10. `tstring`: on a little-endian host `TF_le32toh` swaps the bytes of an OFFSET
   string's size (`ctstring_internal.h:48-52`, used in line 197), though a
   little-endian number needs none there, and the type, read from the lowest byte (line
   142), shows that the size is one. The two type bits end up in bits 22 and 23: no
   OFFSET string shows fewer than 8,388,608 characters, and one of 3 shows
   58,720,256. Only sizes whose bytes read the same both ways come out right. Such
   strings are `Lost` from the beginning (`Misread`); the type is "currently unused"
   (`ctstring.h:47`).
11. `str_util.h:121`: `SkipEmpty` answers true for the empty text as well, and so
   does `AllowEmpty`: `Split` with either keeps the empty tokens. `Split` is
   modelled as it is; no property says that they are skipped.

## Not modelled

- `logger/`, `net/`, `thread_perf.h`, `backtrace/`, `timeline.py`: input, output
  and formatting, with no state whose order of changes matters. The `Tracer` map
  in `logging.h` would, but `LOG_TERMINAL` compiles it out.
- `Timer`: two flags and two time points of one thread; a reading stops it, and
  there is nothing more to say of it.
- The functions of `str_util` that hand their arguments to abseil, and `Strnlen`.
- In `tstring` the `Cord` conversions, which are compiled for another platform,
  the big-endian layout, and allocation that fails.
- `Flags::Usage`: text only. The rounding of floats.
- Data races, which have no meaning to model: `allocatedMap_` of BfcAllocator, read
  and written outside the mutex; a `set_timeout` of TimeEvent while the thread
  walks; the thread of TimeEvent, started before `m_events` is constructed. The
  models show what holds when callers keep clear of them.
- In TimeEvent a callback that sets a timeout of one tick, which the same walk
  comes to at once: re-armed for ever, the walk would not end. In BfcAllocator the
  debug output (`dump`), `peakAllocated_`, and the back-off after a failed
  `malloc`, which the code exits on. `exit()` in a failed `ASSERT` also destroys the
  static allocator, whose `shrink()` may then fail an `ASSERT` of its own on a chunk
  that is in no bin (line 124); the model stops at `exited`, since nobody calls the
  allocator any more.
- Platform headers, examples and tests.

## Plan

Done: the modules above, in the order queues, pool, allocator, events, timeline,
flags, strings; and the proofs of every safety property of the queues, the pool,
the allocator, the events, the timer thread, the timeline (one thread) and the
flags, `tstring` and StrUtil.

Next for TLC: three objects of TString with a smaller set of calls, and a third
handle of TimeEvent.
