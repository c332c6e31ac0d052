--------------------------- MODULE Timeline_proofs ---------------------------
(***************************************************************************)
(* The profiler of one thread writes a list with one entry per timer,      *)
(* proved for any number of sessions and timers, misused ones between.     *)
(*                                                                         *)
(* m_ProfileCount tells how much of the file there is: the invariant says  *)
(* how long the file is, given the count and where WriteProfile stands,    *)
(* and which item is at which place.                                       *)
(***************************************************************************)
EXTENDS Timeline, FiniteSetTheorems, SequenceTheorems, TLAPS

\* What is at a place of a list of entries of t, up to the footer.
Item(k, t) ==
  IF k = 1 THEN <<"header">>
  ELSE IF k % 3 = 2 THEN <<"begin", t>>
  ELSE IF k % 3 = 0 THEN <<"end", t>> ELSE <<"comma">>

\* How much of the file there is.
Length(t) ==
  IF pc[t] = "comma" THEN 3 * count - 3
  ELSE IF pc[t] = "begin" THEN 3 * count - 2
  ELSE IF pc[t] = "end" THEN 3 * count - 1
  ELSE IF count = 0 THEN 1 ELSE 3 * count

Begun(t) == IF pc[t] \in {"comma", "begin"} THEN count - 1 ELSE count

\* The timer alive has not been counted yet.
Uncounted(t) == timer[t] = "running" /\ pc[t] \in {"out", "count", "bump"}

InSession(t) ==
  /\ good
  /\ Len(file) = Length(t) /\ \A k \in 1 .. Len(file) : file[k] = Item(k, t)
  /\ Cardinality(Entries) = Begun(t)
  /\ begun = count + (IF Uncounted(t) THEN 1 ELSE 0)
  /\ pc[t] # "out" => timer[t] = "running"
  /\ pc[t] = "bump" => seen[t] = count
  /\ pc[t] \in {"comma", "begin", "end"} => count > 0
  /\ pc[t] = "comma" => count > 1

AfterSession == IsList(file) /\ Cardinality(Entries) = begun

TInv(t) ==
  /\ TypeOK
  /\ clean /\ open => InSession(t)
  /\ clean /\ ~open => AfterSession

-----------------------------------------------------------------------------
(* Lists of entries.                                                       *)

LEMMA Thirds ==
  ASSUME NEW n \in Nat
  PROVE  (3 * n) % 3 = 0 /\ (3 * n + 1) % 3 = 1 /\ (3 * n + 2) % 3 = 2
  OBVIOUS

\* An item is put at the end: the list goes on, with or without an entry more.
LEMMA PutAppends ==
  ASSUME file \in Seq(Tokens), NEW item \in Tokens, file' = Append(file, item)
  PROVE  /\ file' \in Seq(Tokens) /\ Len(file) \in Nat /\ Len(file') = Len(file) + 1
         /\ file'[Len(file) + 1] = item /\ \A k \in 1 .. Len(file) : file'[k] = file[k]
         /\ Cardinality(Entries) \in Nat
         /\ Cardinality(Entries') = Cardinality(Entries) + (IF item[1] = "begin" THEN 1 ELSE 0)
<1>1. /\ file' \in Seq(Tokens) /\ Len(file) \in Nat /\ Len(file') = Len(file) + 1
      /\ file'[Len(file) + 1] = item /\ \A k \in 1 .. Len(file) : file'[k] = file[k]
      /\ DOMAIN file = 1 .. Len(file) /\ DOMAIN file' = 1 .. Len(file) + 1
  OBVIOUS
<1>2. IsFiniteSet(Entries) /\ Cardinality(Entries) \in Nat
  <2>1. IsFiniteSet(1 .. Len(file))
    BY <1>1, FS_Interval
  <2>2. Entries \subseteq 1 .. Len(file)
    BY <1>1 DEF Entries
  <2> QED
    BY <2>1, <2>2, FS_Subset, FS_CardinalityType
<1>3. Len(file) + 1 \notin Entries
  BY <1>1 DEF Entries
<1>4. CASE item[1] = "begin"
  <2>1. Entries' = Entries \cup {Len(file) + 1}
    BY <1>1, <1>4 DEF Entries
  <2> QED
    BY <1>1, <1>2, <1>3, <1>4, <2>1, FS_AddElement
<1>5. CASE item[1] # "begin"
  <2>1. Entries' = Entries
    BY <1>1, <1>5 DEF Entries
  <2> QED
    BY <1>1, <1>2, <1>5, <2>1
<1> QED
  BY <1>4, <1>5

\* A list of whole entries is a JSON list when the footer follows.
LEMMA FooterCloses ==
  ASSUME NEW t \in Threads, NEW n \in Nat, NEW f \in Seq(Tokens),
         Len(f) = (IF n = 0 THEN 1 ELSE 3 * n) + 1, f[Len(f)] = <<"footer">>,
         \A k \in 1 .. Len(f) - 1 : f[k] = Item(k, t)
  PROVE  IsList(f)
<1>1. CASE n = 0
  <2>1. Len(f) = 2 /\ f[1] = <<"header">> /\ f[2] = <<"footer">>
    BY <1>1 DEF Item
  <2>2. PICK h \in Tokens, e \in Tokens : h = <<"header">> /\ e = <<"footer">>
    BY DEF Tokens
  <2>3. /\ <<h, e>> \in Seq(Tokens) /\ Len(<<h, e>>) = 2
        /\ <<h, e>>[1] = h /\ <<h, e>>[2] = e
    OBVIOUS
  <2>4. \A k \in 1 .. Len(f) : f[k] = <<h, e>>[k]
    BY <2>1, <2>2, <2>3
  <2>5. f = <<h, e>>
    BY <2>1, <2>3, <2>4, SeqEqual
  <2> QED
    BY <2>2, <2>5 DEF IsList
<1>2. CASE n > 0
  <2>1. Len(f) = 3 * n + 1 /\ Len(f) > 1 /\ Len(f) % 3 = 1
    BY <1>2, Thirds
  <2>2. f[1] = <<"header">>
    BY <1>2, <2>1 DEF Item
  <2>3. ASSUME NEW i \in 2 .. Len(f) - 2, i % 3 = 2
        PROVE  IsEntry(f, i)
    <3>1. i \in 1 .. Len(f) - 1 /\ i + 1 \in 1 .. Len(f) - 1 /\ i # 1 /\ i + 1 # 1
      BY <2>1
    <3>2. (i + 1) % 3 = 0
      BY <2>3
    <3>3. f[i] = <<"begin", t>> /\ f[i + 1] = <<"end", t>>
      BY <2>3, <3>1, <3>2 DEF Item
    <3>4. i = 2 \/ f[i - 1] = <<"comma">>
      <4>1. CASE i # 2
        <5>1. i - 1 \in 1 .. Len(f) - 1 /\ i - 1 # 1 /\ (i - 1) % 3 = 1
          BY <2>1, <2>3, <4>1
        <5> QED
          BY <5>1 DEF Item
      <4> QED
        BY <4>1
    <3>5. f[i][1] = "begin" /\ f[i][2] = t
      BY <3>3
    <3> QED
      BY <3>3, <3>4, <3>5 DEF IsEntry
  <2> QED
    BY <2>1, <2>2, <2>3 DEF IsList
<1> QED
  BY <1>1, <1>2

-----------------------------------------------------------------------------
(* The steps.                                                              *)

LEMMA InitTInv ==
  ASSUME NEW t, Threads = {t}, Init
  PROVE  TInv(t)
<1>1. open = FALSE /\ good = TRUE /\ session = FALSE /\ clean = FALSE /\ file = <<>>
  BY DEF Init
<1>2. file \in Seq(Tokens)
  BY <1>1
<1>3. count \in Nat /\ begun \in Nat /\ timers \in 0 .. MaxTimers /\ sessions \in 0 .. MaxSessions
  BY BoundsAssumption DEF Init
<1>4. seen \in [Threads -> Nat] /\ timer \in [Threads -> {"none", "running", "stopped"}]
  BY DEF Init
<1>5. pc \in [Threads -> {"out", "count", "bump", "comma", "begin", "end"}]
  BY DEF Init
<1> QED
  BY <1>1, <1>2, <1>3, <1>4, <1>5 DEF TInv, TypeOK

LEMMA BeginSessionKeepsTInv ==
  ASSUME NEW t, Threads = {t}, TInv(t), NEW opens \in BOOLEAN, BeginSession(opens)
  PROVE  TInv(t)'
<1>1. TypeOK'
  <2>1. PICK h \in Tokens : h = <<"header">>
    BY DEF Tokens
  <2>2. file' = file \/ file' = <<h>>
    BY <2>1 DEF BeginSession
  <2>3. file' \in Seq(Tokens)
    <3>1. <<h>> \in Seq(Tokens)
      OBVIOUS
    <3>2. file \in Seq(Tokens)
      BY DEF TInv, TypeOK
    <3> QED
      BY <2>2, <3>1, <3>2
  <2>4. sessions' \in 0 .. MaxSessions
    BY BoundsAssumption DEF TInv, TypeOK, BeginSession
  <2>5. clean' \in BOOLEAN
    BY DEF BeginSession
  <2>6. good' \in BOOLEAN /\ open' \in BOOLEAN /\ (clean' => open')
    BY DEF BeginSession, TInv, TypeOK
  <2>7. session' = TRUE /\ begun' = 0 /\ UNCHANGED <<count, timer, pc, seen, timers>>
    BY DEF BeginSession
  <2> QED
    BY <2>3, <2>4, <2>5, <2>6, <2>7 DEF TInv, TypeOK
<1>2. ASSUME clean'
      PROVE  InSession(t)'
  <2>1. /\ ~open /\ count = 0 /\ timer[t] = "none" /\ pc[t] = "out"
        /\ good' /\ begun' = 0 /\ UNCHANGED <<count, timer, pc, seen>>
    BY <1>2 DEF BeginSession, Quiet
  <2>2. PICK h : h = <<"header">>
    OBVIOUS
  <2>3. file' = <<h>> /\ Len(file') = 1 /\ file'[1] = h /\ DOMAIN file' = 1 .. 1
    BY <2>1, <2>2 DEF BeginSession
  <2>4. h[1] # "begin"
    BY <2>2
  <2>5. Entries' = {}
    BY <2>3, <2>4 DEF Entries
  <2>6. Cardinality(Entries') = 0
    BY <2>5, FS_EmptySet
  <2>7. \A k \in 1 .. Len(file') : file'[k] = Item(k, t)
    BY <2>2, <2>3 DEF Item
  <2> QED
    BY <2>1, <2>3, <2>6, <2>7 DEF InSession, Length, Begun, Uncounted
<1> QED
  BY <1>1, <1>2 DEF TInv, BeginSession

LEMMA EndSessionKeepsTInv ==
  ASSUME NEW t, Threads = {t}, TInv(t), EndSession
  PROVE  TInv(t)'
<1>1. TypeOK'
  <2>1. <<"footer">> \in Tokens
    BY DEF Tokens
  <2>2. file' \in Seq(Tokens)
    BY <2>1 DEF TInv, TypeOK, EndSession
  <2> QED
    BY <2>2 DEF TInv, TypeOK, EndSession
<1>2. ASSUME clean', open
      PROVE  AfterSession'
  <2>1. InSession(t) /\ pc[t] = "out" /\ timer[t] = "none" /\ file \in Seq(Tokens) /\ count \in Nat
    BY <1>2 DEF EndSession, Quiet, TInv, TypeOK
  <2>2. /\ Len(file) = (IF count = 0 THEN 1 ELSE 3 * count) /\ Cardinality(Entries) = count
        /\ \A k \in 1 .. Len(file) : file[k] = Item(k, t)
        /\ begun = count /\ begun' = begun
    BY <2>1 DEF InSession, Length, Begun, Uncounted, EndSession
  <2>3. PICK e \in Tokens : e = <<"footer">>
    BY DEF Tokens
  <2>4. file' = Append(file, e) /\ e[1] # "begin"
    BY <1>2, <2>1, <2>3 DEF EndSession, InSession
  <2>5. /\ file' \in Seq(Tokens) /\ Len(file') = Len(file) + 1 /\ file'[Len(file) + 1] = e
        /\ \A k \in 1 .. Len(file) : file'[k] = file[k]
        /\ Cardinality(Entries') = Cardinality(Entries)
    BY <2>1, <2>2, <2>4, PutAppends
  <2>6. IsList(file')
    <3>1. /\ Len(file') = (IF count = 0 THEN 1 ELSE 3 * count) + 1
          /\ file'[Len(file')] = <<"footer">>
      BY <2>1, <2>2, <2>3, <2>5
    <3>2. \A k \in 1 .. Len(file') - 1 : file'[k] = Item(k, t)
      BY <2>1, <2>2, <2>5
    <3> QED
      BY <2>1, <2>5, <3>1, <3>2, FooterCloses
  <2> QED
    BY <2>2, <2>5, <2>6 DEF AfterSession
<1>3. ASSUME clean', ~open
      PROVE  AfterSession'
  <2>1. AfterSession /\ file' = file /\ begun' = begun
    BY <1>3 DEF EndSession, TInv
  <2> QED
    BY <2>1 DEF AfterSession, Entries
<1> QED
  BY <1>1, <1>2, <1>3 DEF TInv, EndSession

\* A closed file stays as it is when nothing is written.
LEMMA ClosedStays ==
  ASSUME AfterSession, UNCHANGED <<file, begun>>
  PROVE  AfterSession'
  BY DEF AfterSession, Entries

LEMMA StartTimerKeepsTInv ==
  ASSUME NEW t, Threads = {t}, TInv(t), StartTimer(t)
  PROVE  TInv(t)'
<1>1. /\ timer[t] = "none" /\ timers > 0 /\ timer' = [timer EXCEPT ![t] = "running"]
      /\ timers' = timers - 1 /\ begun' = begun + (IF session THEN 1 ELSE 0)
      /\ UNCHANGED <<open, good, file, session, count, pc, seen, clean, sessions>>
  BY DEF StartTimer, stream
<1>2. timer' \in [Threads -> {"none", "running", "stopped"}] /\ timer'[t] = "running"
  BY <1>1 DEF TInv, TypeOK
<1>3. timers' \in 0 .. MaxTimers /\ begun' \in Nat
  BY <1>1, BoundsAssumption DEF TInv, TypeOK
<1>4. TypeOK'
  BY <1>1, <1>2, <1>3 DEF TInv, TypeOK
<1>5. ASSUME clean, open
      PROVE  InSession(t)'
  <2>1. InSession(t)
    BY <1>5 DEF TInv
  <2>2. pc[t] = "out"
    BY <1>1, <2>1 DEF InSession
  <2>3. session
    BY <1>5 DEF TInv, TypeOK
  <2>4. begun = count /\ begun' = count + 1
    BY <1>1, <2>1, <2>3 DEF InSession, Uncounted, TInv, TypeOK
  <2>5. Entries' = Entries
    BY <1>1 DEF Entries
  <2> QED
    BY <1>1, <1>2, <2>1, <2>2, <2>4, <2>5 DEF InSession, Length, Begun, Uncounted
<1>6. ASSUME clean, ~open
      PROVE  AfterSession'
  <2>1. begun' = begun
    BY <1>1, <1>6 DEF TInv, TypeOK
  <2> QED
    BY <1>1, <1>6, <2>1, ClosedStays DEF TInv
<1> QED
  BY <1>1, <1>4, <1>5, <1>6 DEF TInv

LEMMA StopKeepsTInv ==
  ASSUME NEW t, Threads = {t}, TInv(t), Stop(t)
  PROVE  TInv(t)'
<1>1. /\ pc[t] = "out" /\ pc' = [pc EXCEPT ![t] = "count"]
      /\ UNCHANGED <<open, good, file, session, count, timer, seen, begun, sessions>>
      /\ clean' => clean /\ timer[t] = "running"
  BY DEF Stop, stream
<1>2. pc' \in [Threads -> {"out", "count", "bump", "comma", "begin", "end"}] /\ pc'[t] = "count"
  BY <1>1 DEF TInv, TypeOK
<1>3. timers' \in 0 .. MaxTimers
  BY BoundsAssumption DEF TInv, TypeOK, Stop
<1>4. clean' \in BOOLEAN
  BY DEF TInv, TypeOK, Stop
<1>5. TypeOK'
  BY <1>1, <1>2, <1>3, <1>4 DEF TInv, TypeOK
<1>6. ASSUME clean', open
      PROVE  InSession(t)'
  <2>1. InSession(t) /\ timer[t] = "running"
    BY <1>1, <1>6 DEF TInv
  <2>2. Entries' = Entries
    BY <1>1 DEF Entries
  <2> QED
    BY <1>1, <1>2, <2>1, <2>2 DEF InSession, Length, Begun, Uncounted
<1>7. ASSUME clean', ~open
      PROVE  AfterSession'
  BY <1>1, <1>7, ClosedStays DEF TInv
<1> QED
  BY <1>1, <1>5, <1>6, <1>7 DEF TInv

LEMMA DestroyKeepsTInv ==
  ASSUME NEW t, Threads = {t}, TInv(t), Destroy(t)
  PROVE  TInv(t)'
<1>1. /\ timer[t] = "stopped" /\ pc[t] = "out" /\ timer' = [timer EXCEPT ![t] = "none"]
      /\ UNCHANGED <<open, good, file, session, count, pc, seen, begun, clean, timers, sessions>>
  BY DEF Destroy, stream
<1>2. timer' \in [Threads -> {"none", "running", "stopped"}] /\ timer'[t] = "none"
  BY <1>1 DEF TInv, TypeOK
<1>3. TypeOK'
  BY <1>1, <1>2 DEF TInv, TypeOK
<1>4. ASSUME clean, open
      PROVE  InSession(t)'
  <2>1. InSession(t)
    BY <1>4 DEF TInv
  <2>2. Entries' = Entries
    BY <1>1 DEF Entries
  <2> QED
    BY <1>1, <1>2, <2>1, <2>2 DEF InSession, Length, Begun, Uncounted
<1>5. ASSUME clean, ~open
      PROVE  AfterSession'
  BY <1>1, <1>5, ClosedStays DEF TInv
<1> QED
  BY <1>1, <1>3, <1>4, <1>5 DEF TInv

LEMMA LoadCountKeepsTInv ==
  ASSUME NEW t, Threads = {t}, TInv(t), LoadCount(t)
  PROVE  TInv(t)'
<1>1. /\ pc[t] = "count" /\ pc' = [pc EXCEPT ![t] = "bump"] /\ seen' = [seen EXCEPT ![t] = count]
      /\ UNCHANGED <<open, good, file, session, count, timer, begun, clean, timers, sessions>>
  BY DEF LoadCount, stream
<1>2. pc' \in [Threads -> {"out", "count", "bump", "comma", "begin", "end"}] /\ pc'[t] = "bump"
  BY <1>1 DEF TInv, TypeOK
<1>3. seen' \in [Threads -> Nat] /\ seen'[t] = count
  BY <1>1 DEF TInv, TypeOK
<1>4. TypeOK'
  BY <1>1, <1>2, <1>3 DEF TInv, TypeOK
<1>5. ASSUME clean, open
      PROVE  InSession(t)'
  <2>1. InSession(t)
    BY <1>5 DEF TInv
  <2>2. Entries' = Entries
    BY <1>1 DEF Entries
  <2> QED
    BY <1>1, <1>2, <1>3, <2>1, <2>2 DEF InSession, Length, Begun, Uncounted
<1>6. ASSUME clean, ~open
      PROVE  AfterSession'
  BY <1>1, <1>6, ClosedStays DEF TInv
<1> QED
  BY <1>1, <1>4, <1>5, <1>6 DEF TInv

LEMMA StoreCountKeepsTInv ==
  ASSUME NEW t, Threads = {t}, TInv(t), StoreCount(t)
  PROVE  TInv(t)'
<1>1. /\ pc[t] = "bump" /\ count' = seen[t] + 1
      /\ pc' = [pc EXCEPT ![t] = IF seen[t] > 0 THEN "comma" ELSE "begin"]
      /\ UNCHANGED <<open, good, file, session, timer, seen, begun, clean, timers, sessions>>
  BY DEF StoreCount, stream
<1>2. /\ pc' \in [Threads -> {"out", "count", "bump", "comma", "begin", "end"}]
      /\ pc'[t] = IF seen[t] > 0 THEN "comma" ELSE "begin"
  BY <1>1 DEF TInv, TypeOK
<1>3. seen[t] \in Nat /\ count' \in Nat /\ count \in Nat
  BY <1>1 DEF TInv, TypeOK
<1>4. TypeOK'
  BY <1>1, <1>2, <1>3 DEF TInv, TypeOK
<1>5. ASSUME clean, open
      PROVE  InSession(t)'
  <2>1. InSession(t)
    BY <1>5 DEF TInv
  <2>2. Entries' = Entries
    BY <1>1 DEF Entries
  <2>3. timer[t] = "running" /\ seen[t] = count /\ count' = count + 1
    BY <1>1, <2>1 DEF InSession
  <2>4. Length(t)' = Length(t)
    BY <1>1, <1>2, <1>3, <2>3 DEF Length
  <2>5. Begun(t)' = Begun(t)
    BY <1>1, <1>2, <1>3, <2>3 DEF Begun
  <2>6. Uncounted(t) /\ ~Uncounted(t)'
    BY <1>1, <1>2, <2>3 DEF Uncounted
  <2> QED
    BY <1>1, <1>2, <1>3, <2>1, <2>2, <2>3, <2>4, <2>5, <2>6 DEF InSession
<1>6. ASSUME clean, ~open
      PROVE  AfterSession'
  BY <1>1, <1>6, ClosedStays DEF TInv
<1> QED
  BY <1>1, <1>4, <1>5, <1>6 DEF TInv

-----------------------------------------------------------------------------
(* The three insertions.                                                   *)

\* What they have in common: an item is put when the stream is fit, and the
\* thread moves on.
Inserts(t, item, next) ==
  /\ Put(item)
  /\ pc' = [pc EXCEPT ![t] = next]
  /\ UNCHANGED <<session, count, seen, begun, clean, timers, sessions>>

LEMMA InsertsKeepsType ==
  ASSUME NEW t \in Threads, TypeOK, NEW item \in Tokens,
         NEW next \in {"out", "count", "bump", "comma", "begin", "end"},
         Inserts(t, item, next), timer' \in [Threads -> {"none", "running", "stopped"}]
  PROVE  /\ TypeOK' /\ UNCHANGED <<open, count, seen, begun, clean>> /\ pc'[t] = next
         /\ ~open => file' = file
         /\ open /\ good => file' = Append(file, item) /\ good'
<1>1. pc' \in [Threads -> {"out", "count", "bump", "comma", "begin", "end"}] /\ pc'[t] = next
  BY DEF Inserts, TypeOK
<1>2. file' \in Seq(Tokens)
  BY DEF Inserts, Put, TypeOK
<1>3. good' \in BOOLEAN
  BY DEF Inserts, Put, TypeOK
<1>4. UNCHANGED <<open, session, count, seen, begun, clean, timers, sessions>>
  BY DEF Inserts, Put
<1>5. (~open => file' = file) /\ (open /\ good => file' = Append(file, item) /\ good')
  BY DEF Inserts, Put
<1> QED
  BY <1>1, <1>2, <1>3, <1>4, <1>5 DEF TypeOK

\* A list of entries goes on when the item is the one the place asks for.
LEMMA ListGoesOn ==
  ASSUME NEW t \in Threads, TypeOK, NEW item \in Tokens, file' = Append(file, item),
         \A k \in 1 .. Len(file) : file[k] = Item(k, t), item = Item(Len(file) + 1, t)
  PROVE  /\ Len(file') = Len(file) + 1 /\ Len(file) \in Nat
         /\ \A k \in 1 .. Len(file') : file'[k] = Item(k, t)
         /\ Cardinality(Entries) \in Nat
         /\ Cardinality(Entries') = Cardinality(Entries) + (IF item[1] = "begin" THEN 1 ELSE 0)
  BY PutAppends DEF TypeOK

LEMMA PutCommaKeepsTInv ==
  ASSUME NEW t, Threads = {t}, TInv(t), PutComma(t)
  PROVE  TInv(t)'
<1>1. PICK item \in Tokens : item = <<"comma">>
  BY DEF Tokens
<1>2. Inserts(t, item, "begin") /\ pc[t] = "comma" /\ timer' = timer
  BY <1>1 DEF PutComma, Inserts
<1>3. /\ TypeOK' /\ UNCHANGED <<open, count, seen, begun, clean>> /\ pc'[t] = "begin"
      /\ ~open => file' = file
      /\ open /\ good => file' = Append(file, item) /\ good'
  BY <1>2, InsertsKeepsType DEF TInv, TypeOK
<1>4. ASSUME clean, open
      PROVE  InSession(t)'
  <2>1. InSession(t) /\ count \in Nat
    BY <1>4 DEF TInv, TypeOK
  <2>2. /\ Len(file) = 3 * count - 3 /\ count > 1 /\ timer[t] = "running"
        /\ Cardinality(Entries) = count - 1 /\ begun = count
    BY <1>2, <2>1 DEF InSession, Length, Begun, Uncounted
  <2>3. item = Item(Len(file) + 1, t) /\ item[1] # "begin"
    <3>1. (3 * count - 2) % 3 = 1 /\ 3 * count - 2 # 1
      BY <2>1, <2>2
    <3> QED
      BY <1>1, <2>1, <2>2, <3>1 DEF Item
  <2>4. good' /\ file' = Append(file, item)
    BY <1>3, <1>4, <2>1 DEF InSession
  <2>5. /\ Len(file') = 3 * count - 2 /\ Cardinality(Entries') = count - 1
        /\ \A k \in 1 .. Len(file') : file'[k] = Item(k, t)
    BY <2>1, <2>2, <2>3, <2>4, ListGoesOn DEF TInv, InSession
  <2>6. Length(t)' = 3 * count - 2 /\ Begun(t)' = count - 1 /\ ~Uncounted(t)'
    BY <1>3 DEF Length, Begun, Uncounted
  <2> QED
    BY <1>2, <1>3, <2>1, <2>2, <2>4, <2>5, <2>6 DEF InSession
<1>5. ASSUME clean, ~open
      PROVE  AfterSession'
  BY <1>3, <1>5, ClosedStays DEF TInv
<1> QED
  BY <1>3, <1>4, <1>5 DEF TInv

LEMMA BeginEntryKeepsTInv ==
  ASSUME NEW t, Threads = {t}, TInv(t), BeginEntry(t)
  PROVE  TInv(t)'
<1>1. PICK item \in Tokens : item = <<"begin", t>>
  BY DEF Tokens
<1>2. Inserts(t, item, "end") /\ pc[t] = "begin" /\ timer' = timer
  BY <1>1 DEF BeginEntry, Inserts
<1>3. /\ TypeOK' /\ UNCHANGED <<open, count, seen, begun, clean>> /\ pc'[t] = "end"
      /\ ~open => file' = file
      /\ open /\ good => file' = Append(file, item) /\ good'
  BY <1>2, InsertsKeepsType DEF TInv, TypeOK
<1>4. ASSUME clean, open
      PROVE  InSession(t)'
  <2>1. InSession(t) /\ count \in Nat
    BY <1>4 DEF TInv, TypeOK
  <2>2. /\ Len(file) = 3 * count - 2 /\ count > 0 /\ timer[t] = "running"
        /\ Cardinality(Entries) = count - 1 /\ begun = count
    BY <1>2, <2>1 DEF InSession, Length, Begun, Uncounted
  <2>3. item = Item(Len(file) + 1, t) /\ item[1] = "begin"
    <3>1. (3 * count - 1) % 3 = 2 /\ 3 * count - 1 # 1
      BY <2>1, <2>2
    <3> QED
      BY <1>1, <2>1, <2>2, <3>1 DEF Item
  <2>4. good' /\ file' = Append(file, item)
    BY <1>3, <1>4, <2>1 DEF InSession
  <2>5. /\ Len(file') = 3 * count - 1 /\ Cardinality(Entries') = count
        /\ \A k \in 1 .. Len(file') : file'[k] = Item(k, t)
    BY <2>1, <2>2, <2>3, <2>4, ListGoesOn DEF TInv, InSession
  <2>6. Length(t)' = 3 * count - 1 /\ Begun(t)' = count /\ ~Uncounted(t)'
    BY <1>3 DEF Length, Begun, Uncounted
  <2> QED
    BY <1>2, <1>3, <2>1, <2>2, <2>4, <2>5, <2>6 DEF InSession
<1>5. ASSUME clean, ~open
      PROVE  AfterSession'
  BY <1>3, <1>5, ClosedStays DEF TInv
<1> QED
  BY <1>3, <1>4, <1>5 DEF TInv

LEMMA EndEntryKeepsTInv ==
  ASSUME NEW t, Threads = {t}, TInv(t), EndEntry(t)
  PROVE  TInv(t)'
<1>1. PICK item \in Tokens : item = <<"end", t>>
  BY DEF Tokens
<1>2. Inserts(t, item, "out") /\ pc[t] = "end" /\ timer' = [timer EXCEPT ![t] = "stopped"]
  BY <1>1 DEF EndEntry, Inserts
<1>3. timer' \in [Threads -> {"none", "running", "stopped"}] /\ timer'[t] = "stopped"
  BY <1>2 DEF TInv, TypeOK
<1>4. /\ TypeOK' /\ UNCHANGED <<open, count, seen, begun, clean>> /\ pc'[t] = "out"
      /\ ~open => file' = file
      /\ open /\ good => file' = Append(file, item) /\ good'
  BY <1>2, <1>3, InsertsKeepsType DEF TInv, TypeOK
<1>5. ASSUME clean, open
      PROVE  InSession(t)'
  <2>1. InSession(t) /\ count \in Nat
    BY <1>5 DEF TInv, TypeOK
  <2>2. /\ Len(file) = 3 * count - 1 /\ count > 0
        /\ Cardinality(Entries) = count /\ begun = count
    BY <1>2, <2>1 DEF InSession, Length, Begun, Uncounted
  <2>3. item = Item(Len(file) + 1, t) /\ item[1] # "begin"
    <3>1. (3 * count) % 3 = 0 /\ 3 * count # 1
      BY <2>1, <2>2, Thirds
    <3> QED
      BY <1>1, <2>1, <2>2, <3>1 DEF Item
  <2>4. good' /\ file' = Append(file, item)
    BY <1>4, <1>5, <2>1 DEF InSession
  <2>5. /\ Len(file') = 3 * count /\ Cardinality(Entries') = count
        /\ \A k \in 1 .. Len(file') : file'[k] = Item(k, t)
    BY <2>1, <2>2, <2>3, <2>4, ListGoesOn DEF TInv, InSession
  <2>6. Length(t)' = 3 * count /\ Begun(t)' = count /\ ~Uncounted(t)'
    BY <1>3, <1>4, <2>1, <2>2 DEF Length, Begun, Uncounted
  <2> QED
    BY <1>3, <1>4, <2>1, <2>2, <2>4, <2>5, <2>6 DEF InSession
<1>6. ASSUME clean, ~open
      PROVE  AfterSession'
  BY <1>4, <1>6, ClosedStays DEF TInv
<1> QED
  BY <1>4, <1>5, <1>6 DEF TInv

LEMMA StutterKeepsTInv ==
  ASSUME NEW t, TInv(t), UNCHANGED vars
  PROVE  TInv(t)'
<1>1. UNCHANGED <<open, good, file, session, count, timer, pc, seen, begun, clean, timers, sessions>>
  BY DEF vars
<1>2. TypeOK'
  BY <1>1 DEF TInv, TypeOK
<1>3. Entries' = Entries
  BY <1>1 DEF Entries
<1> QED
  BY <1>1, <1>2, <1>3 DEF TInv, InSession, AfterSession, Length, Begun, Uncounted

-----------------------------------------------------------------------------
(* The theorems.                                                           *)

LEMMA TInvHolds ==
  ASSUME NEW CONSTANT t, Threads = {t}
  PROVE  Spec => []TInv(t)
<1>1. Init => TInv(t)
  BY InitTInv
<1>2. TInv(t) /\ [Next]_vars => TInv(t)'
  BY BeginSessionKeepsTInv, EndSessionKeepsTInv, StartTimerKeepsTInv, StopKeepsTInv,
     DestroyKeepsTInv, LoadCountKeepsTInv, StoreCountKeepsTInv, PutCommaKeepsTInv,
     BeginEntryKeepsTInv, EndEntryKeepsTInv, StutterKeepsTInv DEF Next
<1> QED
  BY <1>1, <1>2, PTL DEF Spec

\* Of one thread, a session that begins and ends with nothing left over leaves a
\* list of entries, however many sessions and timers there are (timeline.h:47-85).
THEOREM OneThreadWritesAList ==
  ASSUME NEW CONSTANT t, Threads = {t}
  PROVE  Spec => []FileIsAList
<1>1. TInv(t) => FileIsAList
  BY DEF TInv, AfterSession, FileIsAList
<1> QED
  BY <1>1, TInvHolds, PTL

\* ... with exactly one entry for each timer begun in it.
THEOREM OneThreadWritesEachTimer ==
  ASSUME NEW CONSTANT t, Threads = {t}
  PROVE  Spec => []EntriesInv
<1>1. TInv(t) => EntriesInv
  BY DEF TInv, AfterSession, EntriesInv, OneEntryPerTimer
<1> QED
  BY <1>1, TInvHolds, PTL
=============================================================================
