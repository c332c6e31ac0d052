----------------------------- MODULE BfcAllocator -----------------------------
(***************************************************************************)
(* The best-fit-with-coalescing memory pool of bfc_allocator/.             *)
(*                                                                         *)
(* The pool is a record h (Pool below) and the private member functions,   *)
(* which all run under mut_, are operators from pool to pool.  A pointer   *)
(* to a Chunk is the pair <<ptr, size>> of that chunk: the register erases *)
(* and re-inserts a chunk whose size changes, and a pointer to the erased  *)
(* one is then dangling.  A failed ASSERT, which exits the process, or a   *)
(* write through a dangling pointer is recorded in h.fault.                *)
(***************************************************************************)
EXTENDS Integers, FiniteSets, FiniteSetsExt, Functions

CONSTANTS Align,         \* kMinAllocationSize
          NumBins,       \* kNumBins
          MaxFragment,   \* kMaxInternalFragmentation
          FirstExtend,   \* what the constructor gives currExtendBytes_
          Limit,         \* limit_
          Word,          \* 2 ^ (the width of size_t)
          MemoryTop,     \* bound: malloc returns addresses below
          Requests,      \* the sizes clients ask for
          Threads

ASSUME SizesAssumption ==
  /\ Align \in Nat \ {0} /\ NumBins \in Nat \ {0} /\ MaxFragment \in Nat \ {0}
  /\ Word \in Nat /\ Word % Align = 0 /\ MemoryTop \in Nat /\ MemoryTop < Word
  /\ FirstExtend \in 1 .. Word - Align /\ Limit \in Nat /\ Limit % Align = 0
  /\ Requests \subseteq 1 .. Word - 1

VARIABLES
  pool,           \* everything mut_ guards
  allocatedMap,   \* allocatedMap_; an entry is never erased
  currAllocated,  \* currAllocated_
  pc, arg,        \* where each thread is, and the <<pointer, bytes>> it handles
  owned,          \* the pointers clients hold, with the bytes they asked for
  phase           \* "up", then "exited" or "destroyed"

vars == <<pool, allocatedMap, currAllocated, pc, arg, owned, phase>>

NoBin == -1
Null == <<0, 0>>
ExtendThreshold == Align * 2 ^ NumBins

\* ((bytes - 1) | (Align - 1)) + 1 in size_t: up to a multiple of Align, and
\* to 0 for the largest values.
RoundBytes(bytes) == (((bytes - 1) \div Align + 1) * Align) % Word

\* The map f with v at x, where there may have been nothing.
Put(f, x, v) == [y \in {x} \cup DOMAIN f |-> IF y = x THEN v ELSE f[y]]

SmallerOf(x, y) == IF x < y THEN x ELSE y
LargerOf(x, y) == IF x < y THEN y ELSE x

\* The bin of a size: the floor of log2 of its number of Align units, capped.
BinIdxForSize(bytes) ==
  LET v == LargerOf(bytes \div Align, 1)
  IN  CHOOSE b \in 0 .. NumBins - 1 :
        2 ^ b <= v /\ (b = NumBins - 1 \/ v < 2 ^ (b + 1))

NewChunk(size, prev, next) ==
  [size |-> size, used |-> FALSE, prev |-> prev, next |-> next, bin |-> NoBin]

EmptyPool ==
  [reg |-> <<>>,           \* chunkRegister_, by address
   bins |-> [b \in 0 .. NumBins - 1 |-> {}],   \* bins_
   reserved |-> 0,         \* totalReservedBytes_
   cached |-> 0,           \* currCached_
   peak |-> 0,             \* peakCached_
   extend |-> RoundBytes(FirstExtend),         \* currExtendBytes_
   fault |-> "none"]

Init ==
  /\ pool = EmptyPool /\ allocatedMap = <<>> /\ currAllocated = 0
  /\ pc = [t \in Threads |-> "idle"] /\ arg = [t \in Threads |-> Null]
  /\ owned = {} /\ phase = "up"

-----------------------------------------------------------------------------
(* Chunks, bins and links                                                  *)

Fault(h, what) == [h EXCEPT !.fault = what]
Live(h, id) == id[1] \in DOMAIN h.reg /\ h.reg[id[1]].size = id[2]
Chunk(h, id) == h.reg[id[1]]

InsertChunkIntoBin(h, id) ==
  LET c == Chunk(h, id)
      b == BinIdxForSize(c.size)
  IN  IF h.fault # "none" THEN h
      ELSE IF ~Live(h, id) \/ c.used \/ c.bin # NoBin \/ id \in h.bins[b]
      THEN Fault(h, "structure")
      ELSE [h EXCEPT !.reg[id[1]].bin = b, !.bins[b] = @ \cup {id}]

RemoveChunkFromBin(h, id) ==
  IF h.fault # "none" THEN h
  ELSE IF \/ ~Live(h, id) \/ Chunk(h, id).used \/ Chunk(h, id).bin = NoBin
          \/ id \notin h.bins[Chunk(h, id).bin]
  THEN Fault(h, "structure")
  ELSE [h EXCEPT !.reg[id[1]].bin = NoBin, !.bins[Chunk(h, id).bin] = @ \ {id}]

\* prev->next = to and next->prev = to, where there is a prev and a next.
SetNext(h, id, to) ==
  IF id = Null \/ h.fault # "none" THEN h
  ELSE IF ~Live(h, id) THEN Fault(h, "structure")
  ELSE [h EXCEPT !.reg[id[1]].next = to]

SetPrev(h, id, to) ==
  IF id = Null \/ h.fault # "none" THEN h
  ELSE IF ~Live(h, id) THEN Fault(h, "structure")
  ELSE [h EXCEPT !.reg[id[1]].prev = to]

\* A slip to be caught: the chunk after the split one keeps its old prev.
SplitNoRelink(h, id, n) ==
  LET c == Chunk(h, id)
      c1 == <<id[1], n>>
      c2 == <<id[1] + n, id[2] - n>>
      reg == Put(Put(h.reg, c2[1], NewChunk(c2[2], c1, c.next)), c1[1], NewChunk(n, c.prev, c2))
  IN  IF c.used \/ c.bin # NoBin THEN Fault(h, "structure")
      ELSE IF ~(0 < n /\ n <= c.size) THEN Fault(h, "size")
      ELSE InsertChunkIntoBin(SetNext([h EXCEPT !.reg = reg], c.prev, c1), c2)

\* The first n bytes of a free chunk become a chunk of their own, the rest
\* goes back into a bin.
SplitChunk(h, id, n) ==
  LET c == Chunk(h, id)
      c1 == <<id[1], n>>
      c2 == <<id[1] + n, id[2] - n>>
      reg == Put(Put(h.reg, c2[1], NewChunk(c2[2], c1, c.next)), c1[1], NewChunk(n, c.prev, c2))
  IN  IF c.used \/ c.bin # NoBin THEN Fault(h, "structure")
      ELSE IF ~(0 < n /\ n <= c.size) THEN Fault(h, "size")
      ELSE InsertChunkIntoBin(
             SetPrev(SetNext([h EXCEPT !.reg = reg], c.prev, c1), c.next, c2), c2)

\* Two adjacent free chunks become one.
Merge(h, id1, id2) ==
  LET c1 == Chunk(h, id1)
      c2 == Chunk(h, id2)
      c3 == <<id1[1], id1[2] + id2[2]>>
      reg == Put(Restrict(h.reg, DOMAIN h.reg \ {id1[1], id2[1]}),
                 c3[1], NewChunk(c3[2], c1.prev, c2.next))
  IN  IF h.fault # "none" THEN h
      ELSE IF \/ ~Live(h, id1) \/ ~Live(h, id2) \/ c1.used \/ c2.used
              \/ c2.prev # id1 \/ c1.next # id2
      THEN Fault(h, "structure")
      ELSE SetPrev(SetNext([h EXCEPT !.reg = reg], c1.prev, c3), c2.next, c3)

-----------------------------------------------------------------------------
(* Allocation                                                              *)

\* The free chunks of a bin that are large enough (FittingAny, a slip to be
\* caught, does not look at their size), and the first of them in the order of
\* the bin: by size, then by address.
FittingAny(h, b, rounded) == h.bins[b]
Fitting(h, b, rounded) == {id \in h.bins[b] : id[2] >= rounded}
BestFit(ids) == CHOOSE id \in ids : \A other \in ids :
                  id[2] < other[2] \/ (id[2] = other[2] /\ id[1] <= other[1])

\* The pool after findChunkPtr(), and the address it returns (0: none).
FindChunkPtr(h, bin, rounded) ==
  LET bins == {b \in bin .. NumBins - 1 : Fitting(h, b, rounded) # {}}
      id == BestFit(Fitting(h, Min(bins), rounded))
      taken == RemoveChunkFromBin(h, id)
      cut == IF id[2] >= rounded * 2 \/ id[2] >= rounded + MaxFragment
             THEN SplitChunk(taken, id, rounded) ELSE taken
  IN  IF bins = {} THEN <<h, 0>>
      ELSE IF cut.fault # "none" THEN <<cut, 0>>
      ELSE <<[cut EXCEPT !.reg[id[1]].used = TRUE], id[1]>>

\* Free chunks that are the whole of what one malloc() returned.
Monoblocks(h) == {p \in DOMAIN h.reg :
  /\ ~h.reg[p].used /\ h.reg[p].prev = Null /\ h.reg[p].next = Null}

\* shrink() gives the free monoblocks back.
Shrink(h) ==
  LET gone == Monoblocks(h)
      bytes == MapThenSumSet(LAMBDA p : h.reg[p].size, gone)
      ids == {<<p, h.reg[p].size>> : p \in gone}
  IN  IF \E id \in ids : id \notin h.bins[BinIdxForSize(id[2])] THEN Fault(h, "structure")
      ELSE [h EXCEPT !.reg = Restrict(h.reg, DOMAIN h.reg \ gone),
                     !.bins = [b \in DOMAIN h.bins |-> h.bins[b] \ ids],
                     !.reserved = @ - bytes, !.cached = @ - bytes]

\* currExtendBytes_, which is not 0, is doubled until it is enough or reaches the
\* threshold, which takes no more than as many turns as the threshold has bytes.
Doubled(n, rounded) ==
  LET enough == {k \in 0 .. ExtendThreshold :
                   n * 2 ^ k >= rounded \/ n * 2 ^ k >= ExtendThreshold}
  IN  n * 2 ^ Min(enough)

\* Where malloc() may put n bytes: anywhere off what it gave out before.  For 0
\* bytes, too, it returns an address of its own.
Places(h, n) == {p \in Align .. MemoryTop - n :
  /\ p % Align = 0
  /\ \A q \in DOMAIN h.reg : p + LargerOf(n, 1) <= q \/ q + h.reg[q].size <= p}

\* extend() up to the malloc: how many bytes it wants and the pool then.
PrepareExtend(h, rounded) ==
  LET grown == [h EXCEPT !.extend = Doubled(h.extend, rounded)]
      wanted == LargerOf(rounded, grown.extend)
      ready == IF Limit - h.cached < wanted THEN Shrink(grown) ELSE grown
  IN  <<ready, SmallerOf(wanted, Limit - ready.cached)>>

\* extend() from the malloc on: n bytes at address p.
FinishExtend(h, before, n, p) ==
  LET cached == h.cached + n
      h1 == [h EXCEPT
               !.reg = Put(@, p, NewChunk(n, Null, Null)),
               !.reserved = @ + n, !.cached = cached, !.peak = LargerOf(@, cached),
               !.extend = IF @ = before /\ @ < ExtendThreshold THEN 2 * @ ELSE @]
  IN  InsertChunkIntoBin(h1, <<p, n>>)

\* What allocateRaw() can end with: the pool and the pointer (0: nullptr).
\* A malloc() that fails exits the process.
AllocateRaw(h, bytes) ==
  LET rounded == RoundBytes(bytes)
      bin == BinIdxForSize(rounded)
      found == FindChunkPtr(h, bin, rounded)
      prepared == PrepareExtend(h, rounded)
      n == prepared[2]
  IN  IF found[2] # 0 \/ found[1].fault # "none" THEN {found}
      ELSE IF n < rounded \/ prepared[1].fault # "none" THEN {<<prepared[1], 0>>}
      ELSE {FindChunkPtr(FinishExtend(prepared[1], h.extend, n, p), bin, rounded) :
              p \in Places(prepared[1], n)}
           \cup {<<Fault(prepared[1], "malloc"), 0>>}

\* A neighbour to merge with; a link to an erased chunk faults in the merge.
IsFree(h, id) == id # Null /\ (Live(h, id) => ~Chunk(h, id).used)

\* A slip to be caught: only the next chunk is looked at.
CoalesceNextOnly(h, id) ==
  LET h0 == [h EXCEPT !.reg[id[1]].used = FALSE]
      next == Chunk(h0, id).next
      h1 == IF IsFree(h0, next)
            THEN Merge(RemoveChunkFromBin(h0, next), id, next) ELSE h0
  IN  InsertChunkIntoBin(h1, <<id[1], h1.reg[id[1]].size>>)

\* A freed chunk is merged with its free neighbours and goes into a bin.
FreeAndCoalesce(h, id) ==
  LET h0 == [h EXCEPT !.reg[id[1]].used = FALSE]
      next == Chunk(h0, id).next
      h1 == IF IsFree(h0, next)
            THEN Merge(RemoveChunkFromBin(h0, next), id, next) ELSE h0
      id1 == <<id[1], h1.reg[id[1]].size>>
      prev == Chunk(h1, id1).prev
      h2 == IF IsFree(h1, prev)
            THEN Merge(RemoveChunkFromBin(h1, prev), prev, id1) ELSE h1
      p2 == IF h2 = h1 THEN id[1] ELSE prev[1]
  IN  IF ~Chunk(h, id).used \/ Chunk(h, id).bin # NoBin THEN Fault(h, "structure")
      ELSE InsertChunkIntoBin(h2, <<p2, h2.reg[p2].size>>)

-----------------------------------------------------------------------------
(* The clients: allocate() and release() do their book-keeping outside     *)
(* mut_, allocate() after the chunk is taken, release() before it is given *)
(* back.                                                                   *)

Allocate(t, bytes) ==
  /\ phase = "up" /\ pc[t] = "idle"
  /\ \E r \in AllocateRaw(pool, bytes) :
       /\ pool' = r[1]
       /\ IF r[2] = 0      \* ASSERT(nullptr != ptr), or an exit before it
          THEN phase' = "exited" /\ UNCHANGED <<pc, arg>>
          ELSE /\ pc' = [pc EXCEPT ![t] = "record"]
               /\ arg' = [arg EXCEPT ![t] = <<r[2], bytes>>]
               /\ UNCHANGED phase
  /\ UNCHANGED <<allocatedMap, currAllocated, owned>>

Record(t) ==
  /\ phase = "up" /\ pc[t] = "record"
  /\ currAllocated' = currAllocated + arg[t][2]
  /\ allocatedMap' = Put(allocatedMap, arg[t][1], arg[t][2])
  /\ owned' = owned \cup {arg[t]}
  /\ pc' = [pc EXCEPT ![t] = "idle"] /\ arg' = [arg EXCEPT ![t] = Null]
  /\ UNCHANGED <<pool, phase>>

\* A slip to be caught: the bytes given back are still counted.
ReleaseUncounted(t) ==
  /\ phase = "up" /\ pc[t] = "idle"
  /\ \E o \in owned : /\ owned' = owned \ {o}
                     /\ arg' = [arg EXCEPT ![t] = <<o[1], allocatedMap[o[1]]>>]
  /\ pc' = [pc EXCEPT ![t] = "free"]
  /\ UNCHANGED <<pool, allocatedMap, currAllocated, phase>>

\* A client gives back a pointer it holds.
Release(t) ==
  /\ phase = "up" /\ pc[t] = "idle"
  /\ \E o \in owned :
       /\ owned' = owned \ {o}
       /\ currAllocated' = currAllocated - allocatedMap[o[1]]
       /\ arg' = [arg EXCEPT ![t] = <<o[1], allocatedMap[o[1]]>>]
  /\ pc' = [pc EXCEPT ![t] = "free"]
  /\ UNCHANGED <<pool, allocatedMap, phase>>

\* releaseRaw() looks the chunk up by its address alone.
ReleaseRaw(t) ==
  /\ phase = "up" /\ pc[t] = "free"
  /\ pool' = IF arg[t][1] \notin DOMAIN pool.reg THEN Fault(pool, "structure")
             ELSE FreeAndCoalesce(pool, <<arg[t][1], pool.reg[arg[t][1]].size>>)
  /\ phase' = IF pool'.fault = "none" THEN "up" ELSE "exited"
  /\ pc' = [pc EXCEPT ![t] = "idle"] /\ arg' = [arg EXCEPT ![t] = Null]
  /\ UNCHANGED <<allocatedMap, currAllocated, owned>>

\* ~BfcAllocator(), when the process ends: no client is inside a call.
Destroy ==
  /\ phase = "up" /\ \A t \in Threads : pc[t] = "idle"
  /\ pool' = Shrink(pool) /\ phase' = "destroyed"
  /\ UNCHANGED <<allocatedMap, currAllocated, pc, arg, owned>>

Next == \/ \E t \in Threads : \/ \E bytes \in Requests : Allocate(t, bytes)
                              \/ Record(t) \/ Release(t) \/ ReleaseRaw(t)
        \/ Destroy

Spec == Init /\ [][Next]_vars

-----------------------------------------------------------------------------
(* Properties                                                              *)

Addresses == Align .. MemoryTop
Sizes == 0 .. Limit
Ids == {Null} \cup Addresses \X Sizes

TypeOK ==
  /\ DOMAIN pool.reg \subseteq Addresses
  /\ \A p \in DOMAIN pool.reg :
       pool.reg[p] \in [size : 0 .. Limit, used : BOOLEAN, prev : Ids, next : Ids,
                        bin : {NoBin} \cup 0 .. NumBins - 1]
  /\ \A b \in DOMAIN pool.bins : pool.bins[b] \subseteq Ids
  /\ pool.fault \in {"none", "structure", "size", "malloc"}
  /\ pool.extend % Align = 0
  /\ DOMAIN allocatedMap \subseteq Addresses
  /\ currAllocated \in 0 .. Limit
  /\ pc \in [Threads -> {"idle", "record", "free"}]
  /\ phase \in {"up", "exited", "destroyed"}

\* None of the ASSERTs on chunks, bins and links can fail, and no link is ever
\* followed to a chunk that was erased.
AssertsHold == pool.fault # "structure"

\* Chunks do not overlap; a link leads to the chunk that begins where this one
\* ends, which links back; and no two free chunks are neighbours.
ChunksAreLinked ==
  \A p \in DOMAIN pool.reg :
    LET c == pool.reg[p] IN
    /\ \A q \in DOMAIN pool.reg : q > p => p + c.size <= q
    /\ c.prev # Null => Live(pool, c.prev) /\ Chunk(pool, c.prev).next = <<p, c.size>>
    /\ c.next # Null =>
         /\ Live(pool, c.next) /\ c.next[1] = p + c.size
         /\ Chunk(pool, c.next).prev = <<p, c.size>>
         /\ c.used \/ Chunk(pool, c.next).used

\* The bins hold exactly the free chunks, each in the bin of its size (while no
\* ASSERT has stopped an operation half-way).
BinsHoldTheFree ==
  pool.fault = "none" => \A b \in 0 .. NumBins - 1 :
    pool.bins[b] = {<<p, pool.reg[p].size>> :
                      p \in {q \in DOMAIN pool.reg :
                               /\ ~pool.reg[q].used
                               /\ BinIdxForSize(pool.reg[q].size) = b}}

\* What the pool has from the system is the sum of its chunks, and never more
\* than the limit, so that available() does not wrap around.
CachedIsTheSum ==
  /\ pool.cached = MapThenSumSet(LAMBDA p : pool.reg[p].size, DOMAIN pool.reg)
  /\ pool.reserved = pool.cached
  /\ pool.cached <= Limit /\ pool.cached <= pool.peak

\* The pool is consistent between any two operations: no assertion has failed,
\* and the register, its links, the bins and the sums tell the same of each byte
\* that was had from the system.
PoolInv == TypeOK /\ AssertsHold /\ ChunksAreLinked /\ BinsHoldTheFree /\ CachedIsTheSum

\* Memory a client holds, or is about to get or give back, is in a chunk in
\* use that is large enough, and in nobody else's.
Held == owned \cup {arg[t] : t \in {s \in Threads : pc[s] # "idle"}}
ClientsAreDisjoint ==
  phase # "exited" =>
    /\ \A o \in Held : o[1] \in DOMAIN pool.reg /\ pool.reg[o[1]].used
                       /\ o[2] <= pool.reg[o[1]].size
    /\ \A o1, o2 \in Held : o1[1] = o2[1] => o1 = o2
    /\ {p \in DOMAIN pool.reg : pool.reg[p].used} = {o[1] : o \in Held}

\* allocatedBytes() never exceeds cachedBytes(), at whatever point of an
\* allocate() or a release() another thread reads them.
AllocatedWithinCached == currAllocated <= pool.cached

\* "ASSERT(chunkRegister_.empty())": when everything was released, the
\* destructor gives every byte back to the system.
AllReturned ==
  phase = "destroyed" /\ owned = {} => pool.reg = <<>> /\ pool.cached = 0
=============================================================================
