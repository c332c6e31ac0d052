------------------------- MODULE BfcAllocator_proofs -------------------------
(***************************************************************************)
(* Proofs of the memory pool's invariants, for every unit, number of bins, *)
(* limit and width of size_t, all requests and all threads.                *)
(*                                                                         *)
(* The invariant says of the register what a list of disjoint intervals    *)
(* is (Fits, Linked), that free neighbours have been merged (Apart) and    *)
(* that the bins are an index of the free chunks (InBins); an operation    *)
(* takes the chunks in X out of the bins while it works on them.  Sizes    *)
(* are counted as sets of bytes, so that "the counter is the sum" and "the *)
(* clients have no more than the pool" speak of cardinalities.             *)
(***************************************************************************)
EXTENDS BfcAllocator, FiniteSetTheorems, WellFoundedInduction, TLAPS

-----------------------------------------------------------------------------
(* The inductive invariant.                                                *)

ChunkRecord ==
  [size : Sizes, used : BOOLEAN, prev : Ids, next : Ids, bin : {NoBin} \cup 0 .. NumBins - 1]

\* The pointer to the chunk at p.
Id(r, p) == <<p, r[p].size>>

RegType(r) == DOMAIN r \subseteq Addresses /\ r \in [DOMAIN r -> ChunkRecord]

\* Chunks are disjoint intervals of the addresses.
Fits(r) ==
  \A p \in DOMAIN r :
    /\ p + r[p].size <= MemoryTop
    /\ \A q \in DOMAIN r : p < q => p + r[p].size <= q

\* A link leads to the chunk that begins where this one ends, and back.
Linked(r) ==
  \A p \in DOMAIN r :
    /\ r[p].next = Null \/ \E q \in DOMAIN r :
         r[p].next = Id(r, q) /\ q = p + r[p].size /\ r[q].prev = Id(r, p)
    /\ r[p].prev = Null \/ \E q \in DOMAIN r :
         r[p].prev = Id(r, q) /\ r[q].next = Id(r, p)

\* No two free chunks are neighbours, those in X apart.
Apart(r, X) ==
  \A p \in DOMAIN r \ X :
    r[p].next = Null \/ r[p].used \/ r[p].next[1] \in X \/ r[r[p].next[1]].used

\* No chunk is empty.
Positive(r) == \A p \in DOMAIN r : r[p].size > 0

\* The bins hold exactly the free chunks, those in X apart.
Binned(r, X, id, b) ==
  /\ id[1] \in DOMAIN r \ X /\ ~r[id[1]].used
  /\ id[2] = r[id[1]].size /\ BinIdxForSize(id[2]) = b

InBins(h, X) ==
  /\ h.bins \in [0 .. NumBins - 1 -> SUBSET Ids]
  /\ \A b \in 0 .. NumBins - 1, id \in Ids : id \in h.bins[b] <=> Binned(h.reg, X, id, b)
  /\ \A p \in DOMAIN h.reg :
       h.reg[p].bin = IF h.reg[p].used \/ p \in X THEN NoBin ELSE BinIdxForSize(h.reg[p].size)

\* The bytes the pool has from the system, and the chunks in use.
Bytes(r, S) == UNION {p .. p + r[p].size - 1 : p \in S}
Covered(r) == Bytes(r, DOMAIN r)
Used(r) == {Id(r, p) : p \in {q \in DOMAIN r : r[q].used}}

\* The counters.
Numbers(h) ==
  /\ h.cached = Cardinality(Covered(h.reg)) /\ h.reserved = h.cached
  /\ h.cached <= Limit /\ h.cached <= h.peak /\ h.peak \in Nat
  /\ h.extend \in Nat \ {0} /\ h.extend % Align = 0

\* A pool is a record of these parts.
Shape(h) ==
  h = [reg |-> h.reg, bins |-> h.bins, reserved |-> h.reserved, cached |-> h.cached,
       peak |-> h.peak, extend |-> h.extend, fault |-> h.fault]

\* What holds of the pool at any time under mut_, the chunks in X being out of
\* their bins,
Pool(h, X) ==
  /\ Shape(h) /\ RegType(h.reg) /\ Fits(h.reg) /\ Linked(h.reg) /\ Numbers(h)
  /\ InBins(h, X) /\ h.fault = "none"

\* between two calls,
Between(h) == Pool(h, {}) /\ Apart(h.reg, {}) /\ Positive(h.reg)

\* and when the process has come to its end.
AtTheEnd(h) ==
  /\ Shape(h) /\ RegType(h.reg) /\ Fits(h.reg) /\ Linked(h.reg) /\ Numbers(h)
  /\ Apart(h.reg, {}) /\ h.bins \in [0 .. NumBins - 1 -> SUBSET Ids]
  /\ h.fault \in {"none", "size", "malloc"}
  /\ h.fault = "none" => InBins(h, {})

\* The bytes clients hold.
BytesOf(os) == UNION {o[1] .. o[1] + o[2] - 1 : o \in os}

\* The clients' side: types,
BooksType ==
  /\ owned \subseteq Addresses \X Nat
  /\ arg \in [Threads -> {Null} \cup Addresses \X Nat]
  /\ pc \in [Threads -> {"idle", "record", "free"}]
  /\ \A t \in Threads : pc[t] # "idle" => arg[t] # Null
  /\ DOMAIN allocatedMap \subseteq Addresses
  /\ phase \in {"up", "exited", "destroyed"}

\* The books of the clients: what was written for the pointers they hold,
Books ==
  /\ \A o \in owned : o[1] \in DOMAIN allocatedMap /\ allocatedMap[o[1]] = o[2]
  /\ currAllocated = Cardinality(BytesOf(owned))
  /\ BytesOf(owned) \subseteq Covered(pool.reg)

\* and that every chunk in use is exactly one client's.
OneClientEach ==
  /\ \A o \in Held : \E u \in Used(pool.reg) : u[1] = o[1] /\ o[2] <= u[2]
  /\ \A u \in Used(pool.reg) : \E o \in Held : u[1] = o[1]
  /\ \A o1, o2 \in owned : o1[1] = o2[1] => o1 = o2
  /\ \A t \in Threads : pc[t] # "idle" =>
       /\ \A o \in owned : o[1] # arg[t][1]
       /\ \A s \in Threads : pc[s] # "idle" /\ arg[s][1] = arg[t][1] => s = t

\* The inductive invariant.  While the process is up the pool is as between two
\* calls; an exit may leave it after a failed ASSERT on a size or a failed malloc.
IInv ==
  /\ AtTheEnd(pool) /\ BooksType /\ Books
  /\ phase = "up" => Between(pool)
  /\ phase # "exited" => OneClientEach
  /\ phase = "destroyed" => Monoblocks(pool) = {} /\ \A t \in Threads : pc[t] = "idle"

\* Min of a set of numbers is its least member.
LEMMA MinIsLeast ==
  ASSUME NEW S \in SUBSET Nat, S # {}
  PROVE  Min(S) \in S /\ \A y \in S : Min(S) <= y
<1>1. PICK x \in S : \A y \in S : ~(<<y, x>> \in OpToRel(<, Nat))
  BY NatLessThanWellFounded, WFMin
<1>2. \A y \in S : x <= y
  <2> SUFFICES ASSUME NEW y \in S PROVE ~(y < x)
    OBVIOUS
  <2>1. <<y, x>> \notin OpToRel(<, Nat) /\ <<y, x>> \in Nat \X Nat
    BY <1>1
  <2> QED
    BY <2>1 DEF OpToRel
<1> QED
  BY <1>2 DEF Min

\* The powers of 2 are positive and grow at least as fast as their exponents:
\* 2 ^ k is the number of subsets of 1 .. k.
LEMMA Powers == \A k \in Nat : 2 ^ k \in Nat \ {0} /\ k <= 2 ^ k
<1> SUFFICES ASSUME NEW k \in Nat PROVE 2 ^ k \in Nat \ {0} /\ k <= 2 ^ k
  OBVIOUS
<1> DEFINE S == 1 .. k
<1>1. IsFiniteSet(S) /\ Cardinality(S) = k
  BY FS_Interval
<1>2. IsFiniteSet(SUBSET S) /\ Cardinality(SUBSET S) = 2 ^ k
  BY <1>1, FS_SUBSET
<1>3. 2 ^ k \in Nat \ {0}
  <2>1. 2 ^ k \in Nat
    BY <1>2, FS_CardinalityType
  <2>2. 2 ^ k # 0
    BY <1>2, FS_EmptySet
  <2> QED
    BY <2>1, <2>2
<1>4. k <= 2 ^ k
  <2> DEFINE f == [x \in S |-> {x}]
  <2>1. f \in Injection(S, SUBSET S)
    BY DEF Injection, IsInjective
  <2> HIDE DEF f, S
  <2> QED
    BY <1>1, <1>2, <2>1, FS_Injection
<1> QED
  BY <1>3, <1>4

\* binIdxForSize() always finds one of the bins.
LEMMA BinIdxType ==
  ASSUME NEW bytes \in Nat
  PROVE  BinIdxForSize(bytes) \in 0 .. NumBins - 1
<1> DEFINE v == LargerOf(bytes \div Align, 1)
           K == {k \in 0 .. NumBins - 1 : k = NumBins - 1 \/ v < 2 ^ (k + 1)}
<1>1. v \in Nat /\ v >= 1
  BY SizesAssumption DEF LargerOf
<1>2. NumBins - 1 \in K /\ K \in SUBSET Nat
  BY SizesAssumption
<1>3. PICK m \in K : \A k \in K : m <= k
  <2> HIDE DEF K
  <2> QED
    BY <1>2, MinIsLeast
<1>4. 2 ^ m <= v
  <2>1. CASE m = 0
    <3>1. 2 ^ 0 = 1
      OBVIOUS
    <3> QED
      BY <2>1, <3>1, <1>1
  <2>2. CASE m # 0
    <3>1. m - 1 \in 0 .. NumBins - 1 /\ (m - 1) + 1 = m /\ m - 1 # NumBins - 1
      BY <2>2, <1>3, SizesAssumption
    <3>2. m - 1 \notin K
      BY <1>3, <3>1
    <3>3. ~(v < 2 ^ m)
      BY <3>1, <3>2
    <3> QED
      BY <3>3, <1>1, <1>3, Powers
  <2> QED
    BY <2>1, <2>2
<1>5. \E b \in 0 .. NumBins - 1 : 2 ^ b <= v /\ (b = NumBins - 1 \/ v < 2 ^ (b + 1))
  BY <1>3, <1>4
<1> QED
  BY <1>5 DEF BinIdxForSize

\* roundBytes() goes up to a multiple of the unit, and to 0 only for sizes in the
\* last unit of size_t.
LEMMA RoundIs ==
  ASSUME NEW bytes \in 1 .. Word - 1
  PROVE  /\ RoundBytes(bytes) \in 0 .. Word - 1
         /\ RoundBytes(bytes) # 0 => RoundBytes(bytes) >= bytes
         /\ RoundBytes(bytes) % Align = 0
         /\ bytes <= Word - Align => RoundBytes(bytes) # 0
<1>1. /\ Align \in Nat \ {0} /\ Word \in Nat /\ Word % Align = 0
  BY SizesAssumption
<1>2. PICK w \in Nat : Word = w * Align
  <2>1. Word = (Word \div Align) * Align + (Word % Align)
    BY <1>1
  <2> QED
    BY <2>1, <1>1
<1>3. PICK q \in Nat, r \in 0 .. Align - 1 : bytes - 1 = q * Align + r /\ q = (bytes - 1) \div Align
  <2>1. bytes - 1 = ((bytes - 1) \div Align) * Align + ((bytes - 1) % Align)
    BY <1>1
  <2>2. (bytes - 1) % Align \in 0 .. Align - 1 /\ (bytes - 1) \div Align \in Nat
    BY <1>1
  <2> QED
    BY <2>1, <2>2
<1>4. (q + 1) * Align = q * Align + Align
  BY <1>1
<1>5. RoundBytes(bytes) = ((q + 1) * Align) % Word
  BY <1>3 DEF RoundBytes
<1>6. (q + 1) * Align >= bytes
  BY <1>3, <1>4, <1>1
<1>7. q < w
  <2> SUFFICES ASSUME q >= w PROVE FALSE
    BY <1>2, <1>3
  <2>1. q * Align >= w * Align
    BY <1>1, <1>2
  <2> QED
    BY <2>1, <1>1, <1>2, <1>3
<1>8. CASE q + 1 = w
  <2>1. RoundBytes(bytes) = 0
    BY <1>8, <1>5, <1>2, <1>1
  <2>2. ~(bytes <= Word - Align)
    BY <1>8, <1>1, <1>2, <1>3, <1>4
  <2> QED
    BY <2>1, <2>2, <1>1
<1>9. CASE q + 1 < w
  <2>1. (q + 1) * Align < Word
    <3>1. w >= q + 2
      BY <1>9, <1>2, <1>3
    <3>2. w * Align >= (q + 2) * Align
      BY <3>1, <1>1, <1>2
    <3>3. (q + 2) * Align = (q + 1) * Align + Align
      BY <1>1
    <3> QED
      BY <3>2, <3>3, <1>1, <1>2
  <2>2. RoundBytes(bytes) = (q + 1) * Align
    BY <2>1, <1>5, <1>1, <1>6
  <2>3. ((q + 1) * Align) % Align = 0
    BY <1>1
  <2> QED
    BY <2>1, <2>2, <2>3, <1>6, <1>1
<1> QED
  BY <1>7, <1>8, <1>9, <1>2

\* extend()'s doubling reaches its end and keeps to multiples of the unit.
LEMMA DoubledIs ==
  ASSUME NEW n \in Nat \ {0}, n % Align = 0, NEW rounded \in Nat
  PROVE  Doubled(n, rounded) \in Nat \ {0} /\ Doubled(n, rounded) % Align = 0
<1> DEFINE enough == {k \in 0 .. ExtendThreshold :
                        n * 2 ^ k >= rounded \/ n * 2 ^ k >= ExtendThreshold}
<1>1. ExtendThreshold \in Nat
  BY Powers, SizesAssumption DEF ExtendThreshold
<1>2. ExtendThreshold \in enough
  <2>1. 2 ^ ExtendThreshold \in Nat /\ 2 ^ ExtendThreshold >= ExtendThreshold
    BY <1>1, Powers
  <2>2. n * 2 ^ ExtendThreshold >= 2 ^ ExtendThreshold
    BY <2>1
  <2>3. n * 2 ^ ExtendThreshold >= ExtendThreshold
    BY <2>1, <2>2, <1>1
  <2> QED
    BY <1>1, <2>3
<1>3. Min(enough) \in Nat
  <2>1. enough \in SUBSET Nat
    BY <1>1
  <2> HIDE DEF enough
  <2> QED
    BY <1>2, <2>1, MinIsLeast
<1>4. PICK m \in Nat \ {0} : Doubled(n, rounded) = n * m
  BY <1>3, Powers DEF Doubled
<1>5. PICK q \in Nat : n = q * Align
  <2>1. n = (n \div Align) * Align + (n % Align)
    BY SizesAssumption
  <2>2. n \div Align \in Nat
    BY SizesAssumption
  <2>3. n = (n \div Align) * Align
    BY <2>1, <2>2, SizesAssumption
  <2> QED
    BY <2>2, <2>3
<1>6. n * m = (q * m) * Align /\ q * m \in Nat
  BY <1>5, SizesAssumption
<1>7. ((q * m) * Align) % Align = 0
  BY <1>6, SizesAssumption
<1>8. n * m \in Nat \ {0}
  OBVIOUS
<1> QED
  BY <1>4, <1>6, <1>7, <1>8

\* Induction over the subsets of a finite set, for a property given as the set G
\* of the sets that have it.
LEMMA SetInduction ==
  ASSUME NEW S, IsFiniteSet(S), NEW G,
         \A T \in SUBSET S : (\A U \in SUBSET T : U # T => U \in G) => T \in G
  PROVE  \A T \in SUBSET S : T \in G
<1> DEFINE Bad == {T \in SUBSET S : T \notin G}
<1> SUFFICES ASSUME Bad # {} PROVE FALSE
  OBVIOUS
<1>1. IsWellFoundedOn(StrictSubsetOrdering(S), SUBSET S)
  <2>1. IsWellFoundedOn(StrictSubsetOrdering(S), FiniteSubsetsOf(S))
    BY FS_StrictSubsetOrderingWellFounded
  <2>2. FiniteSubsetsOf(S) = SUBSET S
    BY FS_FiniteSubsetsOfFinite
  <2> QED
    BY <2>1, <2>2
<1>2. PICK T \in Bad : \A U \in Bad : ~(<<U, T>> \in StrictSubsetOrdering(S))
  <2>1. Bad \subseteq SUBSET S
    OBVIOUS
  <2>2. Bad # {}
    OBVIOUS
  <2> HIDE DEF Bad
  <2> QED
    BY <1>1, <2>1, <2>2, WFMin
<1>3. \A U \in SUBSET T : U # T => U \in G
  <2> SUFFICES ASSUME NEW U \in SUBSET T, U # T, U \notin G PROVE FALSE
    OBVIOUS
  <2>1. U \in Bad
    OBVIOUS
  <2>2. <<U, T>> \in StrictSubsetOrdering(S)
    BY <2>1 DEF StrictSubsetOrdering
  <2> QED
    BY <1>2, <2>1, <2>2
<1> QED
  BY <1>2, <1>3

\* A set of chunks has finitely many bytes, all below the top of the memory.
LEMMA BytesFinite ==
  ASSUME NEW r, RegType(r), Fits(r), NEW S \in SUBSET DOMAIN r
  PROVE  /\ IsFiniteSet(S) /\ IsFiniteSet(Bytes(r, S))
         /\ Bytes(r, S) \subseteq Align .. MemoryTop
         /\ Cardinality(Bytes(r, S)) \in Nat
<1>1. IsFiniteSet(Align .. MemoryTop)
  BY FS_Interval, SizesAssumption
<1>2. \A p \in DOMAIN r :
        p \in Align .. MemoryTop /\ r[p].size \in Nat /\ p + r[p].size <= MemoryTop
  BY SizesAssumption DEF RegType, Fits, ChunkRecord, Addresses, Sizes
<1>3. S \subseteq Align .. MemoryTop
  BY <1>2
<1>4. Bytes(r, S) \subseteq Align .. MemoryTop
  <2> SUFFICES ASSUME NEW x \in Bytes(r, S) PROVE x \in Align .. MemoryTop
    OBVIOUS
  <2>1. PICK p \in S : x \in p .. p + r[p].size - 1
    BY DEF Bytes
  <2>2. p \in Align .. MemoryTop /\ r[p].size \in Nat /\ p + r[p].size <= MemoryTop
    BY <1>2
  <2> QED
    BY <2>1, <2>2, SizesAssumption
<1> QED
  BY <1>1, <1>3, <1>4, FS_Subset, FS_CardinalityType

\* The sum of CachedIsTheSum,
SizeSum(r, S) == MapThenSumSet(LAMBDA p : r[p].size, S)

\* which takes the chunks one by one,
Any(S) == CHOOSE x \in S : TRUE

\* Chunks being disjoint, one more of them adds just its size to the bytes.
LEMMA BytesAdd ==
  ASSUME NEW r, RegType(r), Fits(r), NEW S \in SUBSET DOMAIN r, NEW x \in S
  PROVE  Cardinality(Bytes(r, S)) = r[x].size + Cardinality(Bytes(r, S \ {x}))
<1> DEFINE A == x .. x + r[x].size - 1
           B == Bytes(r, S \ {x})
<1>1. \A p \in DOMAIN r : p \in Int /\ r[p].size \in Nat
  BY SizesAssumption DEF RegType, ChunkRecord, Addresses, Sizes
<1>2. Bytes(r, S) = A \cup B
  BY DEF Bytes
<1>3. A \cap B = {}
  <2> SUFFICES ASSUME NEW y \in A, y \in B PROVE FALSE
    OBVIOUS
  <2>1. PICK q \in S \ {x} : y \in q .. q + r[q].size - 1
    BY DEF Bytes
  <2>2. q \in DOMAIN r /\ x \in DOMAIN r /\ q # x
    OBVIOUS
  <2>3. x + r[x].size <= q \/ q + r[q].size <= x
    BY <2>2, <1>1 DEF Fits
  <2> QED
    BY <2>1, <2>2, <2>3, <1>1
<1>4. IsFiniteSet(A) /\ Cardinality(A) = r[x].size
  BY <1>1, FS_Interval
<1>5. IsFiniteSet(B) /\ Cardinality(B) \in Nat
  BY BytesFinite
<1> HIDE DEF A, B
<1>6. Cardinality(A \cup B) = Cardinality(A) + Cardinality(B) - Cardinality(A \cap B)
  BY <1>4, <1>5, FS_Union
<1>7. Cardinality(A \cap B) = 0
  BY <1>3, FS_EmptySet
<1>8. Cardinality(A \cup B) = r[x].size + Cardinality(B)
  BY <1>1, <1>4, <1>5, <1>6, <1>7
<1> QED
  BY <1>2, <1>8 DEF B

\* by this function.
Iter(r, S) ==
  CHOOSE f : f = [T \in SUBSET S |->
                    IF T = {} THEN 0 ELSE r[Any(T)].size + f[T \ {Any(T)}]]

\* The sum is the fold's function at S.
LEMMA SumUnfolded ==
  ASSUME NEW r, NEW S
  PROVE  SizeSum(r, S) = Iter(r, S)[S]
BY DEF SizeSum, MapThenSumSet, MapThenFoldSet, Iter, Any

\* The sizes of a set of chunks add up to the number of its bytes: what currCached_
\* counts is a cardinality, which is easier to reason about than a sum.
LEMMA SumIsBytes ==
  ASSUME NEW r, RegType(r), Fits(r), NEW S \in SUBSET DOMAIN r
  PROVE  SizeSum(r, S) = Cardinality(Bytes(r, S))
<1> DEFINE g == [T \in SUBSET S |-> Cardinality(Bytes(r, T))]
           f == Iter(r, S)
           G == {T \in SUBSET S : f[T] = g[T]}
<1>1. \A T \in SUBSET S : T # {} => Any(T) \in T
  BY DEF Any
<1>2. g = [T \in SUBSET S |-> IF T = {} THEN 0 ELSE r[Any(T)].size + g[T \ {Any(T)}]]
  <2>1. ASSUME NEW T \in SUBSET S, T = {} PROVE Cardinality(Bytes(r, T)) = 0
    <3>1. Bytes(r, {}) = {}
      BY DEF Bytes
    <3> QED
      BY <2>1, <3>1, FS_EmptySet
  <2>2. ASSUME NEW T \in SUBSET S, T # {}
        PROVE  Cardinality(Bytes(r, T)) = r[Any(T)].size + g[T \ {Any(T)}]
    <3>1. Any(T) \in T /\ T \in SUBSET DOMAIN r
      BY <1>1, <2>2
    <3>2. g[T \ {Any(T)}] = Cardinality(Bytes(r, T \ {Any(T)}))
      OBVIOUS
    <3> QED
      BY <3>1, <3>2, BytesAdd
  <2> QED
    BY <2>1, <2>2
<1>3. f = [T \in SUBSET S |-> IF T = {} THEN 0 ELSE r[Any(T)].size + f[T \ {Any(T)}]]
  <2> HIDE DEF g
  <2> QED
    BY <1>2 DEF Iter
<1>4. \A T \in SUBSET S : (\A U \in SUBSET T : U # T => U \in G) => T \in G
  <2> SUFFICES ASSUME NEW T \in SUBSET S, \A U \in SUBSET T : U # T => U \in G
               PROVE  T \in G
    OBVIOUS
  <2> HIDE DEF f, g
  <2>1. CASE T = {}
    BY <2>1, <1>2, <1>3
  <2>2. CASE T # {}
    <3> DEFINE U == T \ {Any(T)}
    <3>1. U \in SUBSET T /\ U # T
      BY <2>2, <1>1
    <3>2. f[U] = g[U]
      BY <3>1
    <3> QED
      BY <3>2, <2>2, <1>2, <1>3
  <2> QED
    BY <2>1, <2>2
<1>5. S \in G
  <2> HIDE DEF G
  <2>1. IsFiniteSet(S)
    BY BytesFinite
  <2> QED
    BY <1>4, <2>1, SetInduction
<1> QED
  BY <1>5, SumUnfolded

-----------------------------------------------------------------------------
(* One operation at a time.                                                *)

\* Chunks that differ in their bins, or in their use, at most.
SameLinks(r, r2) ==
  /\ DOMAIN r2 = DOMAIN r
  /\ \A p \in DOMAIN r : /\ r2[p].size = r[p].size
                         /\ r2[p].prev = r[p].prev /\ r2[p].next = r[p].next

\* Such a change leaves the chunks where they are and linked as they were,
LEMMA LinksStay ==
  ASSUME NEW r, NEW r2, Fits(r), Linked(r), SameLinks(r, r2)
  PROVE  /\ Fits(r2) /\ Linked(r2) /\ Covered(r2) = Covered(r)
         /\ Positive(r) => Positive(r2)
<1>1. Fits(r2)
  BY DEF Fits, SameLinks
<1>2. Linked(r2)
  <2> SUFFICES ASSUME NEW p \in DOMAIN r
               PROVE  /\ r2[p].next = Null \/ \E q \in DOMAIN r :
                           /\ r2[p].next = Id(r2, q) /\ q = p + r2[p].size
                           /\ r2[q].prev = Id(r2, p)
                      /\ r2[p].prev = Null \/ \E q \in DOMAIN r :
                           r2[p].prev = Id(r2, q) /\ r2[q].next = Id(r2, p)
    BY DEF Linked, SameLinks
  <2>1. \A q \in DOMAIN r : Id(r2, q) = Id(r, q)
    BY DEF SameLinks, Id
  <2> QED
    BY <2>1 DEF Linked, SameLinks
<1>3. Covered(r2) = Covered(r)
  BY DEF SameLinks, Covered, Bytes
<1>4. Positive(r) => Positive(r2)
  BY DEF SameLinks, Positive
<1> QED
  BY <1>1, <1>2, <1>3, <1>4

\* and when nobody's use changes, free neighbours stay apart.
LEMMA UseStays ==
  ASSUME NEW r, NEW r2, Linked(r), SameLinks(r, r2),
         \A p \in DOMAIN r : r2[p].used = r[p].used
  PROVE  /\ Used(r2) = Used(r)
         /\ \A X : Apart(r, X) => Apart(r2, X)
<1>1. Used(r2) = Used(r)
  BY DEF Used, SameLinks, Id
<1>2. ASSUME NEW X, Apart(r, X) PROVE Apart(r2, X)
  <2> SUFFICES ASSUME NEW p \in DOMAIN r \ X, r[p].next # Null
               PROVE  r2[p].used \/ r2[p].next[1] \in X \/ r2[r2[p].next[1]].used
    BY DEF Apart, SameLinks
  <2>1. r[p].next[1] \in DOMAIN r
    BY DEF Linked, Id
  <2>2. r[p].used \/ r[p].next[1] \in X \/ r[r[p].next[1]].used
    BY <1>2 DEF Apart
  <2> QED
    BY <2>1, <2>2 DEF SameLinks
<1> QED
  BY <1>1, <1>2

\* Where there is no difference in what the numbers are about.
LEMMA NumbersStay ==
  ASSUME NEW h, NEW h2, Numbers(h), Covered(h2.reg) = Covered(h.reg),
         h2.cached = h.cached, h2.reserved = h.reserved, h2.peak = h.peak,
         h2.extend = h.extend
  PROVE  Numbers(h2)
BY DEF Numbers

\* removeChunkFromBin() finds a free chunk where the invariant says it is, and then
\* it is the one chunk more that is out of its bin.
LEMMA RemoveKeeps ==
  ASSUME NEW h, NEW X, Pool(h, X), NEW p \in DOMAIN h.reg \ X, ~h.reg[p].used
  PROVE  LET m == RemoveChunkFromBin(h, Id(h.reg, p))
         IN  /\ Pool(m, X \cup {p}) /\ SameLinks(h.reg, m.reg)
             /\ \A q \in DOMAIN h.reg : m.reg[q].used = h.reg[q].used
<1> DEFINE r == h.reg
           b == BinIdxForSize(r[p].size)
           id == Id(r, p)
           m == RemoveChunkFromBin(h, id)
           r2 == [r EXCEPT ![p].bin = NoBin]
<1>1. /\ RegType(r) /\ Fits(r) /\ Linked(r) /\ Numbers(h) /\ InBins(h, X) /\ h.fault = "none"
      /\ Shape(h)
  BY DEF Pool
<1>2. r[p].size \in Nat /\ b \in 0 .. NumBins - 1 /\ r[p].bin = b /\ b # NoBin
  <2>1. r[p].size \in Nat
    BY <1>1 DEF RegType, ChunkRecord, Sizes
  <2>2. b \in 0 .. NumBins - 1
    BY <2>1, BinIdxType
  <2>3. r[p].bin = b
    BY <1>1 DEF InBins
  <2>4. b # NoBin
    BY ONLY <2>2, SizesAssumption DEF NoBin
  <2> QED
    BY <2>1, <2>2, <2>3, <2>4
<1>3. id \in Ids /\ id[1] = p /\ id[2] = r[p].size
  BY <1>1 DEF RegType, ChunkRecord, Ids, Id
<1>4. id \in h.bins[b]
  BY <1>1, <1>2, <1>3 DEF InBins, Binned
<1>5. Live(h, id) /\ Chunk(h, id) = r[p]
  BY <1>3 DEF Live, Chunk
<1>6. m = [h EXCEPT !.reg[p].bin = NoBin, !.bins[b] = @ \ {id}]
  BY <1>1, <1>2, <1>3, <1>4, <1>5 DEF RemoveChunkFromBin
<1>7. /\ Shape(m) /\ m.reg = r2 /\ m.bins = [h.bins EXCEPT ![b] = @ \ {id}]
      /\ m.reserved = h.reserved /\ m.cached = h.cached /\ m.peak = h.peak
      /\ m.extend = h.extend /\ m.fault = h.fault
  BY <1>1, <1>6 DEF Shape
<1>8. r2[p] = [r[p] EXCEPT !.bin = NoBin] /\ \A q \in DOMAIN r : q # p => r2[q] = r[q]
  BY <1>1 DEF RegType
<1>9. RegType(r2)
  BY <1>1 DEF RegType, ChunkRecord
<1>10. SameLinks(r, r2) /\ \A q \in DOMAIN r : r2[q].used = r[q].used
  BY <1>1, <1>8 DEF SameLinks, RegType, ChunkRecord
<1>11. InBins(m, X \cup {p})
  <2>1. m.bins \in [0 .. NumBins - 1 -> SUBSET Ids]
    BY <1>1, <1>2, <1>7 DEF InBins
  <2>2. ASSUME NEW a \in 0 .. NumBins - 1, NEW i \in Ids
        PROVE  i \in m.bins[a] <=> Binned(m.reg, X \cup {p}, i, a)
    <3>1. i \in h.bins[a] <=> Binned(r, X, i, a)
      BY <1>1 DEF InBins
    <3>2. i \in m.bins[a] <=> i \in h.bins[a] /\ ~(a = b /\ i = id)
      <4>1. h.bins \in [0 .. NumBins - 1 -> SUBSET Ids]
        BY <1>1 DEF InBins
      <4>2. m.bins[a] = IF a = b THEN h.bins[a] \ {id} ELSE h.bins[a]
        BY <4>1, <1>2, <1>7
      <4> QED
        BY <4>2
    <3>3. Binned(r2, X \cup {p}, i, a) <=> Binned(r, X, i, a) /\ i[1] # p
      BY <1>10 DEF Binned, SameLinks
    <3>4. i = <<i[1], i[2]>>
      BY DEF Ids, Null
    <3>5. Binned(r, X, i, a) /\ i[1] = p => a = b /\ i = id
      BY <3>4 DEF Binned, Id
    <3> QED
      BY <3>1, <3>2, <3>3, <3>5, <1>3, <1>7
  <2>3. ASSUME NEW q \in DOMAIN r
        PROVE  r2[q].bin = IF r2[q].used \/ q \in X \cup {p} THEN NoBin
                           ELSE BinIdxForSize(r2[q].size)
    <3>1. CASE q = p
      BY <3>1, <1>1, <1>8 DEF RegType, ChunkRecord
    <3>2. CASE q # p
      BY <3>2, <1>1, <1>8 DEF InBins
    <3> QED
      BY <3>1, <3>2
  <2> QED
    BY <2>1, <2>2, <2>3, <1>7, <1>10 DEF InBins, SameLinks
<1>12. Fits(r2) /\ Linked(r2) /\ Covered(r2) = Covered(r)
  BY <1>1, <1>10, LinksStay
<1>13. Numbers(m)
  BY <1>1, <1>7, <1>12, NumbersStay
<1> QED
  BY <1>1, <1>7, <1>9, <1>10, <1>11, <1>12, <1>13 DEF Pool

\* insertChunkIntoBin() puts one back; none of its ASSERTs fails.
LEMMA InsertKeeps ==
  ASSUME NEW h, NEW X, Pool(h, X), NEW p \in DOMAIN h.reg, p \in X, ~h.reg[p].used
  PROVE  LET m == InsertChunkIntoBin(h, Id(h.reg, p))
         IN  /\ Pool(m, X \ {p}) /\ SameLinks(h.reg, m.reg)
             /\ \A q \in DOMAIN h.reg : m.reg[q].used = h.reg[q].used
<1> DEFINE r == h.reg
           b == BinIdxForSize(r[p].size)
           id == Id(r, p)
           m == InsertChunkIntoBin(h, id)
           r2 == [r EXCEPT ![p].bin = b]
<1>1. /\ RegType(r) /\ Fits(r) /\ Linked(r) /\ Numbers(h) /\ InBins(h, X) /\ h.fault = "none"
      /\ Shape(h)
  BY DEF Pool
<1>2. r[p].size \in Nat /\ b \in 0 .. NumBins - 1 /\ r[p].bin = NoBin
  <2>1. r[p].size \in Nat
    BY <1>1 DEF RegType, ChunkRecord, Sizes
  <2> QED
    BY <2>1, <1>1, BinIdxType DEF InBins
<1>3. id \in Ids /\ id[1] = p /\ id[2] = r[p].size
  BY <1>1 DEF RegType, ChunkRecord, Ids, Id
<1>4. id \notin h.bins[b]
  BY <1>1, <1>2, <1>3 DEF InBins, Binned
<1>5. Live(h, id) /\ Chunk(h, id) = r[p]
  BY <1>3 DEF Live, Chunk
<1>6. m = [h EXCEPT !.reg[p].bin = b, !.bins[b] = @ \cup {id}]
  BY <1>1, <1>2, <1>3, <1>4, <1>5 DEF InsertChunkIntoBin
<1>7. /\ Shape(m) /\ m.reg = r2 /\ m.bins = [h.bins EXCEPT ![b] = @ \cup {id}]
      /\ m.reserved = h.reserved /\ m.cached = h.cached /\ m.peak = h.peak
      /\ m.extend = h.extend /\ m.fault = h.fault
  BY <1>1, <1>6 DEF Shape
<1>8. r2[p] = [r[p] EXCEPT !.bin = b] /\ \A q \in DOMAIN r : q # p => r2[q] = r[q]
  BY <1>1 DEF RegType
<1>9. RegType(r2)
  BY <1>1, <1>2 DEF RegType, ChunkRecord
<1>10. SameLinks(r, r2) /\ \A q \in DOMAIN r : r2[q].used = r[q].used
  BY <1>1, <1>8 DEF SameLinks, RegType, ChunkRecord
<1>11. InBins(m, X \ {p})
  <2>1. m.bins \in [0 .. NumBins - 1 -> SUBSET Ids]
    <3>1. h.bins \in [0 .. NumBins - 1 -> SUBSET Ids]
      BY <1>1 DEF InBins
    <3>2. h.bins[b] \cup {id} \in SUBSET Ids
      BY <3>1, <1>2, <1>3
    <3> QED
      BY <3>1, <3>2, <1>7
  <2>2. ASSUME NEW a \in 0 .. NumBins - 1, NEW i \in Ids
        PROVE  i \in m.bins[a] <=> Binned(m.reg, X \ {p}, i, a)
    <3>1. i \in h.bins[a] <=> Binned(r, X, i, a)
      BY <1>1 DEF InBins
    <3>2. i \in m.bins[a] <=> i \in h.bins[a] \/ (a = b /\ i = id)
      <4>1. h.bins \in [0 .. NumBins - 1 -> SUBSET Ids]
        BY <1>1 DEF InBins
      <4>2. m.bins[a] = IF a = b THEN h.bins[a] \cup {id} ELSE h.bins[a]
        BY <4>1, <1>2, <1>7
      <4> QED
        BY <4>2
    <3>3. Binned(r2, X \ {p}, i, a) <=>
            Binned(r, X, i, a) \/ (i[1] = p /\ i[2] = r[p].size /\ a = b)
      BY <1>10 DEF Binned, SameLinks
    <3>4. i = <<i[1], i[2]>>
      BY DEF Ids, Null
    <3>5. i[1] = p /\ i[2] = r[p].size <=> i = id
      BY <3>4 DEF Id
    <3> QED
      BY <3>1, <3>2, <3>3, <3>5, <1>7
  <2>3. ASSUME NEW q \in DOMAIN r
        PROVE  r2[q].bin = IF r2[q].used \/ q \in X \ {p} THEN NoBin
                           ELSE BinIdxForSize(r2[q].size)
    <3>1. CASE q = p
      BY <3>1, <1>1, <1>8 DEF RegType, ChunkRecord
    <3>2. CASE q # p
      BY <3>2, <1>1, <1>8 DEF InBins
    <3> QED
      BY <3>1, <3>2
  <2> QED
    BY <2>1, <2>2, <2>3, <1>7, <1>10 DEF InBins, SameLinks
<1>12. Fits(r2) /\ Linked(r2) /\ Covered(r2) = Covered(r)
  BY <1>1, <1>10, LinksStay
<1>13. Numbers(m)
  BY <1>1, <1>7, <1>12, NumbersStay
<1> QED
  BY <1>1, <1>7, <1>9, <1>10, <1>11, <1>12, <1>13 DEF Pool

\* used = u for the chunk at p.
UsedSet(h, p, u) == [h EXCEPT !.reg[p].used = u]

\* Marking a chunk that is in no bin as used, or as free, changes nothing else.
LEMMA UseKeeps ==
  ASSUME NEW h, NEW X, Pool(h, X), NEW p \in DOMAIN h.reg, NEW u \in BOOLEAN,
         NEW Y, \A q \in DOMAIN h.reg : q # p => (q \in Y <=> q \in X),
         u => p \in X, ~u => p \in Y /\ (h.reg[p].used \/ p \in X),
         NEW m, m = UsedSet(h, p, u)
  PROVE  /\ Pool(m, Y) /\ SameLinks(h.reg, m.reg) /\ m.reg[p].used = u
         /\ \A q \in DOMAIN h.reg \ {p} : m.reg[q].used = h.reg[q].used
<1> DEFINE r == h.reg
           r2 == [r EXCEPT ![p].used = u]
<1>1. /\ RegType(r) /\ Fits(r) /\ Linked(r) /\ Numbers(h) /\ InBins(h, X) /\ h.fault = "none"
      /\ Shape(h)
  BY DEF Pool
<1>7. /\ Shape(m) /\ m.reg = r2 /\ m.bins = h.bins
      /\ m.reserved = h.reserved /\ m.cached = h.cached /\ m.peak = h.peak
      /\ m.extend = h.extend /\ m.fault = h.fault
  BY <1>1 DEF Shape, UsedSet
<1>8. r2[p] = [r[p] EXCEPT !.used = u] /\ \A q \in DOMAIN r : q # p => r2[q] = r[q]
  BY <1>1 DEF RegType
<1>9. RegType(r2)
  BY <1>1 DEF RegType, ChunkRecord
<1>10. /\ SameLinks(r, r2) /\ r2[p].used = u /\ r2[p].bin = r[p].bin
       /\ \A q \in DOMAIN r : q # p => r2[q].used = r[q].used
  BY <1>1, <1>8 DEF SameLinks, RegType, ChunkRecord
<1>11. InBins(m, Y)
  <2>1. m.bins \in [0 .. NumBins - 1 -> SUBSET Ids]
    BY <1>1, <1>7 DEF InBins
  <2>2. ASSUME NEW a \in 0 .. NumBins - 1, NEW i \in Ids
        PROVE  i \in m.bins[a] <=> Binned(m.reg, Y, i, a)
    <3>1. i \in h.bins[a] <=> Binned(r, X, i, a)
      BY <1>1 DEF InBins
    <3>2. i[1] # p => (Binned(r2, Y, i, a) <=> Binned(r, X, i, a))
      BY <1>10 DEF Binned, SameLinks
    <3>3. i[1] = p => ~Binned(r2, Y, i, a) /\ ~Binned(r, X, i, a)
      BY <1>10 DEF Binned
    <3> QED
      BY <3>1, <3>2, <3>3, <1>7
  <2>3. ASSUME NEW q \in DOMAIN r
        PROVE  r2[q].bin = IF r2[q].used \/ q \in Y THEN NoBin
                           ELSE BinIdxForSize(r2[q].size)
    <3>1. CASE q = p
      BY <3>1, <1>1, <1>10 DEF InBins
    <3>2. CASE q # p
      BY <3>2, <1>1, <1>8 DEF InBins
    <3> QED
      BY <3>1, <3>2
  <2> QED
    BY <2>1, <2>2, <2>3, <1>7, <1>10 DEF InBins, SameLinks
<1>12. Fits(r2) /\ Linked(r2) /\ Covered(r2) = Covered(r)
  BY <1>1, <1>10, LinksStay
<1>13. Numbers(m)
  BY <1>1, <1>7, <1>12, NumbersStay
<1> QED
  BY <1>1, <1>7, <1>9, <1>10, <1>11, <1>12, <1>13 DEF Pool

\* The chunk that a link leads to, and the way back.
LEMMA IdIs ==
  ASSUME NEW r, RegType(r), NEW p \in DOMAIN r
  PROVE  /\ Id(r, p) \in Ids /\ Id(r, p) # Null /\ Id(r, p)[1] = p /\ Id(r, p)[2] = r[p].size
         /\ \A q : Id(r, p) = Id(r, q) => p = q
BY SizesAssumption DEF RegType, ChunkRecord, Id, Ids, Null, Addresses

\* The next chunk begins where this one ends, and links back.
LEMMA NextIs ==
  ASSUME NEW r, Linked(r), NEW p \in DOMAIN r, r[p].next # Null
  PROVE  \E q \in DOMAIN r : r[p].next = Id(r, q) /\ q = p + r[p].size /\ r[q].prev = Id(r, p)
BY DEF Linked

\* The chunk before ends where this one begins, and links to it.
LEMMA PrevIs ==
  ASSUME NEW r, RegType(r), Linked(r), NEW p \in DOMAIN r, r[p].prev # Null
  PROVE  \E q \in DOMAIN r : r[p].prev = Id(r, q) /\ p = q + r[q].size /\ r[q].next = Id(r, p)
<1>1. PICK q \in DOMAIN r : r[p].prev = Id(r, q) /\ r[q].next = Id(r, p)
  BY DEF Linked
<1>2. r[q].next # Null
  BY <1>1, IdIs
<1>3. PICK d \in DOMAIN r : r[q].next = Id(r, d) /\ d = q + r[q].size
  BY <1>2, NextIs
<1>4. d = p
  <2>1. Id(r, p) = Id(r, d)
    BY <1>1, <1>3
  <2> QED
    BY <2>1 DEF Id
<1> QED
  BY <1>1, <1>3, <1>4

\* The register r with the next of a and the prev of b changed.
Relinked(r, r2, a, ca, b, cb) ==
  /\ DOMAIN r2 = DOMAIN r /\ r2 \in [DOMAIN r -> ChunkRecord]
  /\ \A q \in DOMAIN r :
       /\ r2[q].size = r[q].size /\ r2[q].used = r[q].used /\ r2[q].bin = r[q].bin
       /\ r2[q].next = IF a # Null /\ q = a[1] THEN ca ELSE r[q].next
       /\ r2[q].prev = IF b # Null /\ q = b[1] THEN cb ELSE r[q].prev

SameButReg(h, m) ==
  /\ Shape(m) /\ m.bins = h.bins /\ m.reserved = h.reserved /\ m.cached = h.cached
  /\ m.peak = h.peak /\ m.extend = h.extend /\ m.fault = h.fault

\* prev->next = ... changes that link and nothing else,
LEMMA SetNextIs ==
  ASSUME NEW h, Shape(h), h.fault = "none", h.reg \in [DOMAIN h.reg -> ChunkRecord],
         NEW a, a # Null => Live(h, a), NEW ca \in Ids
  PROVE  LET m == SetNext(h, a, ca)
         IN  SameButReg(h, m) /\ Relinked(h.reg, m.reg, a, ca, Null, Null)
<1> DEFINE m == SetNext(h, a, ca)
<1>1. CASE a = Null
  BY <1>1 DEF SetNext, SameButReg, Relinked
<1>2. CASE a # Null
  <2>1. m = [h EXCEPT !.reg[a[1]].next = ca]
    BY <1>2 DEF SetNext
  <2>2. a[1] \in DOMAIN h.reg
    BY <1>2 DEF Live
  <2>3. m.reg = [h.reg EXCEPT ![a[1]].next = ca] /\ SameButReg(h, m)
    BY <2>1 DEF Shape, SameButReg
  <2>4. /\ DOMAIN m.reg = DOMAIN h.reg
        /\ m.reg[a[1]] = [h.reg[a[1]] EXCEPT !.next = ca]
        /\ \A q \in DOMAIN h.reg : q # a[1] => m.reg[q] = h.reg[q]
    BY <2>2, <2>3
  <2>5. m.reg \in [DOMAIN h.reg -> ChunkRecord]
    BY <2>2, <2>3 DEF ChunkRecord
  <2>6. ASSUME NEW q \in DOMAIN h.reg
        PROVE  /\ m.reg[q].size = h.reg[q].size /\ m.reg[q].used = h.reg[q].used
               /\ m.reg[q].bin = h.reg[q].bin /\ m.reg[q].prev = h.reg[q].prev
               /\ m.reg[q].next = IF q = a[1] THEN ca ELSE h.reg[q].next
    <3>1. h.reg[q] \in ChunkRecord
      OBVIOUS
    <3> QED
      BY <2>4, <3>1 DEF ChunkRecord
  <2> QED
    BY <1>2, <2>3, <2>4, <2>5, <2>6 DEF Relinked
<1> QED
  BY <1>1, <1>2

\* so does next->prev = ...,
LEMMA SetPrevIs ==
  ASSUME NEW h, Shape(h), h.fault = "none", h.reg \in [DOMAIN h.reg -> ChunkRecord],
         NEW b, b # Null => Live(h, b), NEW cb \in Ids
  PROVE  LET m == SetPrev(h, b, cb)
         IN  SameButReg(h, m) /\ Relinked(h.reg, m.reg, Null, Null, b, cb)
<1> DEFINE m == SetPrev(h, b, cb)
<1>1. CASE b = Null
  BY <1>1 DEF SetPrev, SameButReg, Relinked
<1>2. CASE b # Null
  <2>1. m = [h EXCEPT !.reg[b[1]].prev = cb]
    BY <1>2 DEF SetPrev
  <2>2. b[1] \in DOMAIN h.reg
    BY <1>2 DEF Live
  <2>3. m.reg = [h.reg EXCEPT ![b[1]].prev = cb] /\ SameButReg(h, m)
    BY <2>1 DEF Shape, SameButReg
  <2>4. /\ DOMAIN m.reg = DOMAIN h.reg
        /\ m.reg[b[1]] = [h.reg[b[1]] EXCEPT !.prev = cb]
        /\ \A q \in DOMAIN h.reg : q # b[1] => m.reg[q] = h.reg[q]
    BY <2>2, <2>3
  <2>5. m.reg \in [DOMAIN h.reg -> ChunkRecord]
    BY <2>2, <2>3 DEF ChunkRecord
  <2>6. ASSUME NEW q \in DOMAIN h.reg
        PROVE  /\ m.reg[q].size = h.reg[q].size /\ m.reg[q].used = h.reg[q].used
               /\ m.reg[q].bin = h.reg[q].bin /\ m.reg[q].next = h.reg[q].next
               /\ m.reg[q].prev = IF q = b[1] THEN cb ELSE h.reg[q].prev
    <3>1. h.reg[q] \in ChunkRecord
      OBVIOUS
    <3> QED
      BY <2>4, <3>1 DEF ChunkRecord
  <2> QED
    BY <1>2, <2>3, <2>4, <2>5, <2>6 DEF Relinked
<1> QED
  BY <1>1, <1>2

\* and one after the other changes the two.
LEMMA RelinkIs ==
  ASSUME NEW h, Shape(h), h.fault = "none", h.reg \in [DOMAIN h.reg -> ChunkRecord],
         NEW a, a # Null => Live(h, a), NEW ca \in Ids,
         NEW b, b # Null => Live(h, b), NEW cb \in Ids
  PROVE  LET m == SetPrev(SetNext(h, a, ca), b, cb)
         IN  SameButReg(h, m) /\ Relinked(h.reg, m.reg, a, ca, b, cb)
<1> DEFINE g == SetNext(h, a, ca)
           m == SetPrev(g, b, cb)
<1>1. SameButReg(h, g) /\ Relinked(h.reg, g.reg, a, ca, Null, Null)
  BY SetNextIs
<1> HIDE DEF g
<1>2. b # Null => Live(g, b)
  BY <1>1 DEF Live, Relinked
<1>3. Shape(g) /\ g.fault = "none" /\ g.reg \in [DOMAIN g.reg -> ChunkRecord]
  BY <1>1 DEF SameButReg, Relinked
<1>4. SameButReg(g, m) /\ Relinked(g.reg, m.reg, Null, Null, b, cb)
  BY <1>2, <1>3, SetPrevIs
<1> HIDE DEF m
<1>5. SameButReg(h, m)
  BY <1>1, <1>4 DEF SameButReg
<1>6. Relinked(h.reg, m.reg, a, ca, b, cb)
  BY <1>1, <1>4 DEF Relinked
<1> QED
  BY <1>5, <1>6 DEF g, m

\* What a split makes of the register.
SplitOf(r, r2, p, n) ==
  /\ DOMAIN r2 = DOMAIN r \cup {p + n} /\ r2 \in [DOMAIN r2 -> ChunkRecord]
  /\ r2[p].size = n /\ ~r2[p].used /\ r2[p].bin = NoBin
  /\ r2[p].prev = r[p].prev /\ r2[p].next = Id(r2, p + n)
  /\ r2[p + n].size = r[p].size - n /\ ~r2[p + n].used /\ r2[p + n].bin = NoBin
  /\ r2[p + n].prev = Id(r2, p) /\ r2[p + n].next = r[p].next
  /\ \A q \in DOMAIN r \ {p} :
       /\ r2[q].size = r[q].size /\ r2[q].used = r[q].used /\ r2[q].bin = r[q].bin
       /\ r2[q].next = IF r[p].prev = Id(r, q) THEN Id(r2, p) ELSE r[q].next
       /\ r2[q].prev = IF r[p].next = Id(r, q) THEN Id(r2, p + n) ELSE r[q].prev

\* Addresses and sizes are numbers.
LEMMA RegNumbers ==
  ASSUME NEW r, RegType(r), NEW p \in DOMAIN r
  PROVE  p \in Nat /\ p > 0 /\ r[p].size \in Nat /\ r[p].size <= Limit
BY SizesAssumption DEF RegType, ChunkRecord, Addresses, Sizes

\* The two halves take the place of the whole,
LEMMA SplitFits ==
  ASSUME NEW r, RegType(r), Fits(r), NEW p \in DOMAIN r, NEW n \in 1 .. r[p].size - 1,
         NEW r2, SplitOf(r, r2, p, n)
  PROVE  /\ p + n \notin DOMAIN r /\ RegType(r2) /\ Fits(r2)
         /\ Covered(r2) = Covered(r) /\ (Positive(r) => Positive(r2))
<1>1. /\ DOMAIN r2 = DOMAIN r \cup {p + n} /\ r2 \in [DOMAIN r2 -> ChunkRecord]
      /\ r2[p].size = n /\ r2[p + n].size = r[p].size - n
      /\ \A q \in DOMAIN r \ {p} : r2[q].size = r[q].size
  BY DEF SplitOf
<1>2. /\ p \in Int /\ n \in Int /\ n > 0 /\ n < r[p].size /\ r[p].size \in Int
      /\ MemoryTop \in Int /\ p >= Align /\ Align \in Int
      /\ \A q \in DOMAIN r : q \in Int /\ q > 0 /\ r[q].size \in Int /\ r[q].size >= 0
  <2>1. n \in Int /\ n > 0 /\ n < r[p].size
    BY RegNumbers
  <2>2. p >= Align
    BY SizesAssumption DEF RegType, Addresses
  <2> QED
    BY <2>1, <2>2, RegNumbers, SizesAssumption
<1>3. p + n \notin DOMAIN r
  BY <1>2 DEF Fits
<1>4. DOMAIN r2 \subseteq Addresses
  <2>1. p + n \in Align .. MemoryTop
    <3>1. p + r[p].size <= MemoryTop
      BY DEF Fits
    <3> QED
      BY <3>1, <1>2
  <2> QED
    BY <2>1, <1>1 DEF RegType, Addresses
<1>5. Fits(r2)
  <2>1. ASSUME NEW a \in DOMAIN r2 PROVE a + r2[a].size <= MemoryTop
    <3>1. \A q \in DOMAIN r : q + r[q].size <= MemoryTop
      BY DEF Fits
    <3>2. CASE a = p
      BY <3>1, <3>2, <1>1, <1>2
    <3>3. CASE a = p + n
      BY <3>1, <3>3, <1>1, <1>2
    <3>4. CASE a \in DOMAIN r \ {p}
      BY <3>1, <3>4, <1>1
    <3> QED
      BY <3>2, <3>3, <3>4, <1>1
  <2>2. ASSUME NEW a \in DOMAIN r2, NEW b \in DOMAIN r2, a < b PROVE a + r2[a].size <= b
    <3>1. \A c, d \in DOMAIN r : c < d => c + r[c].size <= d
      BY DEF Fits
    <3>2. CASE a = p
      BY <3>1, <3>2, <2>2, <1>1, <1>2
    <3>3. CASE a = p + n
      BY <3>1, <3>3, <2>2, <1>1, <1>2
    <3>4. CASE a \in DOMAIN r \ {p}
      BY <3>1, <3>4, <2>2, <1>1, <1>2
    <3> QED
      BY <3>2, <3>3, <3>4, <1>1
  <2> QED
    BY <2>1, <2>2 DEF Fits
<1>6. Covered(r2) = Covered(r)
  <2>1. ASSUME NEW x \in Covered(r) PROVE x \in Covered(r2)
    <3>1. PICK q \in DOMAIN r : x \in q .. q + r[q].size - 1
      BY DEF Covered, Bytes
    <3>2. CASE q # p
      BY <3>1, <3>2, <1>1 DEF Covered, Bytes
    <3>3. CASE q = p
      <4>1. x \in p .. p + n - 1 \/ x \in p + n .. (p + n) + (r[p].size - n) - 1
        BY <3>1, <3>3, <1>2
      <4> QED
        BY <4>1, <1>1 DEF Covered, Bytes
    <3> QED
      BY <3>2, <3>3
  <2>2. ASSUME NEW x \in Covered(r2) PROVE x \in Covered(r)
    <3>1. PICK q \in DOMAIN r2 : x \in q .. q + r2[q].size - 1
      BY DEF Covered, Bytes
    <3>2. CASE q \in DOMAIN r \ {p}
      BY <3>1, <3>2, <1>1 DEF Covered, Bytes
    <3>3. CASE q = p \/ q = p + n
      <4>1. x \in p .. p + r[p].size - 1
        BY <3>1, <3>3, <1>1, <1>2
      <4> QED
        BY <4>1 DEF Covered, Bytes
    <3> QED
      BY <3>1, <3>2, <3>3, <1>1
  <2> QED
    BY <2>1, <2>2
<1>7. ASSUME Positive(r), NEW q \in DOMAIN r2 PROVE r2[q].size > 0
  BY <1>7, <1>1, <1>2 DEF Positive
<1> QED
  BY <1>1, <1>3, <1>4, <1>5, <1>6, <1>7 DEF RegType, Positive

\* are linked to each other and to what was around it,
LEMMA SplitLinked ==
  ASSUME NEW r, RegType(r), Fits(r), Linked(r), NEW p \in DOMAIN r,
         NEW n \in 1 .. r[p].size - 1, NEW r2, SplitOf(r, r2, p, n)
  PROVE  Linked(r2)
<1>0. p + n \notin DOMAIN r /\ RegType(r2)
  BY SplitFits
<1>1. /\ DOMAIN r2 = DOMAIN r \cup {p + n}
      /\ r2[p].size = n /\ r2[p].prev = r[p].prev /\ r2[p].next = Id(r2, p + n)
      /\ r2[p + n].size = r[p].size - n
      /\ r2[p + n].prev = Id(r2, p) /\ r2[p + n].next = r[p].next
  BY DEF SplitOf
<1>2. \A q \in DOMAIN r \ {p} :
        /\ r2[q].size = r[q].size
        /\ r2[q].next = IF r[p].prev = Id(r, q) THEN Id(r2, p) ELSE r[q].next
        /\ r2[q].prev = IF r[p].next = Id(r, q) THEN Id(r2, p + n) ELSE r[q].prev
  BY DEF SplitOf
<1>3. \A q \in DOMAIN r \ {p} : Id(r2, q) = Id(r, q)
  BY <1>2 DEF Id
<1>4. /\ p \in Int /\ n \in Int /\ n > 0 /\ n < r[p].size /\ r[p].size \in Int
  BY RegNumbers
<1>5. \A c, d \in DOMAIN r : Id(r, c) = Id(r, d) => c = d
  BY DEF Id
<1>6. \A c \in DOMAIN r : Id(r, c) # Null
  BY IdIs
<1>7. \A c \in DOMAIN r : r[c].next = Null \/ \E d \in DOMAIN r :
        r[c].next = Id(r, d) /\ d = c + r[c].size /\ r[d].prev = Id(r, c)
  BY NextIs
<1>8. \A c \in DOMAIN r : r[c].prev = Null \/ \E d \in DOMAIN r :
        r[c].prev = Id(r, d) /\ c = d + r[d].size /\ r[d].next = Id(r, c)
  BY PrevIs
<1>9. r[p].next # Id(r, p) /\ r[p].prev # Id(r, p)
  BY <1>4, <1>5, <1>6, <1>7, <1>8
<1>10. ASSUME NEW c \in DOMAIN r2, r2[c].next # Null
       PROVE  \E d \in DOMAIN r2 : r2[c].next = Id(r2, d) /\ d = c + r2[c].size
                                   /\ r2[d].prev = Id(r2, c)
  <2>1. CASE c = p
    BY <2>1, <1>1
  <2>2. CASE c = p + n
    <3>1. PICK d \in DOMAIN r : r[p].next = Id(r, d) /\ d = p + r[p].size
      BY <2>2, <1>1, <1>7, <1>10
    <3>2. d # p
      BY <3>1, <1>4
    <3>3. r2[d].prev = Id(r2, p + n) /\ Id(r2, d) = Id(r, d)
      BY <3>1, <3>2, <1>2, <1>3
    <3>4. d = (p + n) + (r[p].size - n)
      BY <3>1, <1>4
    <3> QED
      BY <2>2, <3>1, <3>3, <3>4, <1>1
  <2>3. CASE c \in DOMAIN r \ {p} /\ r[p].prev = Id(r, c)
    <3>1. p = c + r[c].size
      BY <2>3, <1>5, <1>6, <1>8
    <3> QED
      BY <2>3, <3>1, <1>1, <1>2, <1>3
  <2>4. CASE c \in DOMAIN r \ {p} /\ r[p].prev # Id(r, c)
    <3>1. r2[c].next = r[c].next /\ r2[c].size = r[c].size /\ Id(r2, c) = Id(r, c)
      BY <2>4, <1>2, <1>3
    <3>2. PICK d \in DOMAIN r : r[c].next = Id(r, d) /\ d = c + r[c].size /\ r[d].prev = Id(r, c)
      BY <2>4, <3>1, <1>7, <1>10
    <3>3. d # p
      BY <2>4, <3>2
    <3>4. r[p].next # Id(r, d)
      BY <2>4, <3>2, <1>5, <1>6, <1>7
    <3>5. r2[d].prev = r[d].prev /\ Id(r2, d) = Id(r, d)
      BY <3>3, <3>4, <1>2, <1>3
    <3> QED
      BY <3>1, <3>2, <3>5, <1>1
  <2> QED
    BY <2>1, <2>2, <2>3, <2>4, <1>1
<1>11. ASSUME NEW c \in DOMAIN r2, r2[c].prev # Null
       PROVE  \E d \in DOMAIN r2 : r2[c].prev = Id(r2, d) /\ r2[d].next = Id(r2, c)
  <2>1. CASE c = p + n
    BY <2>1, <1>1
  <2>2. CASE c = p
    <3>1. PICK d \in DOMAIN r : r[p].prev = Id(r, d) /\ r[d].next = Id(r, p)
      BY <2>2, <1>1, <1>8, <1>11
    <3>2. d # p
      BY <3>1, <1>9
    <3>3. r2[d].next = Id(r2, p) /\ Id(r2, d) = Id(r, d)
      BY <3>1, <3>2, <1>2, <1>3
    <3> QED
      BY <2>2, <3>1, <3>3, <1>1
  <2>3. CASE c \in DOMAIN r \ {p} /\ r[p].next = Id(r, c)
    BY <2>3, <1>1, <1>2, <1>3
  <2>4. CASE c \in DOMAIN r \ {p} /\ r[p].next # Id(r, c)
    <3>1. r2[c].prev = r[c].prev /\ Id(r2, c) = Id(r, c)
      BY <2>4, <1>2, <1>3
    <3>2. PICK d \in DOMAIN r : r[c].prev = Id(r, d) /\ r[d].next = Id(r, c)
      BY <2>4, <3>1, <1>8, <1>11
    <3>3. d # p
      BY <2>4, <3>2
    <3>4. r[p].prev # Id(r, d)
      BY <2>4, <3>2, <1>5, <1>6, <1>8
    <3>5. r2[d].next = r[d].next /\ Id(r2, d) = Id(r, d)
      BY <3>3, <3>4, <1>2, <1>3
    <3> QED
      BY <3>1, <3>2, <3>5, <1>1
  <2> QED
    BY <2>1, <2>2, <2>3, <2>4, <1>1
<1> QED
  BY <1>10, <1>11 DEF Linked

\* and are free like it: the first is the only one that may have a free neighbour.
LEMMA SplitUse ==
  ASSUME NEW r, RegType(r), Fits(r), Linked(r), Apart(r, {}),
         NEW p \in DOMAIN r, ~r[p].used,
         NEW n \in 1 .. r[p].size - 1, NEW r2, SplitOf(r, r2, p, n)
  PROVE  Used(r2) = Used(r) /\ Apart(r2, {p})
<1>1. p + n \notin DOMAIN r
  BY SplitFits
<1>2. \A q \in DOMAIN r \ {p} :
        /\ r2[q].size = r[q].size /\ r2[q].used = r[q].used
        /\ r2[q].next = IF r[p].prev = Id(r, q) THEN Id(r2, p) ELSE r[q].next
  BY DEF SplitOf
<1>3. /\ DOMAIN r2 = DOMAIN r \cup {p + n} /\ ~r2[p].used /\ ~r2[p + n].used
      /\ r2[p + n].next = r[p].next
  BY DEF SplitOf
<1>4. Used(r2) = Used(r)
  <2>1. {q \in DOMAIN r2 : r2[q].used} = {q \in DOMAIN r : r[q].used}
    BY <1>1, <1>2, <1>3
  <2>2. \A q \in {c \in DOMAIN r : r[c].used} : Id(r2, q) = Id(r, q)
    BY <1>2 DEF Id
  <2> QED
    BY <2>1, <2>2 DEF Used
<1>5. \A c, d \in DOMAIN r : Id(r, c) = Id(r, d) => c = d
  BY DEF Id
<1>6. ASSUME NEW c \in DOMAIN r, r[c].next # Null
      PROVE  r[c].next[1] \in DOMAIN r /\ (r[c].used \/ r[r[c].next[1]].used)
  BY <1>6, NextIs, IdIs DEF Apart
<1>7. ASSUME NEW q \in DOMAIN r2, q # p, r2[q].next # Null
      PROVE  r2[q].used \/ r2[q].next[1] = p \/ r2[r2[q].next[1]].used
  <2>1. CASE q = p + n
    <3>1. r[p].next[1] \in DOMAIN r /\ r[r[p].next[1]].used
      BY <1>3, <1>6, <1>7, <2>1
    <3>2. r[p].next[1] # p
      BY <3>1
    <3> QED
      BY <2>1, <3>1, <3>2, <1>2, <1>3
  <2>2. CASE q \in DOMAIN r \ {p} /\ r[p].prev = Id(r, q)
    BY <2>2, <1>2 DEF Id
  <2>3. CASE q \in DOMAIN r \ {p} /\ r[p].prev # Id(r, q)
    <3>1. r2[q].next = r[q].next /\ r2[q].used = r[q].used
      BY <2>3, <1>2
    <3>2. r[q].next[1] \in DOMAIN r /\ (r[q].used \/ r[r[q].next[1]].used)
      BY <2>3, <3>1, <1>6, <1>7
    <3> QED
      BY <3>1, <3>2, <1>2
  <2> QED
    BY <1>3, <1>7, <2>1, <2>2, <2>3
<1> QED
  BY <1>4, <1>7 DEF Apart

\* Put adds one value to a function.
LEMMA PutType ==
  ASSUME NEW S, NEW T, NEW f \in [S -> T], NEW x, NEW v \in T
  PROVE  Put(f, x, v) \in [{x} \cup S -> T]
BY DEF Put

\* A new chunk is free and in no bin.
LEMMA NewChunkIs ==
  ASSUME NEW s \in Sizes, NEW a \in Ids, NEW b \in Ids
  PROVE  LET c == NewChunk(s, a, b)
         IN  /\ c \in ChunkRecord /\ c.size = s /\ ~c.used /\ c.prev = a /\ c.next = b
             /\ c.bin = NoBin
BY DEF NewChunk, ChunkRecord

\* A link leads to a chunk that is in the register.
LEMMA LinksLive ==
  ASSUME NEW r, RegType(r), Linked(r), NEW p \in DOMAIN r, r[p].size > 0
  PROVE  /\ \A q \in DOMAIN r : r[p].next = Id(r, q) <=> r[p].next # Null /\ q = r[p].next[1]
         /\ \A q \in DOMAIN r : r[p].prev = Id(r, q) <=> r[p].prev # Null /\ q = r[p].prev[1]
         /\ r[p].next # Null => r[p].next[1] \in DOMAIN r \ {p}
         /\ r[p].prev # Null => r[p].prev[1] \in DOMAIN r \ {p}
         /\ r[p].next # Null => r[r[p].next[1]].size = r[p].next[2]
         /\ r[p].prev # Null => r[r[p].prev[1]].size = r[p].prev[2]
<1>1. p \in Nat /\ r[p].size \in Nat
  BY RegNumbers
<1>2. ASSUME r[p].next # Null
      PROVE  /\ \A q \in DOMAIN r : r[p].next = Id(r, q) <=> q = r[p].next[1]
             /\ r[p].next[1] \in DOMAIN r \ {p} /\ r[r[p].next[1]].size = r[p].next[2]
  <2>1. PICK q \in DOMAIN r : r[p].next = Id(r, q) /\ q = p + r[p].size
    BY <1>2, NextIs
  <2>2. q # p
    BY <2>1, <1>1
  <2>3. r[p].next[1] = q /\ r[p].next[2] = r[q].size
    BY <2>1 DEF Id
  <2>4. \A d \in DOMAIN r : r[p].next = Id(r, d) <=> d = q
    BY <2>1 DEF Id
  <2> QED
    BY <1>2, <2>1, <2>2, <2>3, <2>4
<1>3. ASSUME r[p].prev # Null
      PROVE  /\ \A q \in DOMAIN r : r[p].prev = Id(r, q) <=> q = r[p].prev[1]
             /\ r[p].prev[1] \in DOMAIN r \ {p} /\ r[r[p].prev[1]].size = r[p].prev[2]
  <2>1. PICK q \in DOMAIN r : r[p].prev = Id(r, q) /\ p = q + r[q].size /\ r[q].next = Id(r, p)
    BY <1>3, PrevIs
  <2>2. q # p
    BY <2>1, <1>1
  <2>3. r[p].prev[1] = q /\ r[p].prev[2] = r[q].size
    BY <2>1 DEF Id
  <2>4. \A d \in DOMAIN r : r[p].prev = Id(r, d) <=> d = q
    BY <2>1 DEF Id
  <2> QED
    BY <1>3, <2>1, <2>2, <2>3, <2>4
<1>4. \A q \in DOMAIN r : Id(r, q) # Null
  BY IdIs
<1>5. /\ \A q \in DOMAIN r : r[p].next = Id(r, q) <=> r[p].next # Null /\ q = r[p].next[1]
      /\ r[p].next # Null => r[p].next[1] \in DOMAIN r \ {p}
      /\ r[p].next # Null => r[r[p].next[1]].size = r[p].next[2]
  BY <1>2, <1>4
<1>6. /\ \A q \in DOMAIN r : r[p].prev = Id(r, q) <=> r[p].prev # Null /\ q = r[p].prev[1]
      /\ r[p].prev # Null => r[p].prev[1] \in DOMAIN r \ {p}
      /\ r[p].prev # Null => r[r[p].prev[1]].size = r[p].prev[2]
  BY <1>3, <1>4
<1> QED
  BY <1>5, <1>6

\* What splitChunk() is to leave: the chunk at p, of n bytes, and in no bin.
Cut(h, p, n, x) ==
  /\ Pool(x, {p}) /\ Apart(x.reg, {p}) /\ Used(x.reg) = Used(h.reg)
  /\ Covered(x.reg) = Covered(h.reg) /\ Positive(x.reg)
  /\ p \in DOMAIN x.reg /\ x.reg[p].size = n /\ ~x.reg[p].used

\* splitChunk() cuts the first n bytes off a free chunk that is in no bin.
LEMMA SplitKeeps ==
  ASSUME NEW h, NEW p, Pool(h, {p}), Apart(h.reg, {}), Positive(h.reg),
         p \in DOMAIN h.reg, ~h.reg[p].used, NEW n \in 1 .. h.reg[p].size - 1,
         NEW x, x = SplitChunk(h, Id(h.reg, p), n)
  PROVE  Cut(h, p, n, x)
<1> DEFINE r == h.reg
           s == r[p].size
           c1 == <<p, n>>
           c2 == <<p + n, s - n>>
           r1 == Put(Put(r, p + n, NewChunk(s - n, c1, r[p].next)), p, NewChunk(n, r[p].prev, c2))
           g == [h EXCEPT !.reg = r1]
           e == SetPrev(SetNext(g, r[p].prev, c1), r[p].next, c2)
<1>1. /\ RegType(r) /\ Fits(r) /\ Linked(r) /\ Numbers(h) /\ InBins(h, {p}) /\ h.fault = "none"
      /\ Shape(h)
  BY DEF Pool
<1>2. /\ p \in Nat /\ n \in Nat /\ s \in Nat /\ 0 < n /\ n < s /\ s <= Limit /\ p >= Align
      /\ p + s <= MemoryTop
  BY <1>1, RegNumbers, SizesAssumption DEF RegType, Addresses, Fits
<1>3. p + n \notin DOMAIN r
  BY <1>1, <1>2 DEF Fits
<1>4. c1 \in Ids /\ c2 \in Ids /\ n \in Sizes /\ s - n \in Sizes
  <2>1. p \in Align .. MemoryTop /\ p + n \in Align .. MemoryTop
    BY <1>2, SizesAssumption
  <2>2. n \in 0 .. Limit /\ s - n \in 0 .. Limit
    BY <1>2, SizesAssumption
  <2> QED
    BY <2>1, <2>2 DEF Ids, Addresses, Sizes
<1>5. r[p].next \in Ids /\ r[p].prev \in Ids
  BY <1>1 DEF RegType, ChunkRecord
<1>6. PICK v, w : /\ v = NewChunk(s - n, c1, r[p].next) /\ w = NewChunk(n, r[p].prev, c2)
                  /\ v \in ChunkRecord /\ v.size = s - n /\ ~v.used /\ v.prev = c1
                  /\ v.next = r[p].next /\ v.bin = NoBin
                  /\ w \in ChunkRecord /\ w.size = n /\ ~w.used /\ w.prev = r[p].prev
                  /\ w.next = c2 /\ w.bin = NoBin
  BY <1>4, <1>5, NewChunkIs
<1>7. /\ DOMAIN r1 = DOMAIN r \cup {p + n} /\ r1 \in [DOMAIN r1 -> ChunkRecord]
      /\ r1[p] = w /\ r1[p + n] = v /\ \A q \in DOMAIN r \ {p} : r1[q] = r[q]
  <2>1. PICK r0 : r0 = Put(r, p + n, v)
    OBVIOUS
  <2>2. /\ DOMAIN r0 = DOMAIN r \cup {p + n} /\ r0[p + n] = v
        /\ \A q \in DOMAIN r : r0[q] = r[q]
        /\ r0 \in [{p + n} \cup DOMAIN r -> ChunkRecord]
    <3>1. r \in [DOMAIN r -> ChunkRecord]
      BY <1>1 DEF RegType
    <3>2. r0 \in [{p + n} \cup DOMAIN r -> ChunkRecord]
      BY <2>1, <3>1, <1>6, PutType
    <3>3. /\ DOMAIN r0 = {p + n} \cup DOMAIN r /\ r0[p + n] = v
          /\ \A q \in DOMAIN r : q # p + n => r0[q] = r[q]
      BY <2>1 DEF Put
    <3> QED
      BY <3>2, <3>3, <1>3
  <2>3. r1 = Put(r0, p, w)
    BY <2>1, <1>6
  <2>4. p + n # p
    BY <1>2
  <2> HIDE DEF r1
  <2>5. DOMAIN r1 = {p} \cup DOMAIN r0 /\ r1[p] = w
        /\ (\A q \in DOMAIN r0 : q # p => r1[q] = r0[q])
        /\ r1 \in [{p} \cup ({p + n} \cup DOMAIN r) -> ChunkRecord]
    <3>1. r1 \in [{p} \cup ({p + n} \cup DOMAIN r) -> ChunkRecord]
      BY <2>2, <2>3, <1>6, PutType
    <3> QED
      BY <2>3, <3>1 DEF Put
  <2>6. {p} \cup ({p + n} \cup DOMAIN r) = DOMAIN r1
    BY <2>2, <2>5
  <2> QED
    BY <2>2, <2>4, <2>5, <2>6
<1>8. Shape(g) /\ g.reg = r1 /\ SameButReg(h, g)
  BY <1>1 DEF Shape, SameButReg
<1> HIDE DEF r1
<1>9. /\ r[p].prev # Null => Live(g, r[p].prev) /\ r[p].prev[1] \in DOMAIN r \ {p}
      /\ r[p].next # Null => Live(g, r[p].next) /\ r[p].next[1] \in DOMAIN r \ {p}
  BY <1>1, <1>2, <1>7, <1>8, LinksLive DEF Live
<1>10. SameButReg(g, e) /\ Relinked(r1, e.reg, r[p].prev, c1, r[p].next, c2)
  <2> HIDE DEF g, c1, c2
  <2>1. g.fault = "none" /\ g.reg \in [DOMAIN g.reg -> ChunkRecord]
    BY <1>1, <1>7, <1>8 DEF SameButReg
  <2> QED
    BY <2>1, <1>4, <1>8, <1>9, RelinkIs
<1> HIDE DEF g, e
<1>11. SameButReg(h, e)
  BY <1>8, <1>10 DEF SameButReg
<1>12. SplitOf(r, e.reg, p, n)
  <2>1. /\ DOMAIN e.reg = DOMAIN r1 /\ e.reg \in [DOMAIN e.reg -> ChunkRecord]
        /\ \A q \in DOMAIN r1 :
             /\ e.reg[q].size = r1[q].size /\ e.reg[q].used = r1[q].used /\ e.reg[q].bin = r1[q].bin
             /\ e.reg[q].next = IF r[p].prev # Null /\ q = r[p].prev[1] THEN c1 ELSE r1[q].next
             /\ e.reg[q].prev = IF r[p].next # Null /\ q = r[p].next[1] THEN c2 ELSE r1[q].prev
    BY <1>10 DEF Relinked
  <2>2. /\ e.reg[p].size = n /\ ~e.reg[p].used /\ e.reg[p].bin = NoBin
        /\ e.reg[p].prev = r[p].prev /\ e.reg[p].next = c2
    <3>1. w.next = c2
      BY <1>6
    <3> HIDE DEF c1, c2
    <3> QED
      BY <2>1, <3>1, <1>6, <1>7, <1>9
  <2>3. /\ e.reg[p + n].size = s - n /\ ~e.reg[p + n].used /\ e.reg[p + n].bin = NoBin
        /\ e.reg[p + n].prev = c1 /\ e.reg[p + n].next = r[p].next
    <3>1. v.prev = c1
      BY <1>6
    <3> HIDE DEF c1, c2
    <3> QED
      BY <2>1, <3>1, <1>3, <1>6, <1>7, <1>9
  <2>4. Id(e.reg, p) = c1 /\ Id(e.reg, p + n) = c2
    BY <2>2, <2>3 DEF Id
  <2>5. ASSUME NEW q \in DOMAIN r \ {p}
        PROVE  /\ e.reg[q].size = r[q].size /\ e.reg[q].used = r[q].used /\ e.reg[q].bin = r[q].bin
               /\ e.reg[q].next = IF r[p].prev = Id(r, q) THEN c1 ELSE r[q].next
               /\ e.reg[q].prev = IF r[p].next = Id(r, q) THEN c2 ELSE r[q].prev
    <3>1. /\ r[p].prev = Id(r, q) <=> r[p].prev # Null /\ q = r[p].prev[1]
          /\ r[p].next = Id(r, q) <=> r[p].next # Null /\ q = r[p].next[1]
      BY <1>1, <1>2, LinksLive
    <3> HIDE DEF c1, c2
    <3> QED
      BY <2>1, <3>1, <1>7
  <2> HIDE DEF c1, c2
  <2> QED
    BY <2>1, <2>2, <2>3, <2>4, <2>5, <1>7 DEF SplitOf
<1>13. /\ RegType(e.reg) /\ Fits(e.reg) /\ Covered(e.reg) = Covered(r) /\ Linked(e.reg)
       /\ Used(e.reg) = Used(r) /\ Apart(e.reg, {p}) /\ (Positive(r) => Positive(e.reg))
  BY <1>1, <1>12, SplitFits, SplitLinked, SplitUse
<1>14. /\ DOMAIN e.reg = DOMAIN r \cup {p + n} /\ e.reg[p].size = n /\ ~e.reg[p].used
       /\ ~e.reg[p + n].used /\ e.reg[p].bin = NoBin /\ e.reg[p + n].bin = NoBin
       /\ e.reg[p + n].size = s - n
       /\ \A q \in DOMAIN r \ {p} : /\ e.reg[q].size = r[q].size /\ e.reg[q].used = r[q].used
                                    /\ e.reg[q].bin = r[q].bin
  BY <1>12 DEF SplitOf
<1>15. InBins(e, {p, p + n})
  <2>1. e.bins = h.bins
    BY <1>11 DEF SameButReg
  <2>2. ASSUME NEW a \in 0 .. NumBins - 1, NEW i \in Ids
        PROVE  i \in e.bins[a] <=> Binned(e.reg, {p, p + n}, i, a)
    <3>1. i \in h.bins[a] <=> Binned(r, {p}, i, a)
      BY <1>1 DEF InBins
    <3>2. Binned(e.reg, {p, p + n}, i, a) <=> Binned(r, {p}, i, a)
      BY <1>3, <1>14 DEF Binned
    <3> QED
      BY <2>1, <3>1, <3>2
  <2>3. ASSUME NEW q \in DOMAIN e.reg
        PROVE  e.reg[q].bin = IF e.reg[q].used \/ q \in {p, p + n} THEN NoBin
                              ELSE BinIdxForSize(e.reg[q].size)
    <3>1. CASE q \in DOMAIN r \ {p}
      <4>1. q \notin {p, p + n}
        BY <3>1, <1>3
      <4>2. r[q].bin = IF r[q].used \/ q \in {p} THEN NoBin ELSE BinIdxForSize(r[q].size)
        BY <1>1, <3>1 DEF InBins
      <4> QED
        BY <3>1, <4>1, <4>2, <1>14
    <3>2. CASE q \in {p, p + n}
      BY <3>2, <1>14
    <3> QED
      BY <3>1, <3>2, <1>14
  <2> QED
    BY <1>1, <2>1, <2>2, <2>3 DEF InBins
<1>16. Numbers(e)
  BY <1>1, <1>11, <1>13, NumbersStay DEF SameButReg
<1>17. Pool(e, {p, p + n})
  BY <1>1, <1>11, <1>13, <1>15, <1>16 DEF Pool, SameButReg
<1>18. SplitChunk(h, Id(r, p), n) = InsertChunkIntoBin(e, Id(e.reg, p + n))
  <2>1. Chunk(h, Id(r, p)) = r[p] /\ Id(r, p)[1] = p /\ Id(r, p)[2] = s
    BY DEF Chunk, Id
  <2>2. r[p].bin = NoBin
    BY <1>1 DEF InBins
  <2>3. Id(e.reg, p + n) = c2
    BY <1>14 DEF Id
  <2> QED
    BY <2>1, <2>2, <2>3, <1>2 DEF SplitChunk, e, g, r1
<1>19. PICK m : m = InsertChunkIntoBin(e, Id(e.reg, p + n))
  OBVIOUS
<1>20. /\ Pool(m, {p, p + n} \ {p + n}) /\ SameLinks(e.reg, m.reg)
       /\ \A q \in DOMAIN e.reg : m.reg[q].used = e.reg[q].used
  <2>1. PICK X : X = {p, p + n}
    OBVIOUS
  <2>2. Pool(e, X) /\ p + n \in X /\ p + n \in DOMAIN e.reg /\ ~e.reg[p + n].used
    BY <2>1, <1>14, <1>17
  <2>3. /\ Pool(m, X \ {p + n}) /\ SameLinks(e.reg, m.reg)
        /\ \A q \in DOMAIN e.reg : m.reg[q].used = e.reg[q].used
    BY <2>2, <1>19, InsertKeeps
  <2> QED
    BY <2>1, <2>3
<1>21. {p, p + n} \ {p + n} = {p}
  BY <1>2
<1>22. Used(m.reg) = Used(r) /\ Covered(m.reg) = Covered(r) /\ Apart(m.reg, {p})
       /\ Positive(m.reg)
  BY <1>13, <1>20, LinksStay, UseStays
<1>23. p \in DOMAIN m.reg /\ m.reg[p].size = n /\ ~m.reg[p].used
  BY <1>14, <1>20 DEF SameLinks
<1>24. x = m
  BY <1>18, <1>19
<1> QED
  BY <1>20, <1>21, <1>22, <1>23, <1>24 DEF Cut

\* What a merge makes of the register.
MergeOf(r, r2, a, b) ==
  /\ DOMAIN r2 = DOMAIN r \ {b} /\ r2 \in [DOMAIN r2 -> ChunkRecord]
  /\ r2[a].size = r[a].size + r[b].size /\ ~r2[a].used /\ r2[a].bin = NoBin
  /\ r2[a].prev = r[a].prev /\ r2[a].next = r[b].next
  /\ \A q \in DOMAIN r \ {a, b} :
       /\ r2[q].size = r[q].size /\ r2[q].used = r[q].used /\ r2[q].bin = r[q].bin
       /\ r2[q].next = IF r[a].prev = Id(r, q) THEN Id(r2, a) ELSE r[q].next
       /\ r2[q].prev = IF r[b].next = Id(r, q) THEN Id(r2, a) ELSE r[q].prev

\* The second chunk begins where the first one ends, and links back.
LEMMA Neighbours ==
  ASSUME NEW r, RegType(r), Linked(r), Positive(r), NEW a \in DOMAIN r, NEW b \in DOMAIN r,
         r[a].next = Id(r, b)
  PROVE  b = a + r[a].size /\ r[b].prev = Id(r, a) /\ a < b
<1>1. r[a].next # Null
  BY IdIs
<1>2. PICK d \in DOMAIN r : r[a].next = Id(r, d) /\ d = a + r[a].size /\ r[d].prev = Id(r, a)
  BY <1>1, NextIs
<1>3. d = b
  BY <1>2 DEF Id
<1>4. a \in Nat /\ r[a].size \in Nat /\ r[a].size > 0
  BY RegNumbers DEF Positive
<1> QED
  BY <1>2, <1>3, <1>4

\* The merged chunk takes the place of the two,
LEMMA MergeFits ==
  ASSUME NEW r, RegType(r), Fits(r), Linked(r), Positive(r),
         NEW a \in DOMAIN r, NEW b \in DOMAIN r, r[a].next = Id(r, b),
         NEW r2, MergeOf(r, r2, a, b)
  PROVE  RegType(r2) /\ Fits(r2) /\ Covered(r2) = Covered(r) /\ Positive(r2)
<1>1. /\ DOMAIN r2 = DOMAIN r \ {b} /\ r2 \in [DOMAIN r2 -> ChunkRecord]
      /\ r2[a].size = r[a].size + r[b].size
      /\ \A q \in DOMAIN r \ {a, b} : r2[q].size = r[q].size
  BY DEF MergeOf
<1>2. /\ b = a + r[a].size /\ a < b /\ MemoryTop \in Int
      /\ \A q \in DOMAIN r : q \in Int /\ q > 0 /\ r[q].size \in Int /\ r[q].size > 0
  BY Neighbours, RegNumbers, SizesAssumption DEF Positive
<1>3. RegType(r2)
  BY <1>1 DEF RegType
<1>4. Fits(r2)
  <2>1. ASSUME NEW c \in DOMAIN r2 PROVE c + r2[c].size <= MemoryTop
    <3>1. \A q \in DOMAIN r : q + r[q].size <= MemoryTop
      BY DEF Fits
    <3>2. CASE c = a
      BY <3>1, <3>2, <1>1, <1>2
    <3>3. CASE c \in DOMAIN r \ {a, b}
      BY <3>1, <3>3, <1>1
    <3> QED
      BY <3>2, <3>3, <1>1
  <2>2. ASSUME NEW c \in DOMAIN r2, NEW d \in DOMAIN r2, c < d PROVE c + r2[c].size <= d
    <3>1. \A x, y \in DOMAIN r : x < y => x + r[x].size <= y
      BY DEF Fits
    <3>2. CASE c = a
      <4>1. a + r[a].size <= d /\ d # b
        BY <3>1, <3>2, <2>2, <1>1
      <4>2. b + r[b].size <= d
        BY <4>1, <3>1, <1>1, <1>2
      <4> QED
        BY <4>2, <3>2, <1>1, <1>2
    <3>3. CASE c \in DOMAIN r \ {a, b}
      BY <3>1, <3>3, <2>2, <1>1
    <3> QED
      BY <3>2, <3>3, <1>1
  <2> QED
    BY <2>1, <2>2 DEF Fits
<1>5. Covered(r2) = Covered(r)
  <2>1. ASSUME NEW x \in Covered(r2) PROVE x \in Covered(r)
    <3>1. PICK q \in DOMAIN r2 : x \in q .. q + r2[q].size - 1
      BY DEF Covered, Bytes
    <3>2. CASE q # a
      BY <3>1, <3>2, <1>1 DEF Covered, Bytes
    <3>3. CASE q = a
      <4>1. x \in a .. a + r[a].size - 1 \/ x \in b .. b + r[b].size - 1
        BY <3>1, <3>3, <1>1, <1>2
      <4> QED
        BY <4>1 DEF Covered, Bytes
    <3> QED
      BY <3>2, <3>3
  <2>2. ASSUME NEW x \in Covered(r) PROVE x \in Covered(r2)
    <3>1. PICK q \in DOMAIN r : x \in q .. q + r[q].size - 1
      BY DEF Covered, Bytes
    <3>2. CASE q \in DOMAIN r \ {a, b}
      BY <3>1, <3>2, <1>1 DEF Covered, Bytes
    <3>3. CASE q = a \/ q = b
      <4>1. x \in a .. a + r2[a].size - 1
        BY <3>1, <3>3, <1>1, <1>2
      <4>2. a \in DOMAIN r2
        BY <1>1, <1>2
      <4> QED
        BY <4>1, <4>2 DEF Covered, Bytes
    <3> QED
      BY <3>2, <3>3
  <2> QED
    BY <2>1, <2>2
<1>6. ASSUME NEW q \in DOMAIN r2 PROVE r2[q].size > 0
  BY <1>1, <1>2
<1> QED
  BY <1>3, <1>4, <1>5, <1>6 DEF Positive

\* and is linked to what was around them.
LEMMA MergeLinked ==
  ASSUME NEW r, RegType(r), Fits(r), Linked(r), Positive(r),
         NEW a \in DOMAIN r, NEW b \in DOMAIN r, r[a].next = Id(r, b),
         NEW r2, MergeOf(r, r2, a, b)
  PROVE  Linked(r2)
<1>1. /\ DOMAIN r2 = DOMAIN r \ {b} /\ r2[a].size = r[a].size + r[b].size
      /\ r2[a].prev = r[a].prev /\ r2[a].next = r[b].next
  BY DEF MergeOf
<1>2. \A q \in DOMAIN r \ {a, b} :
        /\ r2[q].size = r[q].size
        /\ r2[q].next = IF r[a].prev = Id(r, q) THEN Id(r2, a) ELSE r[q].next
        /\ r2[q].prev = IF r[b].next = Id(r, q) THEN Id(r2, a) ELSE r[q].prev
  BY DEF MergeOf
<1>3. \A q \in DOMAIN r \ {a, b} : Id(r2, q) = Id(r, q)
  BY <1>2 DEF Id
<1>4. /\ a \in Int /\ b = a + r[a].size /\ a < b /\ r[b].prev = Id(r, a)
      /\ r[a].size \in Int /\ r[b].size \in Int /\ r[b].size > 0
  BY Neighbours, RegNumbers DEF Positive
<1>5. \A c, d \in DOMAIN r : Id(r, c) = Id(r, d) => c = d
  BY DEF Id
<1>6. \A c \in DOMAIN r : Id(r, c) # Null
  BY IdIs
<1>7. \A c \in DOMAIN r : r[c].next = Null \/ \E d \in DOMAIN r :
        r[c].next = Id(r, d) /\ d = c + r[c].size /\ r[d].prev = Id(r, c)
  BY NextIs
<1>8. \A c \in DOMAIN r : r[c].prev = Null \/ \E d \in DOMAIN r :
        r[c].prev = Id(r, d) /\ c = d + r[d].size /\ r[d].next = Id(r, c)
  BY PrevIs
<1>9. \A c \in DOMAIN r : c \in Int /\ r[c].size \in Int /\ r[c].size > 0
  BY RegNumbers DEF Positive
<1>10. ASSUME NEW c \in DOMAIN r2, r2[c].next # Null
       PROVE  \E d \in DOMAIN r2 : r2[c].next = Id(r2, d) /\ d = c + r2[c].size
                                   /\ r2[d].prev = Id(r2, c)
  <2>1. CASE c = a
    <3>1. PICK d \in DOMAIN r : r[b].next = Id(r, d) /\ d = b + r[b].size
      BY <2>1, <1>1, <1>7, <1>10
    <3>2. d # a /\ d # b
      BY <3>1, <1>4
    <3>3. r2[d].prev = Id(r2, a) /\ Id(r2, d) = Id(r, d)
      BY <3>1, <3>2, <1>2, <1>3
    <3>4. d = a + (r[a].size + r[b].size)
      BY <3>1, <1>4
    <3> QED
      BY <2>1, <3>1, <3>2, <3>3, <3>4, <1>1
  <2>2. CASE c \in DOMAIN r \ {a, b} /\ r[a].prev = Id(r, c)
    <3>1. a = c + r[c].size
      BY <2>2, <1>5, <1>6, <1>8
    <3>2. a \in DOMAIN r2
      BY <1>1, <1>4
    <3> QED
      BY <2>2, <3>1, <3>2, <1>1, <1>2, <1>3
  <2>3. CASE c \in DOMAIN r \ {a, b} /\ r[a].prev # Id(r, c)
    <3>1. r2[c].next = r[c].next /\ r2[c].size = r[c].size /\ Id(r2, c) = Id(r, c)
      BY <2>3, <1>2, <1>3
    <3>2. PICK d \in DOMAIN r : r[c].next = Id(r, d) /\ d = c + r[c].size /\ r[d].prev = Id(r, c)
      BY <2>3, <3>1, <1>7, <1>10
    <3>3. d # a
      BY <2>3, <3>2
    <3>4. d # b
      BY <2>3, <3>2, <1>4, <1>5
    <3>5. r[b].next # Id(r, d)
      BY <2>3, <3>2, <1>5, <1>6, <1>7
    <3>6. r2[d].prev = r[d].prev /\ Id(r2, d) = Id(r, d)
      BY <3>3, <3>4, <3>5, <1>2, <1>3
    <3> QED
      BY <3>1, <3>2, <3>4, <3>6, <1>1
  <2> QED
    BY <2>1, <2>2, <2>3, <1>1
<1>11. ASSUME NEW c \in DOMAIN r2, r2[c].prev # Null
       PROVE  \E d \in DOMAIN r2 : r2[c].prev = Id(r2, d) /\ r2[d].next = Id(r2, c)
  <2>1. CASE c = a
    <3>1. PICK d \in DOMAIN r : r[a].prev = Id(r, d) /\ a = d + r[d].size /\ r[d].next = Id(r, a)
      BY <2>1, <1>1, <1>8, <1>11
    <3>2. d # a /\ d # b
      BY <3>1, <1>4, <1>9
    <3>3. r2[d].next = Id(r2, a) /\ Id(r2, d) = Id(r, d)
      BY <3>1, <3>2, <1>2, <1>3
    <3> QED
      BY <2>1, <3>1, <3>2, <3>3, <1>1
  <2>2. CASE c \in DOMAIN r \ {a, b} /\ r[b].next = Id(r, c)
    <3>1. a \in DOMAIN r2
      BY <1>1, <1>4
    <3> QED
      BY <2>2, <3>1, <1>1, <1>2, <1>3
  <2>3. CASE c \in DOMAIN r \ {a, b} /\ r[b].next # Id(r, c)
    <3>1. r2[c].prev = r[c].prev /\ Id(r2, c) = Id(r, c)
      BY <2>3, <1>2, <1>3
    <3>2. PICK d \in DOMAIN r : r[c].prev = Id(r, d) /\ r[d].next = Id(r, c)
      BY <2>3, <3>1, <1>8, <1>11
    <3>3. d # a /\ d # b
      BY <2>3, <3>2, <1>5
    <3>4. r[a].prev # Id(r, d)
      BY <2>3, <3>2, <1>5, <1>6, <1>8
    <3>5. r2[d].next = r[d].next /\ Id(r2, d) = Id(r, d)
      BY <3>3, <3>4, <1>2, <1>3
    <3> QED
      BY <3>1, <3>2, <3>3, <3>5, <1>1
  <2> QED
    BY <2>1, <2>2, <2>3, <1>1
<1> QED
  BY <1>10, <1>11 DEF Linked

\* Whether a chunk's neighbours, if any, are in use.
NextUsed(r, p) == r[p].next = Null \/ r[r[p].next[1]].used
PrevUsed(r, p) == r[p].prev = Null \/ r[r[p].prev[1]].used

\* What a merge leaves next to each other, first with the chunk after, then with
\* the chunk before the one that is freed.
LEMMA MergeUse ==
  ASSUME NEW r, RegType(r), Fits(r), Linked(r), Positive(r),
         NEW a \in DOMAIN r, NEW b \in DOMAIN r, r[a].next = Id(r, b),
         ~r[a].used, ~r[b].used, NEW r2, MergeOf(r, r2, a, b)
  PROVE  /\ Used(r2) = Used(r)
         /\ Apart(r, {a}) => Apart(r2, {a}) /\ NextUsed(r2, a)
         /\ Apart(r, {b}) /\ NextUsed(r, b) => Apart(r2, {})
<1>1. /\ DOMAIN r2 = DOMAIN r \ {b} /\ ~r2[a].used /\ r2[a].next = r[b].next
  BY DEF MergeOf
<1>2. \A q \in DOMAIN r \ {a, b} :
        /\ r2[q].size = r[q].size /\ r2[q].used = r[q].used
        /\ r2[q].next = IF r[a].prev = Id(r, q) THEN Id(r2, a) ELSE r[q].next
  BY DEF MergeOf
<1>3. /\ a \in Int /\ b = a + r[a].size /\ a < b /\ r[b].prev = Id(r, a)
      /\ r[a].size \in Int /\ r[b].size \in Int /\ r[b].size > 0
  BY Neighbours, RegNumbers DEF Positive
<1>4. \A c, d \in DOMAIN r : Id(r, c) = Id(r, d) => c = d
  BY DEF Id
<1>5. \A c \in DOMAIN r : r[c].next # Null => \E d \in DOMAIN r :
        /\ r[c].next = Id(r, d) /\ d = c + r[c].size /\ r[d].prev = Id(r, c)
        /\ r[c].next[1] = d
  BY NextIs, IdIs
<1>6. \A c \in DOMAIN r : r[c].prev # Null => \E d \in DOMAIN r :
        /\ r[c].prev = Id(r, d) /\ r[d].next = Id(r, c)
  BY PrevIs
<1>7. \A c \in DOMAIN r : Id(r, c) # Null /\ Id(r, c)[1] = c
  BY IdIs
<1>8. Used(r2) = Used(r)
  <2>1. {q \in DOMAIN r2 : r2[q].used} = {q \in DOMAIN r : r[q].used}
    BY <1>1, <1>2
  <2>2. \A q \in {c \in DOMAIN r : r[c].used} : Id(r2, q) = Id(r, q)
    BY <1>2 DEF Id
  <2> QED
    BY <2>1, <2>2 DEF Used
<1>9. r[b].next # Null => r[b].next[1] \in DOMAIN r \ {a, b}
  BY <1>3, <1>5
<1>10. ASSUME NEW q \in DOMAIN r \ {a, b}, r[a].prev # Id(r, q), r2[q].next # Null
       PROVE  /\ r2[q].next = r[q].next /\ r[q].next[1] \in DOMAIN r \ {a, b}
              /\ r[q].next # Null
  <2>1. r2[q].next = r[q].next
    BY <1>2, <1>10
  <2>2. PICK d \in DOMAIN r : /\ r[q].next = Id(r, d) /\ r[d].prev = Id(r, q)
                              /\ r[q].next[1] = d
    BY <2>1, <1>5, <1>10
  <2>3. d # a
    BY <2>2, <1>10
  <2>4. d # b
    BY <2>2, <1>3, <1>4
  <2> QED
    BY <2>1, <2>2, <2>3, <2>4, <1>10
<1>11. ASSUME Apart(r, {a}) PROVE Apart(r2, {a}) /\ NextUsed(r2, a)
  <2>1. ASSUME NEW q \in DOMAIN r2 \ {a}, r2[q].next # Null
        PROVE  r2[q].used \/ r2[q].next[1] \in {a} \/ r2[r2[q].next[1]].used
    <3>1. q \in DOMAIN r \ {a, b}
      BY <2>1, <1>1
    <3>2. CASE r[a].prev = Id(r, q)
      <4>1. r2[q].next = Id(r2, a)
        BY <3>1, <3>2, <1>2
      <4> QED
        BY <4>1 DEF Id
    <3>3. CASE r[a].prev # Id(r, q)
      <4>1. r[q].used \/ r[r[q].next[1]].used
        BY <3>1, <3>3, <1>10, <1>11, <2>1 DEF Apart
      <4> QED
        BY <3>1, <3>3, <4>1, <1>2, <1>10, <2>1
    <3> QED
      BY <3>2, <3>3
  <2>2. r[b].next # Null => r[r[b].next[1]].used
    BY <1>3, <1>9, <1>11 DEF Apart
  <2>3. NextUsed(r2, a)
    BY <2>2, <1>1, <1>2, <1>9 DEF NextUsed
  <2> QED
    BY <2>1, <2>3 DEF Apart
<1>12. ASSUME Apart(r, {b}), NextUsed(r, b) PROVE Apart(r2, {})
  <2>1. ASSUME NEW q \in DOMAIN r2, r2[q].next # Null
        PROVE  r2[q].used \/ r2[r2[q].next[1]].used
    <3>1. CASE q = a
      BY <3>1, <2>1, <1>1, <1>2, <1>9, <1>12 DEF NextUsed
    <3>2. CASE q # a /\ r[a].prev = Id(r, q)
      <4>1. q \in DOMAIN r \ {a, b}
        BY <3>2, <1>1
      <4>2. r[q].next = Id(r, a)
        <5>1. PICK d \in DOMAIN r : r[a].prev = Id(r, d) /\ r[d].next = Id(r, a)
          BY <3>2, <4>1, <1>6, <1>7
        <5>2. d = q
          BY <5>1, <3>2, <4>1, <1>4
        <5> QED
          BY <5>1, <5>2
      <4>3. r[q].next # Null /\ r[q].next[1] = a
        BY <4>2, <1>7
      <4>4. r[q].used
        BY <4>1, <4>3, <1>3, <1>12 DEF Apart
      <4> QED
        BY <4>1, <4>4, <1>2
    <3>3. CASE q # a /\ r[a].prev # Id(r, q)
      <4>0. q \in DOMAIN r \ {a, b}
        BY <3>3, <1>1
      <4>1. r[q].used \/ r[r[q].next[1]].used
        BY <3>3, <4>0, <1>10, <1>12, <2>1 DEF Apart
      <4> QED
        BY <3>3, <4>0, <4>1, <1>2, <1>10, <2>1
    <3> QED
      BY <3>1, <3>2, <3>3
  <2> QED
    BY <2>1 DEF Apart
<1> QED
  BY <1>8, <1>11, <1>12

\* A chunk between two chunks in use, or in use itself, is apart like the others.
LEMMA ApartAlone ==
  ASSUME NEW r, RegType(r), Linked(r), NEW p \in DOMAIN r, Apart(r, {p}),
         r[p].used \/ (NextUsed(r, p) /\ PrevUsed(r, p))
  PROVE  Apart(r, {})
<1>1. ASSUME NEW q \in DOMAIN r, r[q].next # Null, ~r[q].used
      PROVE  r[r[q].next[1]].used
  <2>1. CASE q = p
    BY <2>1, <1>1 DEF NextUsed
  <2>2. CASE q # p /\ r[q].next[1] # p
    BY <2>2, <1>1 DEF Apart
  <2>3. CASE q # p /\ r[q].next[1] = p
    <3>1. PICK d \in DOMAIN r : r[q].next = Id(r, d) /\ r[d].prev = Id(r, q)
      BY <1>1, NextIs
    <3>2. d = p /\ r[p].prev # Null /\ r[p].prev[1] = q
      BY <2>3, <3>1, IdIs
    <3> QED
      BY <3>2, <1>1, <2>3 DEF PrevUsed
  <2> QED
    BY <2>1, <2>2, <2>3
<1> QED
  BY <1>1 DEF Apart

\* The two sizes fit in one chunk: they are part of what the pool has.
LEMMA MergedSize ==
  ASSUME NEW h, RegType(h.reg), Fits(h.reg), Linked(h.reg), Numbers(h), Positive(h.reg),
         NEW a \in DOMAIN h.reg, NEW b \in DOMAIN h.reg, h.reg[a].next = Id(h.reg, b)
  PROVE  h.reg[a].size + h.reg[b].size \in Sizes
<1> DEFINE r == h.reg
           n == r[a].size + r[b].size
           A == a .. (a + n) - 1
<1>1. /\ b = a + r[a].size /\ a < b
  BY Neighbours
<1>2. /\ a \in Nat /\ b \in Nat /\ r[a].size \in Nat /\ r[b].size \in Nat /\ n \in Nat
  BY RegNumbers
<1>3. A \subseteq Covered(r)
  <2> SUFFICES ASSUME NEW x \in A PROVE x \in Covered(r)
    OBVIOUS
  <2>1. x \in a .. a + r[a].size - 1 \/ x \in b .. b + r[b].size - 1
    BY <1>1, <1>2
  <2> QED
    BY <2>1 DEF Covered, Bytes
<1>4. Cardinality(A) = n
  <2>1. PICK z \in Int : z = (a + n) - 1
    BY <1>2
  <2>2. Cardinality(a .. z) = IF a > z THEN 0 ELSE z - a + 1
    <3>1. a \in Int
      BY <1>2
    <3> QED
      BY ONLY <3>1, z \in Int, FS_Interval
  <2>3. A = a .. z
    BY <2>1
  <2> HIDE DEF A
  <2> QED
    BY <2>1, <2>2, <2>3, <1>2
<1>5. IsFiniteSet(Covered(r)) /\ Cardinality(Covered(r)) \in Nat
  BY BytesFinite DEF Covered
<1>6. Cardinality(A) <= Cardinality(Covered(r))
  <2> HIDE DEF A
  <2> QED
    BY <1>3, <1>5, FS_Subset
<1>7. Cardinality(Covered(r)) <= Limit /\ Limit \in Nat
  BY SizesAssumption DEF Numbers
<1> QED
  BY <1>2, <1>4, <1>5, <1>6, <1>7 DEF Sizes

\* merge() makes one chunk of two free neighbours that are in no bin.
LEMMA MergeKeeps ==
  ASSUME NEW h, NEW a, NEW b, Pool(h, {a, b}), Positive(h.reg),
         a \in DOMAIN h.reg, b \in DOMAIN h.reg, ~h.reg[a].used, ~h.reg[b].used,
         h.reg[a].next = Id(h.reg, b)
  PROVE  LET m == Merge(h, Id(h.reg, a), Id(h.reg, b))
         IN  MergeOf(h.reg, m.reg, a, b) /\ Pool(m, {a}) /\ Positive(m.reg)
<1> DEFINE r == h.reg
           n == r[a].size + r[b].size
           c3 == <<a, n>>
           r1 == Put(Restrict(r, DOMAIN r \ {a, b}), a, NewChunk(n, r[a].prev, r[b].next))
           g == [h EXCEPT !.reg = r1]
           e == SetPrev(SetNext(g, r[a].prev, c3), r[b].next, c3)
<1>1. /\ RegType(r) /\ Fits(r) /\ Linked(r) /\ Numbers(h) /\ InBins(h, {a, b})
      /\ h.fault = "none" /\ Shape(h)
  BY DEF Pool
<1>2. /\ a \in Nat /\ b \in Nat /\ r[a].size \in Nat /\ r[b].size \in Nat
      /\ r[a].size > 0 /\ r[b].size > 0 /\ b = a + r[a].size /\ a < b /\ r[b].prev = Id(r, a)
  BY <1>1, RegNumbers, Neighbours DEF Positive
<1>3. n \in Sizes
  BY <1>1, MergedSize
<1>4. c3 \in Ids
  BY <1>1, <1>3 DEF RegType, Ids
<1>5. r[a].prev \in Ids /\ r[b].next \in Ids
  BY <1>1 DEF RegType, ChunkRecord
<1>6. PICK w : /\ w = NewChunk(n, r[a].prev, r[b].next)
               /\ w \in ChunkRecord /\ w.size = n /\ ~w.used /\ w.prev = r[a].prev
               /\ w.next = r[b].next /\ w.bin = NoBin
  BY <1>3, <1>5, NewChunkIs
<1>7. /\ DOMAIN r1 = DOMAIN r \ {b} /\ r1 \in [DOMAIN r1 -> ChunkRecord]
      /\ r1[a] = w /\ \A q \in DOMAIN r \ {a, b} : r1[q] = r[q]
  <2>1. PICK r0 : r0 = Restrict(r, DOMAIN r \ {a, b})
    OBVIOUS
  <2>2. r0 \in [DOMAIN r \ {a, b} -> ChunkRecord] /\ \A q \in DOMAIN r \ {a, b} : r0[q] = r[q]
    BY <2>1, <1>1 DEF RegType, Restrict
  <2>3. r1 = Put(r0, a, w)
    BY <2>1, <1>6
  <2> HIDE DEF r1
  <2>4. r1 \in [{a} \cup (DOMAIN r \ {a, b}) -> ChunkRecord]
    BY <2>2, <2>3, <1>6, PutType
  <2>5. /\ r1[a] = w /\ \A q \in DOMAIN r0 : q # a => r1[q] = r0[q]
    BY <2>3 DEF Put
  <2>6. {a} \cup (DOMAIN r \ {a, b}) = DOMAIN r \ {b}
    BY <1>2
  <2>7. DOMAIN r1 = DOMAIN r \ {b} /\ r1 \in [DOMAIN r1 -> ChunkRecord]
    BY <2>4, <2>6
  <2>8. \A q \in DOMAIN r \ {a, b} : r1[q] = r[q]
    BY <2>2, <2>5
  <2> QED
    BY <2>5, <2>7, <2>8
<1>8. Shape(g) /\ g.reg = r1 /\ SameButReg(h, g)
  BY <1>1 DEF Shape, SameButReg
<1> HIDE DEF r1
<1>9. /\ r[a].prev # Null => r[a].prev[1] \in DOMAIN r \ {a, b}
                             /\ r[r[a].prev[1]].size = r[a].prev[2]
      /\ r[b].next # Null => r[b].next[1] \in DOMAIN r \ {a, b}
                             /\ r[r[b].next[1]].size = r[b].next[2]
  <2>1. ASSUME r[a].prev # Null PROVE r[a].prev[1] # b
    <3>1. PICK q \in DOMAIN r : r[a].prev = Id(r, q) /\ a = q + r[q].size
      BY <1>1, <2>1, PrevIs
    <3>2. r[a].prev[1] = q /\ q \in Nat /\ r[q].size \in Nat
      BY <1>1, <3>1, IdIs, RegNumbers
    <3>3. PICK n1 \in Nat : a = q + n1
      BY <3>1, <3>2
    <3>4. q \in Nat /\ a \in Nat /\ b \in Nat /\ a < b
      BY <3>2, <1>2
    <3>5. q # b
      BY ONLY <3>3, <3>4
    <3> QED
      BY <3>2, <3>5
  <2>2. ASSUME r[b].next # Null PROVE r[b].next[1] # a
    <3>1. PICK q \in DOMAIN r : r[b].next = Id(r, q) /\ q = b + r[b].size
      BY <1>1, <2>2, NextIs
    <3>2. r[b].next[1] = q
      BY <1>1, <3>1, IdIs
    <3> QED
      BY <3>1, <3>2, <1>2
  <2>3. r[a].prev # Null => /\ r[a].prev[1] \in DOMAIN r \ {a}
                            /\ r[r[a].prev[1]].size = r[a].prev[2]
    BY <1>1, <1>2, LinksLive
  <2>4. r[b].next # Null => /\ r[b].next[1] \in DOMAIN r \ {b}
                            /\ r[r[b].next[1]].size = r[b].next[2]
    BY <1>1, <1>2, LinksLive
  <2> QED
    BY <2>1, <2>2, <2>3, <2>4
<1>10. SameButReg(g, e) /\ Relinked(r1, e.reg, r[a].prev, c3, r[b].next, c3)
  <2>1. /\ r[a].prev # Null => Live(g, r[a].prev)
        /\ r[b].next # Null => Live(g, r[b].next)
    BY <1>7, <1>8, <1>9 DEF Live
  <2> HIDE DEF g, c3
  <2>2. g.fault = "none" /\ g.reg \in [DOMAIN g.reg -> ChunkRecord]
    BY <1>1, <1>7, <1>8 DEF SameButReg
  <2> QED
    BY <2>1, <2>2, <1>4, <1>8, RelinkIs
<1> HIDE DEF g, e
<1>11. SameButReg(h, e)
  BY <1>8, <1>10 DEF SameButReg
<1>12. MergeOf(r, e.reg, a, b)
  <2>1. /\ DOMAIN e.reg = DOMAIN r1 /\ e.reg \in [DOMAIN e.reg -> ChunkRecord]
        /\ \A q \in DOMAIN r1 :
             /\ e.reg[q].size = r1[q].size /\ e.reg[q].used = r1[q].used /\ e.reg[q].bin = r1[q].bin
             /\ e.reg[q].next = IF r[a].prev # Null /\ q = r[a].prev[1] THEN c3 ELSE r1[q].next
             /\ e.reg[q].prev = IF r[b].next # Null /\ q = r[b].next[1] THEN c3 ELSE r1[q].prev
    BY <1>10 DEF Relinked
  <2>2. /\ e.reg[a].size = n /\ ~e.reg[a].used /\ e.reg[a].bin = NoBin
        /\ e.reg[a].prev = r[a].prev /\ e.reg[a].next = r[b].next
    <3>1. a \in DOMAIN r1
      BY <1>2, <1>7
    <3> HIDE DEF c3
    <3> QED
      BY <2>1, <3>1, <1>6, <1>7, <1>9
  <2>3. Id(e.reg, a) = c3
    BY <2>2 DEF Id
  <2>4. ASSUME NEW q \in DOMAIN r \ {a, b}
        PROVE  /\ e.reg[q].size = r[q].size /\ e.reg[q].used = r[q].used /\ e.reg[q].bin = r[q].bin
               /\ e.reg[q].next = IF r[a].prev = Id(r, q) THEN c3 ELSE r[q].next
               /\ e.reg[q].prev = IF r[b].next = Id(r, q) THEN c3 ELSE r[q].prev
    <3>1. /\ r[a].prev = Id(r, q) <=> r[a].prev # Null /\ q = r[a].prev[1]
          /\ r[b].next = Id(r, q) <=> r[b].next # Null /\ q = r[b].next[1]
      BY <1>1, <1>2, LinksLive
    <3> HIDE DEF c3
    <3> QED
      BY <2>1, <3>1, <1>7
  <2> HIDE DEF c3
  <2> QED
    BY <2>1, <2>2, <2>3, <2>4, <1>7 DEF MergeOf
<1>13. /\ RegType(e.reg) /\ Fits(e.reg) /\ Covered(e.reg) = Covered(r) /\ Linked(e.reg)
       /\ Positive(e.reg)
  BY <1>1, <1>12, MergeFits, MergeLinked
<1>14. /\ DOMAIN e.reg = DOMAIN r \ {b} /\ e.reg[a].bin = NoBin
       /\ \A q \in DOMAIN r \ {a, b} : /\ e.reg[q].size = r[q].size /\ e.reg[q].used = r[q].used
                                       /\ e.reg[q].bin = r[q].bin
  BY <1>12 DEF MergeOf
<1>15. InBins(e, {a})
  <2>1. e.bins = h.bins
    BY <1>11 DEF SameButReg
  <2>2. ASSUME NEW c \in 0 .. NumBins - 1, NEW i \in Ids
        PROVE  i \in e.bins[c] <=> Binned(e.reg, {a}, i, c)
    <3>1. i \in h.bins[c] <=> Binned(r, {a, b}, i, c)
      BY <1>1 DEF InBins
    <3>2. Binned(e.reg, {a}, i, c) <=> Binned(r, {a, b}, i, c)
      BY <1>14 DEF Binned
    <3> QED
      BY <2>1, <3>1, <3>2
  <2>3. ASSUME NEW q \in DOMAIN e.reg
        PROVE  e.reg[q].bin = IF e.reg[q].used \/ q \in {a} THEN NoBin
                              ELSE BinIdxForSize(e.reg[q].size)
    <3>1. CASE q \in DOMAIN r \ {a, b}
      <4>1. r[q].bin = IF r[q].used \/ q \in {a, b} THEN NoBin ELSE BinIdxForSize(r[q].size)
        BY <1>1, <3>1 DEF InBins
      <4> QED
        BY <3>1, <4>1, <1>14
    <3>2. CASE q = a
      BY <3>2, <1>14
    <3> QED
      BY <3>1, <3>2, <1>14
  <2> QED
    BY <1>1, <2>1, <2>2, <2>3 DEF InBins
<1>16. Numbers(e)
  BY <1>1, <1>11, <1>13, NumbersStay DEF SameButReg
<1>17. Pool(e, {a})
  BY <1>1, <1>11, <1>13, <1>15, <1>16 DEF Pool, SameButReg
<1>18. Merge(h, Id(r, a), Id(r, b)) = e
  <2>1. /\ Chunk(h, Id(r, a)) = r[a] /\ Id(r, a)[1] = a /\ Id(r, a)[2] = r[a].size
        /\ Chunk(h, Id(r, b)) = r[b] /\ Id(r, b)[1] = b /\ Id(r, b)[2] = r[b].size
        /\ Live(h, Id(r, a)) /\ Live(h, Id(r, b))
    BY DEF Chunk, Id, Live
  <2> QED
    BY <2>1, <1>1, <1>2 DEF Merge, e, g, r1
<1> QED
  BY <1>12, <1>13, <1>17, <1>18

\* What a step that leaves the clients' chunks alone keeps.
SameUse(r, r2) == Used(r2) = Used(r) /\ Covered(r2) = Covered(r)

\* Taking a free chunk out of its bin changes nothing else.
Taken(h, X, p, k) ==
  /\ Pool(k, X \cup {p}) /\ SameUse(h.reg, k.reg) /\ SameLinks(h.reg, k.reg)
  /\ DOMAIN k.reg = DOMAIN h.reg
  /\ \A Y : Apart(h.reg, Y) => Apart(k.reg, Y)
  /\ \A q \in DOMAIN h.reg :
       /\ k.reg[q].used = h.reg[q].used /\ Id(k.reg, q) = Id(h.reg, q)
       /\ k.reg[q].next = h.reg[q].next /\ k.reg[q].prev = h.reg[q].prev

\* removeChunkFromBin() does just that.
LEMMA TakenIs ==
  ASSUME NEW h, NEW X, Pool(h, X), NEW p \in DOMAIN h.reg \ X, ~h.reg[p].used,
         NEW k, k = RemoveChunkFromBin(h, Id(h.reg, p))
  PROVE  Taken(h, X, p, k)
<1>2. /\ Pool(k, X \cup {p}) /\ SameLinks(h.reg, k.reg)
      /\ \A q \in DOMAIN h.reg : k.reg[q].used = h.reg[q].used
  BY RemoveKeeps
<1>3. Fits(h.reg) /\ Linked(h.reg)
  BY DEF Pool
<1>4. Covered(k.reg) = Covered(h.reg)
  BY <1>2, <1>3, LinksStay
<1>5. Used(k.reg) = Used(h.reg) /\ \A Y : Apart(h.reg, Y) => Apart(k.reg, Y)
  BY <1>2, <1>3, UseStays
<1>6. /\ DOMAIN k.reg = DOMAIN h.reg
      /\ \A q \in DOMAIN h.reg :
           /\ Id(k.reg, q) = Id(h.reg, q)
           /\ k.reg[q].next = h.reg[q].next /\ k.reg[q].prev = h.reg[q].prev
  BY <1>2 DEF SameLinks, Id
<1> QED
  BY <1>2, <1>4, <1>5, <1>6 DEF SameUse, Taken

\* A freed chunk is merged with the next one when that is free,
LEMMA NextMerged ==
  ASSUME NEW h, NEW p, Pool(h, {p}), Positive(h.reg), Apart(h.reg, {p}),
         p \in DOMAIN h.reg, ~h.reg[p].used
  PROVE  LET nx == h.reg[p].next
             m == IF IsFree(h, nx)
                  THEN Merge(RemoveChunkFromBin(h, nx), Id(h.reg, p), nx) ELSE h
         IN  /\ Pool(m, {p}) /\ Positive(m.reg) /\ Apart(m.reg, {p}) /\ NextUsed(m.reg, p)
             /\ p \in DOMAIN m.reg /\ ~m.reg[p].used /\ SameUse(h.reg, m.reg)
<1> DEFINE r == h.reg
           nx == r[p].next
<1>1. RegType(r) /\ Fits(r) /\ Linked(r)
  BY DEF Pool
<1>2. CASE ~IsFree(h, nx)
  <2>1. NextUsed(r, p)
    <3> SUFFICES ASSUME nx # Null PROVE r[nx[1]].used
      BY DEF NextUsed
    <3>1. PICK b \in DOMAIN r : nx = Id(r, b)
      BY <1>1, NextIs
    <3>2. nx[1] = b /\ Chunk(h, nx) = r[b]
      BY <3>1 DEF Id, Chunk
    <3> QED
      BY <3>2, <1>2 DEF IsFree
  <2> QED
    BY <2>1, <1>2 DEF SameUse
<1>3. CASE IsFree(h, nx)
  <2>1. nx # Null
    BY <1>3 DEF IsFree
  <2>2. PICK b \in DOMAIN r : nx = Id(r, b)
    BY <1>1, <2>1, NextIs
  <2>3. b # p
    BY <1>1, <2>2, Neighbours, RegNumbers
  <2>4. ~r[b].used
    <3>1. Live(h, nx) /\ Chunk(h, nx) = r[b]
      BY <2>2 DEF Id, Live, Chunk
    <3> QED
      BY <3>1, <1>3 DEF IsFree
  <2>5. PICK k : k = RemoveChunkFromBin(h, Id(r, b))
    OBVIOUS
  <2>6. /\ Pool(k, {p, b}) /\ Positive(k.reg) /\ SameUse(r, k.reg)
        /\ DOMAIN k.reg = DOMAIN r /\ Apart(k.reg, {p})
        /\ ~k.reg[p].used /\ ~k.reg[b].used /\ Id(k.reg, p) = Id(r, p) /\ Id(k.reg, b) = Id(r, b)
        /\ k.reg[p].next = Id(k.reg, b)
    <3>1. PICK X : X = {p}
      OBVIOUS
    <3>2. Pool(h, X) /\ b \in DOMAIN r \ X
      BY <3>1, <2>3
    <3>3. Taken(h, X, b, k)
      BY <2>4, <2>5, <3>2, TakenIs
    <3>4. X \cup {b} = {p, b}
      BY <3>1
    <3>5. Positive(k.reg)
      BY <3>3 DEF Positive, SameLinks, Taken
    <3> QED
      BY <3>3, <3>4, <3>5, <2>2, <2>4 DEF Taken
  <2>7. PICK m : m = Merge(k, Id(k.reg, p), Id(k.reg, b))
    OBVIOUS
  <2>8. MergeOf(k.reg, m.reg, p, b) /\ Pool(m, {p}) /\ Positive(m.reg)
    BY <2>6, <2>7, MergeKeeps
  <2>9. RegType(k.reg) /\ Fits(k.reg) /\ Linked(k.reg)
    BY <2>6 DEF Pool
  <2>10. Used(m.reg) = Used(k.reg) /\ Apart(m.reg, {p}) /\ NextUsed(m.reg, p)
    BY <2>6, <2>8, <2>9, MergeUse
  <2>11. Covered(m.reg) = Covered(k.reg)
    BY <2>6, <2>8, <2>9, MergeFits
  <2>12. p \in DOMAIN m.reg /\ ~m.reg[p].used
    BY <2>3, <2>6, <2>8 DEF MergeOf
  <2>13. m = Merge(RemoveChunkFromBin(h, nx), Id(r, p), nx)
    BY <2>2, <2>5, <2>6, <2>7
  <2>14. SameUse(r, m.reg)
    BY <2>6, <2>10, <2>11 DEF SameUse
  <2> QED
    BY <1>3, <2>8, <2>10, <2>12, <2>13, <2>14
<1> QED
  BY <1>2, <1>3

\* and then with the one before it.
LEMMA PrevMerged ==
  ASSUME NEW h, NEW p, Pool(h, {p}), Positive(h.reg), Apart(h.reg, {p}), NextUsed(h.reg, p),
         p \in DOMAIN h.reg, ~h.reg[p].used
  PROVE  LET pv == h.reg[p].prev
             m == IF IsFree(h, pv)
                  THEN Merge(RemoveChunkFromBin(h, pv), pv, Id(h.reg, p)) ELSE h
             p2 == IF m = h THEN p ELSE pv[1]
         IN  /\ Pool(m, {p2}) /\ Positive(m.reg) /\ Apart(m.reg, {})
             /\ p2 \in DOMAIN m.reg /\ ~m.reg[p2].used /\ SameUse(h.reg, m.reg)
<1> DEFINE r == h.reg
           pv == r[p].prev
<1>1. RegType(r) /\ Fits(r) /\ Linked(r)
  BY DEF Pool
<1>2. CASE ~IsFree(h, pv)
  <2>1. PrevUsed(r, p)
    <3> SUFFICES ASSUME pv # Null PROVE r[pv[1]].used
      BY DEF PrevUsed
    <3>1. PICK a \in DOMAIN r : pv = Id(r, a)
      BY <1>1, PrevIs
    <3>2. pv[1] = a /\ Chunk(h, pv) = r[a]
      BY <3>1 DEF Id, Chunk
    <3> QED
      BY <3>2, <1>2 DEF IsFree
  <2>2. Apart(r, {})
    BY <1>1, <2>1, ApartAlone
  <2> QED
    BY <2>2, <1>2 DEF SameUse
<1>3. CASE IsFree(h, pv)
  <2>1. pv # Null
    BY <1>3 DEF IsFree
  <2>2. PICK a \in DOMAIN r : pv = Id(r, a) /\ r[a].next = Id(r, p)
    BY <1>1, <2>1, PrevIs
  <2>3. a # p
    BY <1>1, <2>2, Neighbours, RegNumbers
  <2>4. ~r[a].used /\ pv[1] = a
    <3>1. Live(h, pv) /\ Chunk(h, pv) = r[a] /\ pv[1] = a
      BY <2>2 DEF Id, Live, Chunk
    <3> QED
      BY <3>1, <1>3 DEF IsFree
  <2>5. PICK k : k = RemoveChunkFromBin(h, Id(r, a))
    OBVIOUS
  <2>6. /\ Pool(k, {a, p}) /\ Positive(k.reg) /\ SameUse(r, k.reg)
        /\ DOMAIN k.reg = DOMAIN r /\ Apart(k.reg, {p}) /\ NextUsed(k.reg, p)
        /\ ~k.reg[p].used /\ ~k.reg[a].used /\ Id(k.reg, p) = Id(r, p) /\ Id(k.reg, a) = Id(r, a)
        /\ k.reg[a].next = Id(k.reg, p)
    <3>1. PICK X : X = {p}
      OBVIOUS
    <3>2. Pool(h, X) /\ a \in DOMAIN r \ X
      BY <3>1, <2>3
    <3>3. Taken(h, X, a, k)
      BY <2>4, <2>5, <3>2, TakenIs
    <3>4. X \cup {a} = {a, p}
      BY <3>1
    <3>5. NextUsed(k.reg, p)
      <4>1. r[p].next # Null => r[p].next[1] \in DOMAIN r
        BY <1>1, NextIs, IdIs
      <4> QED
        BY <3>3, <4>1 DEF NextUsed, Taken
    <3>6. k.reg[a].next = Id(k.reg, p)
      BY <2>2, <3>3 DEF Taken
    <3>7. Positive(k.reg)
      BY <3>3 DEF Positive, SameLinks, Taken
    <3> QED
      BY <3>3, <3>4, <3>5, <3>6, <3>7, <2>4 DEF Taken
  <2>7. PICK m : m = Merge(k, Id(k.reg, a), Id(k.reg, p))
    OBVIOUS
  <2>8. MergeOf(k.reg, m.reg, a, p) /\ Pool(m, {a}) /\ Positive(m.reg)
    BY <2>6, <2>7, MergeKeeps
  <2>9. RegType(k.reg) /\ Fits(k.reg) /\ Linked(k.reg)
    BY <2>6 DEF Pool
  <2>10. Used(m.reg) = Used(k.reg) /\ Apart(m.reg, {})
    BY <2>6, <2>8, <2>9, MergeUse
  <2>11. Covered(m.reg) = Covered(k.reg)
    BY <2>6, <2>8, <2>9, MergeFits
  <2>12. a \in DOMAIN m.reg /\ ~m.reg[a].used /\ p \notin DOMAIN m.reg
    BY <2>3, <2>6, <2>8 DEF MergeOf
  <2>13. m = Merge(RemoveChunkFromBin(h, pv), pv, Id(r, p))
    BY <2>2, <2>5, <2>6, <2>7
  <2>14. SameUse(r, m.reg)
    BY <2>6, <2>10, <2>11 DEF SameUse
  <2>15. m # h
    BY <2>12
  <2> QED
    BY <1>3, <2>4, <2>8, <2>10, <2>12, <2>13, <2>14, <2>15
<1> QED
  BY <1>2, <1>3

\* freeAndCoalesce() gives back exactly the chunk it is called for.
LEMMA FreeKeeps ==
  ASSUME NEW h, Between(h), NEW p \in DOMAIN h.reg, h.reg[p].used
  PROVE  LET m == FreeAndCoalesce(h, Id(h.reg, p))
         IN  /\ Between(m) /\ Used(m.reg) = Used(h.reg) \ {Id(h.reg, p)}
             /\ Covered(m.reg) = Covered(h.reg)
<1> DEFINE r == h.reg
<1>1. /\ Pool(h, {}) /\ Apart(r, {}) /\ Positive(r) /\ RegType(r) /\ Fits(r) /\ Linked(r)
      /\ r[p].bin = NoBin
  BY DEF Between, Pool, InBins
<1>2. PICK h0 : h0 = [h EXCEPT !.reg[p].used = FALSE]
  OBVIOUS
<1>3. /\ Pool(h0, {p}) /\ SameLinks(r, h0.reg) /\ ~h0.reg[p].used
      /\ \A q \in DOMAIN r \ {p} : h0.reg[q].used = r[q].used
  <2>1. PICK X, Y, u : X = {} /\ Y = {p} /\ u = FALSE
    OBVIOUS
  <2>2. /\ Pool(h0, Y) /\ SameLinks(h.reg, h0.reg) /\ h0.reg[p].used = u
        /\ \A q \in DOMAIN h.reg \ {p} : h0.reg[q].used = h.reg[q].used
    <3>1. /\ Pool(h, X) /\ \A q \in DOMAIN h.reg : q # p => (q \in Y <=> q \in X)
          /\ u => p \in X
          /\ ~u => p \in Y /\ (h.reg[p].used \/ p \in X)
          /\ u \in BOOLEAN /\ h0 = UsedSet(h, p, u)
      BY <2>1, <1>1, <1>2 DEF UsedSet
    <3> QED
      BY <3>1, UseKeeps
  <2> QED
    BY <2>1, <2>2, <1>2
<1>4. Positive(h0.reg) /\ Covered(h0.reg) = Covered(r) /\ DOMAIN h0.reg = DOMAIN r
  BY <1>1, <1>3, LinksStay DEF SameLinks
<1>5. Apart(h0.reg, {p})
  <2> SUFFICES ASSUME NEW q \in DOMAIN r \ {p}, r[q].next # Null, ~r[q].used,
                      r[q].next[1] # p
               PROVE  h0.reg[r[q].next[1]].used
    BY <1>3 DEF Apart, SameLinks
  <2>1. r[q].next[1] \in DOMAIN r
    BY <1>1, NextIs, IdIs
  <2>2. r[r[q].next[1]].used
    BY <1>1 DEF Apart
  <2> QED
    BY <2>1, <2>2, <1>3
<1>6. Used(h0.reg) = Used(r) \ {Id(r, p)}
  <2>1. \A q \in DOMAIN r : Id(h0.reg, q) = Id(r, q)
    BY <1>3 DEF SameLinks, Id
  <2>2. \A q \in DOMAIN r : Id(r, q) = Id(r, p) => q = p
    BY DEF Id
  <2>3. \A q \in DOMAIN r : h0.reg[q].used <=> r[q].used /\ q # p
    BY <1>3
  <2> QED
    BY <2>1, <2>2, <2>3, <1>4 DEF Used
<1>7. PICK h1 : h1 = IF IsFree(h0, h0.reg[p].next)
                     THEN Merge(RemoveChunkFromBin(h0, h0.reg[p].next), Id(h0.reg, p),
                                h0.reg[p].next)
                     ELSE h0
  OBVIOUS
<1>8. /\ Pool(h1, {p}) /\ Positive(h1.reg) /\ Apart(h1.reg, {p}) /\ NextUsed(h1.reg, p)
      /\ p \in DOMAIN h1.reg /\ ~h1.reg[p].used /\ SameUse(h0.reg, h1.reg)
  BY <1>3, <1>4, <1>5, <1>7, NextMerged
<1>9. PICK h2, p2 :
        /\ h2 = IF IsFree(h1, h1.reg[p].prev)
                THEN Merge(RemoveChunkFromBin(h1, h1.reg[p].prev), h1.reg[p].prev,
                           Id(h1.reg, p))
                ELSE h1
        /\ p2 = IF h2 = h1 THEN p ELSE h1.reg[p].prev[1]
  OBVIOUS
<1>10. /\ Pool(h2, {p2}) /\ Positive(h2.reg) /\ Apart(h2.reg, {})
       /\ p2 \in DOMAIN h2.reg /\ ~h2.reg[p2].used /\ SameUse(h1.reg, h2.reg)
  BY <1>8, <1>9, PrevMerged
<1>11. PICK m : m = InsertChunkIntoBin(h2, Id(h2.reg, p2))
  OBVIOUS
<1>12. /\ Pool(m, {}) /\ SameLinks(h2.reg, m.reg)
       /\ \A q \in DOMAIN h2.reg : m.reg[q].used = h2.reg[q].used
  <2>1. PICK X : X = {p2}
    OBVIOUS
  <2>2. LET n == InsertChunkIntoBin(h2, Id(h2.reg, p2))
        IN  /\ Pool(n, X \ {p2}) /\ SameLinks(h2.reg, n.reg)
            /\ \A q \in DOMAIN h2.reg : n.reg[q].used = h2.reg[q].used
    <3>1. Pool(h2, X) /\ p2 \in X
      BY <2>1, <1>10
    <3> QED
      BY <3>1, <1>10, InsertKeeps
  <2>3. X \ {p2} = {}
    BY <2>1
  <2> QED
    BY <2>2, <2>3, <1>11
<1>13. /\ Positive(m.reg) /\ Covered(m.reg) = Covered(h2.reg) /\ Used(m.reg) = Used(h2.reg)
       /\ Apart(m.reg, {})
  <2>1. Fits(h2.reg) /\ Linked(h2.reg)
    BY <1>10 DEF Pool
  <2> QED
    BY <2>1, <1>10, <1>12, LinksStay, UseStays
<1>14. m = FreeAndCoalesce(h, Id(r, p))
  <2>1. PICK id : id = Id(r, p)
    OBVIOUS
  <2>2. id[1] = p /\ Id(h0.reg, p) = id /\ Chunk(h, id) = r[p]
    BY <2>1, <1>3 DEF Id, Chunk, SameLinks
  <2>3. PICK id1 : id1 = Id(h1.reg, p)
    OBVIOUS
  <2>4. id1 = <<p, h1.reg[p].size>> /\ Chunk(h1, id1) = h1.reg[p] /\ Chunk(h0, id) = h0.reg[p]
    BY <2>2, <2>3 DEF Id, Chunk
  <2> DEFINE d0 == [h EXCEPT !.reg[id[1]].used = FALSE]
             nx == Chunk(d0, id).next
             d1 == IF IsFree(d0, nx) THEN Merge(RemoveChunkFromBin(d0, nx), id, nx) ELSE d0
             i1 == <<id[1], d1.reg[id[1]].size>>
             pv == Chunk(d1, i1).prev
             d2 == IF IsFree(d1, pv) THEN Merge(RemoveChunkFromBin(d1, pv), pv, i1) ELSE d1
             q2 == IF d2 = d1 THEN id[1] ELSE pv[1]
  <2>5. FreeAndCoalesce(h, id) =
          IF ~Chunk(h, id).used \/ Chunk(h, id).bin # NoBin THEN Fault(h, "structure")
          ELSE InsertChunkIntoBin(d2, <<q2, d2.reg[q2].size>>)
    BY Zenon DEF FreeAndCoalesce
  <2>6. d0 = h0
    BY <1>2, <2>2
  <2> HIDE DEF d0
  <2>7. nx = h0.reg[p].next
    BY <2>4, <2>6
  <2> HIDE DEF nx
  <2>8. d1 = h1
    BY <1>7, <2>1, <2>2, <2>6, <2>7
  <2> HIDE DEF d1
  <2>9. i1 = id1
    BY <2>2, <2>4, <2>8
  <2> HIDE DEF i1
  <2>10. pv = h1.reg[p].prev
    BY <2>4, <2>8, <2>9
  <2> HIDE DEF pv
  <2>11. d2 = h2
    BY <1>9, <2>3, <2>8, <2>9, <2>10
  <2> HIDE DEF d2
  <2>12. q2 = p2
    BY <1>9, <2>2, <2>8, <2>10, <2>11
  <2> HIDE DEF q2
  <2> QED
    BY <1>1, <1>11, <2>1, <2>2, <2>5, <2>11, <2>12 DEF Id
<1>15. SameUse(h0.reg, h1.reg) /\ SameUse(h1.reg, h2.reg)
  BY <1>8, <1>10
<1>16. Used(m.reg) = Used(r) \ {Id(r, p)} /\ Covered(m.reg) = Covered(r)
  BY <1>4, <1>6, <1>13, <1>15 DEF SameUse
<1>17. Between(m)
  BY <1>12, <1>13 DEF Between
<1> QED
  BY <1>14, <1>16, <1>17

\* The bin's order has a first chunk.
LEMMA BestFitIs ==
  ASSUME NEW S, S # {}, \A i \in S : i[1] \in Nat /\ i[2] \in Nat
  PROVE  BestFit(S) \in S
<1> DEFINE Ss == {i[2] : i \in S}
<1>1. PICK s \in Ss : \A x \in Ss : s <= x
  <2>1. Ss \in SUBSET Nat /\ Ss # {}
    OBVIOUS
  <2> HIDE DEF Ss
  <2> QED
    BY <2>1, MinIsLeast
<1> DEFINE As == {i[1] : i \in {j \in S : j[2] = s}}
<1>2. PICK a \in As : \A x \in As : a <= x
  <2>1. As \in SUBSET Nat /\ As # {}
    BY <1>1
  <2> HIDE DEF As
  <2> QED
    BY <2>1, MinIsLeast
<1>3. PICK i \in S : i[1] = a /\ i[2] = s
  BY <1>2
<1>4. ASSUME NEW o \in S PROVE i[2] < o[2] \/ (i[2] = o[2] /\ i[1] <= o[1])
  <2>1. s <= o[2] /\ s \in Nat /\ o[2] \in Nat
    BY <1>1
  <2>2. CASE s = o[2]
    <3>1. o[1] \in As
      BY <2>2
    <3> QED
      BY <2>2, <3>1, <1>2, <1>3
  <2>3. CASE s # o[2]
    BY <2>1, <2>3, <1>3
  <2> QED
    BY <2>2, <2>3
<1>5. \E j \in S : \A o \in S : j[2] < o[2] \/ (j[2] = o[2] /\ j[1] <= o[1])
  BY <1>4
<1> QED
  BY <1>5 DEF BestFit

\* A chunk that is marked used is one more of those in use.
LEMMA GrantKeeps ==
  ASSUME NEW h, NEW p, Pool(h, {p}), Apart(h.reg, {p}), Positive(h.reg),
         p \in DOMAIN h.reg, ~h.reg[p].used, NEW m, m = UsedSet(h, p, TRUE)
  PROVE  /\ Between(m) /\ Used(m.reg) = Used(h.reg) \cup {Id(h.reg, p)}
         /\ Covered(m.reg) = Covered(h.reg)
<1>1. RegType(h.reg) /\ Fits(h.reg) /\ Linked(h.reg)
  BY DEF Pool
<1>2. /\ Pool(m, {}) /\ SameLinks(h.reg, m.reg) /\ m.reg[p].used
      /\ \A q \in DOMAIN h.reg \ {p} : m.reg[q].used = h.reg[q].used
  <2>1. PICK X, Y, u : X = {p} /\ Y = {} /\ u = TRUE
    OBVIOUS
  <2>2. /\ Pool(h, X) /\ \A q \in DOMAIN h.reg : q # p => (q \in Y <=> q \in X)
        /\ u => p \in X
        /\ ~u => p \in Y /\ (h.reg[p].used \/ p \in X)
        /\ u \in BOOLEAN /\ m = UsedSet(h, p, u) /\ p \in DOMAIN h.reg
    BY <2>1
  <2>3. /\ Pool(m, Y) /\ SameLinks(h.reg, m.reg) /\ m.reg[p].used = u
        /\ \A q \in DOMAIN h.reg \ {p} : m.reg[q].used = h.reg[q].used
    BY ONLY <2>2, UseKeeps
  <2> QED
    BY <2>1, <2>3
<1>3. Positive(m.reg) /\ Covered(m.reg) = Covered(h.reg)
  BY <1>1, <1>2, LinksStay
<1>4. Used(m.reg) = Used(h.reg) \cup {Id(h.reg, p)}
  <2>1. \A q \in DOMAIN h.reg : Id(m.reg, q) = Id(h.reg, q)
    BY <1>2 DEF SameLinks, Id
  <2>2. DOMAIN m.reg = DOMAIN h.reg
    BY <1>2 DEF SameLinks
  <2>3. {q \in DOMAIN m.reg : m.reg[q].used} = {q \in DOMAIN h.reg : h.reg[q].used} \cup {p}
    BY <2>2, <1>2
  <2>4. PICK U, V : /\ U = {q \in DOMAIN h.reg : h.reg[q].used} /\ V = U \cup {p}
                    /\ V = {q \in DOMAIN m.reg : m.reg[q].used}
    BY <2>3
  <2>5. \A q \in V : Id(m.reg, q) = Id(h.reg, q)
    BY <2>1, <2>2, <2>4
  <2>6. Used(m.reg) = {Id(m.reg, q) : q \in V} /\ Used(h.reg) = {Id(h.reg, q) : q \in U}
    BY <2>4, Zenon DEF Used
  <2>7. V = U \cup {p}
    BY <2>4
  <2> QED
    BY ONLY <2>5, <2>6, <2>7
<1>5. Apart(m.reg, {p})
  <2> SUFFICES ASSUME NEW q \in DOMAIN h.reg \ {p}, h.reg[q].next # Null, ~h.reg[q].used,
                      h.reg[q].next[1] # p
               PROVE  m.reg[h.reg[q].next[1]].used
    BY <1>2 DEF Apart, SameLinks
  <2>1. h.reg[q].next[1] \in DOMAIN h.reg
    BY <1>1, NextIs, IdIs
  <2>2. h.reg[h.reg[q].next[1]].used
    BY DEF Apart
  <2> QED
    BY <2>1, <2>2, <1>2
<1>6. Apart(m.reg, {})
  <2>1. RegType(m.reg) /\ Linked(m.reg) /\ p \in DOMAIN m.reg
    BY <1>2 DEF Pool, SameLinks
  <2> QED
    BY <2>1, <1>2, <1>5, ApartAlone
<1> QED
  BY <1>2, <1>3, <1>4, <1>6 DEF Between

\* What findChunkPtr() may end with.
NothingFound(h, r) == r = <<h, 0>>
NothingLeft(h, r) ==
  /\ r[2] = 0 /\ r[1].fault = "size" /\ AtTheEnd(r[1]) /\ SameUse(h.reg, r[1].reg)
Granted(h, rounded, r) ==
  /\ Between(r[1])
  /\ r[2] \in Addresses /\ \A u \in Used(h.reg) : u[1] # r[2]
  /\ \E s \in Nat : s >= rounded /\ Used(r[1].reg) = Used(h.reg) \cup {<<r[2], s>>}

\* findChunkPtr() takes a free chunk that is large enough and leaves the rest of
\* it in a bin; only a size of 0 makes it fail, in the ASSERT of splitChunk().
LEMMA FindKeeps ==
  ASSUME NEW h, Pool(h, {}), Apart(h.reg, {}),
         NEW rounded \in Nat, rounded > 0 => Positive(h.reg), NEW bin \in 0 .. NumBins - 1,
         NEW res, res = FindChunkPtr(h, bin, rounded)
  PROVE  \/ NothingFound(h, res)
         \/ rounded = 0 /\ NothingLeft(h, res)
         \/ rounded > 0 /\ Granted(h, rounded, res)
<1> DEFINE r == h.reg
           bins == {b \in bin .. NumBins - 1 : Fitting(h, b, rounded) # {}}
           id == BestFit(Fitting(h, Min(bins), rounded))
           taken == RemoveChunkFromBin(h, id)
           cut == IF id[2] >= rounded * 2 \/ id[2] >= rounded + MaxFragment
                  THEN SplitChunk(taken, id, rounded) ELSE taken
<1>1. res = IF bins = {} THEN <<h, 0>>
            ELSE IF cut.fault # "none" THEN <<cut, 0>>
            ELSE <<[cut EXCEPT !.reg[id[1]].used = TRUE], id[1]>>
  BY Zenon DEF FindChunkPtr
<1>2. CASE bins = {}
  BY <1>1, <1>2 DEF NothingFound
<1>3. CASE bins # {}
  <2>1. /\ Pool(h, {}) /\ Apart(r, {}) /\ RegType(r) /\ Fits(r) /\ Linked(r)
        /\ Numbers(h) /\ InBins(h, {})
    BY DEF Pool
  <2>2. Min(bins) \in bins
    <3>1. bins \in SUBSET Nat
      BY SizesAssumption
    <3> HIDE DEF bins
    <3> QED
      BY <3>1, <1>3, MinIsLeast
  <2>20. \A b \in bins : b \in 0 .. NumBins - 1 /\ Fitting(h, b, rounded) # {}
    BY SizesAssumption
  <2> HIDE DEF bins
  <2>3. PICK b \in 0 .. NumBins - 1 : b = Min(bins) /\ Fitting(h, b, rounded) # {}
    BY <2>2, <2>20
  <2>4. ASSUME NEW i \in Fitting(h, b, rounded)
        PROVE  /\ i[1] \in DOMAIN r /\ ~r[i[1]].used /\ i = Id(r, i[1]) /\ i[2] >= rounded
               /\ i[1] \in Nat /\ i[2] \in Nat
    <3>1. i \in h.bins[b] /\ i \in Ids /\ i[2] >= rounded
      BY <2>1 DEF Fitting, InBins
    <3>2. Binned(r, {}, i, b)
      BY <2>1, <3>1 DEF InBins
    <3>3. i = <<i[1], i[2]>>
      BY <3>1 DEF Ids, Null
    <3> QED
      BY <2>1, <3>1, <3>2, <3>3, RegNumbers DEF Binned, Id
  <2>5. id \in Fitting(h, b, rounded)
    BY <2>3, <2>4, BestFitIs
  <2>6. PICK p \in DOMAIN r : ~r[p].used /\ id = Id(r, p) /\ r[p].size >= rounded
                              /\ id[1] = p /\ id[2] = r[p].size
    BY <2>4, <2>5 DEF Id
  <2>7. r[p].size \in Nat /\ MaxFragment \in Nat /\ MaxFragment > 0 /\ p \in Addresses
    BY <2>1, RegNumbers, SizesAssumption DEF RegType
  <2> HIDE DEF id
  <2>8. PICK k : k = RemoveChunkFromBin(h, Id(r, p))
    OBVIOUS
  <2>9. /\ Pool(k, {p}) /\ (rounded > 0 => Positive(k.reg)) /\ SameUse(r, k.reg)
        /\ DOMAIN k.reg = DOMAIN r
        /\ Apart(k.reg, {}) /\ ~k.reg[p].used /\ Id(k.reg, p) = Id(r, p)
        /\ k.reg[p].size = r[p].size
    <3>1. PICK X : X = {}
      OBVIOUS
    <3>2. Pool(h, X) /\ p \in DOMAIN r \ X
      BY <2>1, <3>1
    <3>3. Taken(h, X, p, k)
      BY <2>1, <2>6, <2>8, <3>2, TakenIs
    <3>4. X \cup {p} = {p}
      BY <3>1
    <3>5. k.reg[p].size = r[p].size
      BY <3>3 DEF Id, Taken
    <3>6. Apart(k.reg, {}) /\ ~k.reg[p].used /\ Id(k.reg, p) = Id(r, p)
      BY <2>1, <2>6, <3>3 DEF Taken
    <3>7. rounded > 0 => Positive(k.reg)
      BY <3>3 DEF Positive, SameLinks, Taken
    <3> QED
      BY <3>3, <3>4, <3>5, <3>6, <3>7 DEF Taken
  <2>10. taken = k
    BY <2>6, <2>8
  <2> HIDE DEF taken
  <2>11. Chunk(k, Id(r, p)) = k.reg[p] /\ ~k.reg[p].used /\ k.reg[p].bin = NoBin
    <3>1. InBins(k, {p})
      BY <2>9 DEF Pool
    <3> QED
      BY <3>1, <2>9 DEF InBins, Chunk, Id
  <2>12. CASE rounded = 0
    <3>1. cut = SplitChunk(k, Id(r, p), 0)
      BY <2>6, <2>7, <2>10, <2>12
    <3>2. cut = Fault(k, "size")
      BY <3>1, <2>11 DEF SplitChunk
    <3> HIDE DEF cut
    <3>3. Shape(k)
      BY <2>9 DEF Pool
    <3>4. cut.reg = k.reg /\ cut.fault = "size"
          /\ Shape(cut) /\ cut.bins = k.bins /\ cut.reserved = k.reserved
          /\ cut.cached = k.cached /\ cut.peak = k.peak /\ cut.extend = k.extend
      BY <3>2, <3>3 DEF Fault, Shape
    <3>5. RegType(k.reg) /\ Fits(k.reg) /\ Linked(k.reg) /\ Numbers(k) /\ InBins(k, {p})
      BY <2>9 DEF Pool
    <3>6. AtTheEnd(cut)
      <4>1. Numbers(cut)
        BY <3>4, <3>5, NumbersStay
      <4> QED
        BY <3>4, <3>5, <4>1, <2>9 DEF AtTheEnd, InBins
    <3>7. res = <<cut, 0>>
      BY <1>1, <1>3, <3>4
    <3> QED
      BY <2>9, <2>12, <3>4, <3>6, <3>7 DEF NothingLeft
  <2>13. CASE rounded > 0
    <3>1. /\ Pool(cut, {p}) /\ Apart(cut.reg, {p}) /\ Positive(cut.reg)
          /\ Used(cut.reg) = Used(r) /\ Covered(cut.reg) = Covered(r)
          /\ p \in DOMAIN cut.reg /\ ~cut.reg[p].used
          /\ cut.reg[p].size >= rounded /\ cut.reg[p].size \in Nat
      <4>1. CASE id[2] >= rounded * 2 \/ id[2] >= rounded + MaxFragment
        <5>1. rounded \in 1 .. k.reg[p].size - 1
          BY <4>1, <2>6, <2>7, <2>9, <2>13
        <5>2. cut = SplitChunk(k, Id(k.reg, p), rounded)
          BY <4>1, <2>6, <2>9, <2>10
        <5> HIDE DEF cut
        <5>6. Pool(k, {p}) /\ Apart(k.reg, {}) /\ Positive(k.reg) /\ p \in DOMAIN k.reg
              /\ ~k.reg[p].used
          BY <2>9, <2>13
        <5>7. Cut(k, p, rounded, cut)
          BY <5>1, <5>2, <5>6, SplitKeeps
        <5>3. /\ Pool(cut, {p}) /\ Apart(cut.reg, {p}) /\ Used(cut.reg) = Used(k.reg)
              /\ Covered(cut.reg) = Covered(k.reg) /\ Positive(cut.reg)
              /\ p \in DOMAIN cut.reg /\ cut.reg[p].size = rounded /\ ~cut.reg[p].used
          BY <5>7 DEF Cut
        <5>4. Used(cut.reg) = Used(r) /\ Covered(cut.reg) = Covered(r)
          BY <5>3, <2>9 DEF SameUse
        <5>5. cut.reg[p].size >= rounded /\ cut.reg[p].size \in Nat
          BY <5>3
        <5> QED
          BY <5>3, <5>4, <5>5
      <4>2. CASE ~(id[2] >= rounded * 2 \/ id[2] >= rounded + MaxFragment)
        <5>1. cut = k
          BY <4>2, <2>10
        <5> HIDE DEF cut
        <5>2. Apart(k.reg, {p})
          BY <2>9 DEF Apart
        <5>3. cut.reg[p].size >= rounded /\ cut.reg[p].size \in Nat
          BY <5>1, <2>6, <2>7, <2>9
        <5> QED
          BY <5>1, <5>2, <5>3, <2>9, <2>13 DEF SameUse
      <4> QED
        BY <4>1, <4>2
    <3> HIDE DEF cut
    <3>2. cut.fault = "none"
      BY <3>1 DEF Pool
    <3>3. PICK m : m = UsedSet(cut, p, TRUE)
      OBVIOUS
    <3>4. /\ Between(m) /\ Used(m.reg) = Used(cut.reg) \cup {Id(cut.reg, p)}
          /\ Covered(m.reg) = Covered(cut.reg)
      BY <3>1, <3>3, GrantKeeps
    <3>5. res = <<m, p>>
      BY <1>1, <1>3, <2>6, <3>2, <3>3 DEF UsedSet
    <3>6. \A u \in Used(r) : u[1] # p
      BY <2>6 DEF Used, Id
    <3>7. Granted(h, rounded, res)
      BY <2>7, <3>1, <3>4, <3>5, <3>6 DEF Granted, Id
    <3> QED
      BY <2>13, <3>7
  <2> QED
    BY <2>12, <2>13
<1> QED
  BY <1>2, <1>3

\* Bytes of disjoint sets of chunks are disjoint.
LEMMA BytesApart ==
  ASSUME NEW r, RegType(r), Fits(r), NEW S \in SUBSET DOMAIN r
  PROVE  /\ Covered(r) = Bytes(r, DOMAIN r \ S) \cup Bytes(r, S)
         /\ Bytes(r, DOMAIN r \ S) \cap Bytes(r, S) = {}
         /\ Cardinality(Bytes(r, DOMAIN r \ S)) = Cardinality(Covered(r)) - Cardinality(Bytes(r, S))
<1> DEFINE D == DOMAIN r \ S
<1>1. Covered(r) = Bytes(r, D) \cup Bytes(r, S)
  BY DEF Covered, Bytes
<1>2. Bytes(r, D) \cap Bytes(r, S) = {}
  <2> SUFFICES ASSUME NEW x \in Bytes(r, D), x \in Bytes(r, S) PROVE FALSE
    OBVIOUS
  <2>1. PICK p \in D, q \in S : x \in p .. p + r[p].size - 1 /\ x \in q .. q + r[q].size - 1
    BY DEF Bytes
  <2>2. p # q /\ p \in DOMAIN r /\ q \in DOMAIN r
    BY <2>1
  <2>3. p \in Nat /\ q \in Nat /\ r[p].size \in Nat /\ r[q].size \in Nat
    BY <2>2, RegNumbers
  <2>4. p + r[p].size <= q \/ q + r[q].size <= p
    BY <2>2, <2>3 DEF Fits
  <2> QED
    BY <2>1, <2>3, <2>4
<1>3. D \in SUBSET DOMAIN r
  OBVIOUS
<1>4. PICK A, B : A = Bytes(r, D) /\ B = Bytes(r, S)
  OBVIOUS
<1>5. IsFiniteSet(A) /\ IsFiniteSet(B) /\ Cardinality(A) \in Nat /\ Cardinality(B) \in Nat
  BY <1>3, <1>4, BytesFinite
<1>6. Cardinality(A \cup B) = Cardinality(A) + Cardinality(B) - Cardinality(A \cap B)
  BY <1>5, FS_Union
<1>7. Cardinality(A \cap B) = 0
  BY <1>2, <1>4, FS_EmptySet
<1>8. Cardinality(A) = Cardinality(A \cup B) - Cardinality(B)
  BY <1>5, <1>6, <1>7
<1> QED
  BY <1>1, <1>2, <1>4, <1>8

\* shrink() gives back the free monoblocks and nothing else.
LEMMA ShrinkKeeps ==
  ASSUME NEW h, Between(h), NEW m, m = Shrink(h)
  PROVE  /\ Between(m) /\ Used(m.reg) = Used(h.reg) /\ Monoblocks(m) = {}
         /\ m.extend = h.extend
<1> DEFINE r == h.reg
           gone == Monoblocks(h)
           D == DOMAIN r \ gone
           ids == {<<p, h.reg[p].size>> : p \in gone}
           bytes == SizeSum(r, gone)
           r2 == Restrict(r, D)
<1>1. /\ Apart(r, {}) /\ Positive(r) /\ RegType(r) /\ Fits(r) /\ Linked(r)
      /\ Numbers(h) /\ InBins(h, {}) /\ Shape(h) /\ h.fault = "none"
  BY DEF Between, Pool
<1>2. /\ gone \in SUBSET DOMAIN r
      /\ \A p \in DOMAIN r : p \in gone <=> ~r[p].used /\ r[p].prev = Null /\ r[p].next = Null
  BY DEF Monoblocks
<1>3. h.bins \in [0 .. NumBins - 1 -> SUBSET Ids]
  BY <1>1 DEF InBins
<1>4. ~\E id \in ids : id \notin h.bins[BinIdxForSize(id[2])]
  <2> SUFFICES ASSUME NEW p \in gone
               PROVE  <<p, r[p].size>> \in h.bins[BinIdxForSize(r[p].size)]
    OBVIOUS
  <2>1. p \in DOMAIN r /\ ~r[p].used
    BY <1>2
  <2>2. BinIdxForSize(r[p].size) \in 0 .. NumBins - 1 /\ <<p, r[p].size>> \in Ids
    BY <1>1, <2>1, RegNumbers, BinIdxType, IdIs DEF Id
  <2> QED
    BY <1>1, <2>1, <2>2 DEF InBins, Binned
<1>5. m = [h EXCEPT !.reg = Restrict(h.reg, DOMAIN h.reg \ gone),
                    !.bins = [b \in DOMAIN h.bins |-> h.bins[b] \ ids],
                    !.reserved = @ - bytes, !.cached = @ - bytes]
  BY <1>4 DEF Shrink, SizeSum
<1>6. bytes = Cardinality(Bytes(r, gone)) /\ bytes \in Nat
  BY <1>1, <1>2, SumIsBytes, BytesFinite
<1> HIDE DEF bytes
<1>7. /\ m.reg = r2 /\ m.bins = [b \in 0 .. NumBins - 1 |-> h.bins[b] \ ids]
      /\ m.reserved = h.reserved - bytes /\ m.cached = h.cached - bytes
      /\ m.peak = h.peak /\ m.extend = h.extend /\ m.fault = "none" /\ Shape(m)
  BY <1>1, <1>3, <1>5 DEF Shape
<1>8. /\ DOMAIN r2 = D /\ r2 \in [D -> ChunkRecord] /\ \A p \in D : r2[p] = r[p]
  BY <1>1 DEF Restrict, RegType
<1> HIDE DEF r2, D
<1>9. D = DOMAIN r \ gone
  BY DEF D
<1>10. \A p \in DOMAIN r : r[p].next # Null \/ r[p].prev # Null => p \in D
  BY <1>2, <1>9
<1>11. RegType(r2) /\ Fits(r2) /\ Positive(r2)
  BY <1>1, <1>8, <1>9 DEF RegType, Fits, Positive
<1>12. \A p \in D : Id(r2, p) = Id(r, p)
  BY <1>8 DEF Id
<1>13. ASSUME NEW p \in D, r[p].next # Null
       PROVE  \E q \in D : r[p].next = Id(r, q) /\ q = p + r[p].size /\ r[q].prev = Id(r, p)
  <2>1. PICK q \in DOMAIN r : r[p].next = Id(r, q) /\ q = p + r[p].size /\ r[q].prev = Id(r, p)
    BY <1>1, <1>9, <1>13, NextIs
  <2>2. r[q].prev # Null
    BY <1>1, <1>9, <2>1, IdIs
  <2> QED
    BY <1>10, <2>1, <2>2
<1>14. ASSUME NEW p \in D, r[p].prev # Null
       PROVE  \E q \in D : r[p].prev = Id(r, q) /\ r[q].next = Id(r, p)
  <2>1. PICK q \in DOMAIN r : r[p].prev = Id(r, q) /\ r[q].next = Id(r, p)
    BY <1>1, <1>9, <1>14, PrevIs
  <2>2. r[q].next # Null
    BY <1>1, <1>9, <2>1, IdIs
  <2> QED
    BY <1>10, <2>1, <2>2
<1>15. Linked(r2)
  <2>1. ASSUME NEW p \in D
        PROVE  r2[p].next = Null \/ \E q \in D :
                 r2[p].next = Id(r2, q) /\ q = p + r2[p].size /\ r2[q].prev = Id(r2, p)
    BY <1>8, <1>12, <1>13
  <2>2. ASSUME NEW p \in D
        PROVE  r2[p].prev = Null \/ \E q \in D : r2[p].prev = Id(r2, q) /\ r2[q].next = Id(r2, p)
    BY <1>8, <1>12, <1>14
  <2> QED
    BY <1>8, <2>1, <2>2 DEF Linked
<1>16. Apart(r2, {})
  <2> SUFFICES ASSUME NEW p \in D, r[p].next # Null, ~r[p].used
               PROVE  r2[r[p].next[1]].used
    BY <1>8 DEF Apart
  <2>1. PICK q \in D : r[p].next = Id(r, q)
    BY <1>13
  <2>2. r[p].next[1] = q
    BY <2>1 DEF Id
  <2>3. r[q].used
    BY <1>1, <1>9, <2>2 DEF Apart
  <2> QED
    BY <1>8, <2>2, <2>3
<1>17. Used(r2) = Used(r)
  <2>1. {q \in D : r2[q].used} = {q \in DOMAIN r : r[q].used}
    BY <1>2, <1>8, <1>9
  <2>2. \A q \in {c \in DOMAIN r : r[c].used} : Id(r2, q) = Id(r, q)
    BY <1>2, <1>9, <1>12
  <2> QED
    BY <1>8, <2>1, <2>2 DEF Used
<1>18. Covered(r2) = Bytes(r, D)
  <2>1. \A q \in D : q + r2[q].size - 1 = q + r[q].size - 1
    BY <1>8
  <2> QED
    BY <1>8, <2>1 DEF Covered, Bytes
<1>19. Cardinality(Covered(r2)) = h.cached - bytes
  BY <1>1, <1>2, <1>6, <1>9, <1>18, BytesApart DEF Numbers
<1>20. Numbers(m)
  <2>1. Cardinality(Covered(r2)) \in Nat
    BY <1>11, BytesFinite DEF Covered
  <2>2. /\ h.reserved = h.cached /\ h.cached <= Limit /\ h.cached <= h.peak /\ h.peak \in Nat
        /\ h.extend \in Nat \ {0} /\ h.extend % Align = 0 /\ h.cached \in Nat
    <3>1. Cardinality(Covered(r)) \in Nat
      BY <1>1, BytesFinite DEF Covered
    <3> QED
      BY <1>1, <3>1 DEF Numbers
  <2>3. /\ m.cached = Cardinality(Covered(m.reg)) /\ m.reserved = m.cached
    BY <1>7, <1>19, <2>2
  <2>4. m.cached <= Limit /\ m.cached <= m.peak
    BY <1>6, <1>7, <2>2, SizesAssumption
  <2> QED
    BY <1>7, <2>2, <2>3, <2>4 DEF Numbers
<1>21. InBins(m, {})
  <2>1. m.bins \in [0 .. NumBins - 1 -> SUBSET Ids]
    BY <1>3, <1>7
  <2>2. ASSUME NEW a \in 0 .. NumBins - 1, NEW i \in Ids
        PROVE  i \in m.bins[a] <=> Binned(m.reg, {}, i, a)
    <3>1. i \in h.bins[a] <=> Binned(r, {}, i, a)
      BY <1>1 DEF InBins
    <3>2. i = <<i[1], i[2]>>
      BY DEF Ids, Null
    <3>3. i \in m.bins[a] <=> Binned(r, {}, i, a) /\ i \notin ids
      BY <1>7, <3>1
    <3>4. i \in ids <=> i[1] \in gone /\ i[2] = r[i[1]].size
      BY <3>2
    <3>5. Binned(r2, {}, i, a) <=> Binned(r, {}, i, a) /\ i[1] \notin gone
      BY <1>8, <1>9 DEF Binned
    <3> QED
      BY <3>3, <3>4, <3>5, <1>7 DEF Binned
  <2>3. ASSUME NEW q \in D
        PROVE  r2[q].bin = IF r2[q].used \/ q \in {} THEN NoBin
                           ELSE BinIdxForSize(r2[q].size)
    BY <1>1, <1>8, <1>9 DEF InBins
  <2> QED
    BY <1>7, <1>8, <2>1, <2>2, <2>3 DEF InBins
<1>22. Monoblocks(m) = {}
  BY <1>2, <1>7, <1>8, <1>9 DEF Monoblocks
<1>23. Between(m)
  BY <1>7, <1>11, <1>15, <1>16, <1>20, <1>21 DEF Between, Pool
<1> QED
  BY <1>7, <1>17, <1>22, <1>23

\* What is between two calls will do for the end.
LEMMA EndOfBetween ==
  ASSUME NEW h, Pool(h, {}), Apart(h.reg, {})
  PROVE  /\ AtTheEnd(h)
         /\ \A what \in {"size", "malloc"} : AtTheEnd(Fault(h, what))
                                             /\ Fault(h, what).reg = h.reg
<1>1. /\ Shape(h) /\ RegType(h.reg) /\ Fits(h.reg) /\ Linked(h.reg) /\ Numbers(h)
      /\ InBins(h, {}) /\ h.fault = "none" /\ h.bins \in [0 .. NumBins - 1 -> SUBSET Ids]
  BY DEF Pool, InBins
<1>2. AtTheEnd(h)
  BY <1>1 DEF AtTheEnd
<1>3. ASSUME NEW what \in {"size", "malloc"}
      PROVE  AtTheEnd(Fault(h, what)) /\ Fault(h, what).reg = h.reg
  <2>1. PICK m : m = Fault(h, what)
    OBVIOUS
  <2>2. /\ Shape(m) /\ m.reg = h.reg /\ m.bins = h.bins /\ m.fault = what
        /\ m.cached = h.cached /\ m.reserved = h.reserved /\ m.peak = h.peak
        /\ m.extend = h.extend
    BY <1>1, <2>1 DEF Fault, Shape
  <2>3. Numbers(m)
    BY <1>1, <2>2, NumbersStay
  <2>4. what # "none"
    OBVIOUS
  <2>5. AtTheEnd(m)
    BY <1>1, <2>2, <2>3, <2>4 DEF AtTheEnd
  <2> QED
    BY <2>1, <2>2, <2>5
<1> QED
  BY <1>2, <1>3

\* extend() first makes room under the limit.
LEMMA PrepareKeeps ==
  ASSUME NEW h, Between(h), NEW rounded \in Nat, NEW res, res = PrepareExtend(h, rounded)
  PROVE  /\ Between(res[1]) /\ Used(res[1].reg) = Used(h.reg)
         /\ res[2] \in Nat /\ res[2] <= Limit - res[1].cached
<1> DEFINE grown == [h EXCEPT !.extend = Doubled(h.extend, rounded)]
           wanted == LargerOf(rounded, grown.extend)
           ready == IF Limit - h.cached < wanted THEN Shrink(grown) ELSE grown
<1>1. res = <<ready, SmallerOf(wanted, Limit - ready.cached)>>
  BY Zenon DEF PrepareExtend
<1>2. Pool(h, {}) /\ Shape(h) /\ Numbers(h) /\ Apart(h.reg, {}) /\ Positive(h.reg)
  BY DEF Between, Pool
<1>3. PICK d : /\ d = Doubled(h.extend, rounded) /\ d \in Nat \ {0} /\ d % Align = 0
  BY <1>2, DoubledIs DEF Numbers
<1>4. PICK g : g = [h EXCEPT !.extend = d]
  OBVIOUS
<1>5. /\ Shape(g) /\ g.reg = h.reg /\ g.bins = h.bins /\ g.fault = h.fault /\ g.extend = d
      /\ g.cached = h.cached /\ g.reserved = h.reserved /\ g.peak = h.peak
  BY <1>2, <1>4 DEF Shape
<1>6. Between(g)
  <2>1. Numbers(g)
    BY <1>2, <1>3, <1>5 DEF Numbers
  <2>2. InBins(g, {})
    BY <1>2, <1>5 DEF Pool, InBins
  <2> QED
    BY <1>2, <1>5, <2>1, <2>2 DEF Between, Pool
<1>7. grown = g
  BY <1>3, <1>4
<1> HIDE DEF grown
<1>8. Between(ready) /\ Used(ready.reg) = Used(h.reg)
  <2>1. CASE Limit - h.cached < wanted
    <3>1. PICK m : m = Shrink(g)
      OBVIOUS
    <3>2. Between(m) /\ Used(m.reg) = Used(g.reg)
      BY <1>6, <3>1, ShrinkKeeps
    <3> QED
      BY <1>5, <1>7, <2>1, <3>1, <3>2
  <2>2. CASE ~(Limit - h.cached < wanted)
    BY <1>5, <1>6, <1>7, <2>2
  <2> QED
    BY <2>1, <2>2
<1> HIDE DEF ready
<1>9. wanted \in Nat
  BY <1>3, <1>5, <1>7 DEF LargerOf
<1> HIDE DEF wanted
<1>10. ready.cached \in Nat /\ ready.cached <= Limit /\ Limit \in Nat
  <2>1. Numbers(ready) /\ RegType(ready.reg) /\ Fits(ready.reg)
    BY <1>8 DEF Between, Pool
  <2> QED
    BY <2>1, BytesFinite, SizesAssumption DEF Numbers, Covered
<1>11. PICK s : s = SmallerOf(wanted, Limit - ready.cached)
  OBVIOUS
<1>12. s \in Nat /\ s <= Limit - ready.cached
  BY <1>9, <1>10, <1>11 DEF SmallerOf
<1> QED
  BY <1>1, <1>8, <1>11, <1>12

\* What the tail of extend() assigns.
Updated(h, a, b, c, d, e) ==
  [h EXCEPT !.reg = a, !.reserved = b, !.cached = c, !.peak = d, !.extend = e]

\* The parts of an updated pool.
LEMMA UpdatedIs ==
  ASSUME NEW h, Shape(h), NEW a, NEW b, NEW c, NEW d, NEW e, NEW g,
         g = Updated(h, a, b, c, d, e)
  PROVE  /\ Shape(g) /\ g.reg = a /\ g.bins = h.bins /\ g.fault = h.fault
         /\ g.cached = c /\ g.reserved = b /\ g.peak = d /\ g.extend = e
BY DEF Shape, Updated

\* malloc()'s bytes become a free chunk of their own.
LEMMA FinishKeeps ==
  ASSUME NEW h, Between(h), NEW n \in Nat, n <= Limit - h.cached, NEW p \in Places(h, n),
         NEW before, NEW m, m = FinishExtend(h, before, n, p)
  PROVE  /\ Pool(m, {}) /\ Apart(m.reg, {}) /\ Used(m.reg) = Used(h.reg)
         /\ n > 0 => Positive(m.reg)
<1> DEFINE r == h.reg
           v == NewChunk(n, Null, Null)
           r1 == Put(r, p, v)
           e == IF h.extend = before /\ h.extend < ExtendThreshold THEN 2 * h.extend
                ELSE h.extend
           g == [h EXCEPT !.reg = Put(@, p, NewChunk(n, Null, Null)),
                          !.reserved = @ + n, !.cached = h.cached + n,
                          !.peak = LargerOf(@, h.cached + n),
                          !.extend = IF @ = before /\ @ < ExtendThreshold THEN 2 * @ ELSE @]
<1>1. /\ Apart(r, {}) /\ Positive(r) /\ RegType(r) /\ Fits(r) /\ Linked(r)
      /\ Numbers(h) /\ InBins(h, {}) /\ Shape(h) /\ h.fault = "none"
  BY DEF Between, Pool
<1>2. /\ h.cached \in Nat /\ h.cached + n <= Limit /\ Limit \in Nat /\ n \in Sizes
  <2>1. Cardinality(Covered(r)) \in Nat
    BY <1>1, BytesFinite DEF Covered
  <2>2. h.cached \in Nat /\ Limit \in Nat
    BY <1>1, <2>1, SizesAssumption DEF Numbers
  <2> QED
    BY <2>2 DEF Sizes
<1>3. /\ p \in Nat /\ p >= Align /\ p + n <= MemoryTop /\ p \in Addresses
      /\ \A q \in DOMAIN r : (p + n <= q /\ p < q) \/ q + r[q].size <= p
  <2>1. /\ p \in Align .. MemoryTop - n
        /\ \A q \in DOMAIN r : p + LargerOf(n, 1) <= q \/ q + r[q].size <= p
    BY DEF Places
  <2>2. p \in Nat /\ p >= Align /\ p + n <= MemoryTop
    BY <2>1, SizesAssumption
  <2>3. ASSUME NEW q \in DOMAIN r PROVE (p + n <= q /\ p < q) \/ q + r[q].size <= p
    <3>1. q \in Nat
      BY <1>1, RegNumbers
    <3>2. p + LargerOf(n, 1) <= q \/ q + r[q].size <= p
      BY <2>1
    <3> QED
      BY <2>2, <3>1, <3>2 DEF LargerOf
  <2>4. p \in Align .. MemoryTop
    BY <2>2, SizesAssumption
  <2> QED
    BY <2>2, <2>3, <2>4 DEF Addresses
<1>4. /\ v \in ChunkRecord /\ v.size = n /\ ~v.used /\ v.prev = Null /\ v.next = Null
      /\ v.bin = NoBin
  <2>1. Null \in Ids
    BY DEF Ids
  <2> QED
    BY <1>2, <2>1, NewChunkIs
<1> HIDE DEF v
<1>5. p \notin DOMAIN r
  <2> SUFFICES ASSUME p \in DOMAIN r PROVE FALSE
    OBVIOUS
  <2>1. r[p].size \in Nat /\ r[p].size > 0
    BY <1>1, RegNumbers DEF Positive
  <2> QED
    BY <1>3, <2>1
<1>6. /\ DOMAIN r1 = DOMAIN r \cup {p} /\ r1 \in [DOMAIN r1 -> ChunkRecord]
      /\ r1[p] = v /\ \A q \in DOMAIN r : r1[q] = r[q]
  <2>1. r \in [DOMAIN r -> ChunkRecord]
    BY <1>1 DEF RegType
  <2>2. r1 \in [{p} \cup DOMAIN r -> ChunkRecord]
    BY <1>4, <2>1, PutType
  <2>3. r1[p] = v /\ \A q \in DOMAIN r : r1[q] = r[q]
    BY <1>5 DEF Put
  <2> HIDE DEF r1
  <2>4. DOMAIN r1 = {p} \cup DOMAIN r
    BY <2>2
  <2> QED
    BY <2>2, <2>3, <2>4
<1> HIDE DEF r1
<1>7. /\ Shape(g) /\ g.reg = r1 /\ g.bins = h.bins /\ g.fault = h.fault
      /\ g.cached = h.cached + n /\ g.reserved = h.reserved + n
      /\ g.peak = LargerOf(h.peak, h.cached + n) /\ g.extend = e
  <2>1. g = Updated(h, r1, h.reserved + n, h.cached + n, LargerOf(h.peak, h.cached + n), e)
    BY Zenon DEF r1, v, Updated
  <2> HIDE DEF g, e
  <2> QED
    BY <1>1, <2>1, UpdatedIs
<1>8. m = InsertChunkIntoBin(g, <<p, n>>)
  BY Zenon DEF FinishExtend
<1> HIDE DEF g
<1>9. RegType(r1)
  BY <1>1, <1>3, <1>6 DEF RegType
<1>10. Fits(r1)
  <2>1. ASSUME NEW c \in DOMAIN r1 PROVE c + r1[c].size <= MemoryTop
    BY <1>1, <1>3, <1>4, <1>6 DEF Fits
  <2>2. ASSUME NEW c \in DOMAIN r1, NEW d \in DOMAIN r1, c < d PROVE c + r1[c].size <= d
    <3>1. CASE c = p
      <4>1. d \in DOMAIN r /\ d \in Nat /\ r[d].size \in Nat
        BY <1>1, <1>3, <1>6, <2>2, <3>1, RegNumbers
      <4> QED
        BY <1>3, <1>4, <1>6, <2>2, <3>1, <4>1
    <3>2. CASE c # p /\ d = p
      <4>1. c \in DOMAIN r /\ c \in Nat /\ r[c].size \in Nat
        BY <1>1, <1>6, <3>2, RegNumbers
      <4> QED
        BY <1>3, <1>6, <2>2, <3>2, <4>1
    <3>3. CASE c # p /\ d # p
      BY <1>1, <1>6, <2>2, <3>3 DEF Fits
    <3> QED
      BY <3>1, <3>2, <3>3
  <2> QED
    BY <2>1, <2>2 DEF Fits
<1>11. n > 0 => Positive(r1)
  BY <1>1, <1>4, <1>6 DEF Positive
<1>12. \A q \in DOMAIN r : Id(r1, q) = Id(r, q)
  BY <1>6 DEF Id
<1>13. Linked(r1)
  <2>1. ASSUME NEW c \in DOMAIN r, r[c].next # Null
        PROVE  \E d \in DOMAIN r1 : r1[c].next = Id(r1, d) /\ d = c + r1[c].size
                                    /\ r1[d].prev = Id(r1, c)
    <3>1. PICK d \in DOMAIN r : r[c].next = Id(r, d) /\ d = c + r[c].size /\ r[d].prev = Id(r, c)
      BY <1>1, <2>1, NextIs
    <3> QED
      BY <1>6, <1>12, <3>1
  <2>2. ASSUME NEW c \in DOMAIN r, r[c].prev # Null
        PROVE  \E d \in DOMAIN r1 : r1[c].prev = Id(r1, d) /\ r1[d].next = Id(r1, c)
    <3>1. PICK d \in DOMAIN r : r[c].prev = Id(r, d) /\ r[d].next = Id(r, c)
      BY <1>1, <2>2, PrevIs
    <3> QED
      BY <1>6, <1>12, <3>1
  <2> QED
    BY <1>4, <1>6, <2>1, <2>2 DEF Linked
<1>14. Apart(r1, {})
  <2> SUFFICES ASSUME NEW c \in DOMAIN r, r[c].next # Null, ~r[c].used
               PROVE  r1[r[c].next[1]].used
    BY <1>4, <1>6 DEF Apart
  <2>1. r[c].next[1] \in DOMAIN r
    BY <1>1, NextIs, IdIs
  <2>2. r[r[c].next[1]].used
    BY <1>1 DEF Apart
  <2> QED
    BY <1>6, <2>1, <2>2
<1>15. Used(r1) = Used(r)
  <2>1. {q \in DOMAIN r1 : r1[q].used} = {q \in DOMAIN r : r[q].used}
    BY <1>4, <1>5, <1>6
  <2> QED
    BY <1>12, <2>1 DEF Used
<1>16. Cardinality(Covered(r1)) = h.cached + n
  <2>1. PICK S : S = {p} /\ S \in SUBSET DOMAIN r1 /\ DOMAIN r1 \ S = DOMAIN r
    BY <1>5, <1>6
  <2>2. Cardinality(Bytes(r1, DOMAIN r1 \ S)) = Cardinality(Covered(r1)) - Cardinality(Bytes(r1, S))
    BY <1>9, <1>10, <2>1, BytesApart
  <2>3. Bytes(r1, DOMAIN r1 \ S) = Covered(r)
    <3>1. \A q \in DOMAIN r : q + r1[q].size - 1 = q + r[q].size - 1
      BY <1>6
    <3> QED
      BY <2>1, <3>1 DEF Covered, Bytes
  <2>4. Cardinality(Bytes(r1, S)) = n
    <3>1. Bytes(r1, S) = p .. (p + n) - 1
      BY <1>3, <1>4, <1>6, <2>1 DEF Bytes
    <3>2. PICK z \in Int : z = (p + n) - 1
      BY <1>3
    <3>3. p \in Int
      BY <1>3
    <3>4. Cardinality(p .. z) = IF p > z THEN 0 ELSE z - p + 1
      BY ONLY <3>3, z \in Int, FS_Interval
    <3> QED
      BY <1>3, <3>1, <3>2, <3>4
  <2>5. Cardinality(Covered(r1)) \in Nat
    BY <1>9, <1>10, BytesFinite DEF Covered
  <2>6. Cardinality(Covered(r)) = h.cached
    BY <1>1 DEF Numbers
  <2> QED
    BY <1>2, <2>2, <2>3, <2>4, <2>5, <2>6
<1>17. Numbers(g)
  <2>1. /\ h.reserved = h.cached /\ h.cached <= h.peak /\ h.peak \in Nat
        /\ h.extend \in Nat \ {0} /\ h.extend % Align = 0
    BY <1>1 DEF Numbers
  <2>2. e \in Nat \ {0} /\ e % Align = 0
    <3>1. PICK q \in Nat : h.extend = q * Align
      <4>1. h.extend = (h.extend \div Align) * Align + (h.extend % Align)
        BY <2>1, SizesAssumption
      <4>2. h.extend \div Align \in Nat
        BY <2>1, SizesAssumption
      <4>3. h.extend = (h.extend \div Align) * Align
        BY <2>1, <4>1, <4>2, SizesAssumption
      <4> QED
        BY <4>2, <4>3
    <3>2. 2 * h.extend = (2 * q) * Align /\ 2 * q \in Nat
      BY <3>1, SizesAssumption
    <3>3. ((2 * q) * Align) % Align = 0
      BY <3>2, SizesAssumption
    <3>4. (2 * h.extend) % Align = 0 /\ 2 * h.extend \in Nat \ {0}
      BY <2>1, <3>2, <3>3
    <3> QED
      BY <2>1, <3>4
  <2> HIDE DEF e
  <2>3. LargerOf(h.peak, h.cached + n) \in Nat /\ LargerOf(h.peak, h.cached + n) >= h.cached + n
    BY <1>2, <2>1 DEF LargerOf
  <2>4. g.cached = Cardinality(Covered(g.reg)) /\ g.reserved = g.cached
    BY <1>7, <1>16, <2>1
  <2> QED
    BY <1>2, <1>7, <2>2, <2>3, <2>4 DEF Numbers
<1>18. InBins(g, {p})
  <2>1. g.bins \in [0 .. NumBins - 1 -> SUBSET Ids]
    BY <1>1, <1>7 DEF InBins
  <2>2. ASSUME NEW a \in 0 .. NumBins - 1, NEW i \in Ids
        PROVE  i \in g.bins[a] <=> Binned(g.reg, {p}, i, a)
    <3>1. i \in h.bins[a] <=> Binned(r, {}, i, a)
      BY <1>1 DEF InBins
    <3>2. Binned(r1, {p}, i, a) <=> Binned(r, {}, i, a)
      BY <1>5, <1>6 DEF Binned
    <3> QED
      BY <1>7, <3>1, <3>2
  <2>3. ASSUME NEW q \in DOMAIN r1
        PROVE  r1[q].bin = IF r1[q].used \/ q \in {p} THEN NoBin ELSE BinIdxForSize(r1[q].size)
    <3>1. CASE q = p
      BY <1>4, <1>6, <3>1
    <3>2. CASE q # p
      BY <1>1, <1>6, <3>2 DEF InBins
    <3> QED
      BY <3>1, <3>2
  <2> QED
    BY <1>7, <2>1, <2>2, <2>3 DEF InBins
<1>19. Pool(g, {p})
  BY <1>1, <1>7, <1>9, <1>10, <1>13, <1>17, <1>18 DEF Pool
<1>20. PICK X : X = {p} /\ X \ {p} = {}
  OBVIOUS
<1>21. /\ Pool(m, X \ {p}) /\ SameLinks(g.reg, m.reg)
       /\ \A q \in DOMAIN g.reg : m.reg[q].used = g.reg[q].used
  <2>1. Pool(g, X) /\ p \in X /\ p \in DOMAIN g.reg /\ ~g.reg[p].used /\ Id(g.reg, p) = <<p, n>>
    BY <1>4, <1>6, <1>7, <1>19, <1>20 DEF Id
  <2>2. LET k == InsertChunkIntoBin(g, Id(g.reg, p))
        IN  /\ Pool(k, X \ {p}) /\ SameLinks(g.reg, k.reg)
            /\ \A q \in DOMAIN g.reg : k.reg[q].used = g.reg[q].used
    BY <2>1, InsertKeeps
  <2> QED
    BY <1>8, <2>1, <2>2
<1>22. Apart(m.reg, {})
  BY <1>7, <1>10, <1>13, <1>14, <1>21, LinksStay, UseStays
<1>23. Used(m.reg) = Used(r)
  BY <1>7, <1>10, <1>13, <1>15, <1>21, UseStays
<1>24. n > 0 => Positive(m.reg)
  BY <1>7, <1>10, <1>11, <1>13, <1>21, LinksStay
<1> QED
  BY <1>20, <1>21, <1>22, <1>23, <1>24

\* What allocateRaw() may end with: an exit of the process or a chunk that was
\* nobody's.
Ended(h, x) == x[2] = 0 /\ AtTheEnd(x[1]) /\ Used(x[1].reg) = Used(h.reg)

\* Every result of allocateRaw(), whether it finds a chunk at once, or after an
\* extension, or not at all.
LEMMA AllocateKeeps ==
  ASSUME NEW h, Between(h), NEW bytes \in 1 .. Word - 1, NEW x \in AllocateRaw(h, bytes)
  PROVE  Ended(h, x) \/ Granted(h, bytes, x)
<1> DEFINE rounded == RoundBytes(bytes)
           bin == BinIdxForSize(rounded)
           found == FindChunkPtr(h, bin, rounded)
           prepared == PrepareExtend(h, rounded)
           n == prepared[2]
<1>1. x \in (IF found[2] # 0 \/ found[1].fault # "none" THEN {found}
             ELSE IF n < rounded \/ prepared[1].fault # "none" THEN {<<prepared[1], 0>>}
             ELSE {FindChunkPtr(FinishExtend(prepared[1], h.extend, n, p), bin, rounded) :
                     p \in Places(prepared[1], n)}
                  \cup {<<Fault(prepared[1], "malloc"), 0>>})
  BY Zenon DEF AllocateRaw
<1>2. rounded \in Nat /\ (rounded > 0 => rounded >= bytes) /\ bytes \in Nat /\ Word \in Nat
  <2>1. Word \in Nat
    BY SizesAssumption
  <2>2. rounded \in 0 .. Word - 1 /\ (rounded # 0 => rounded >= bytes)
    BY RoundIs
  <2> HIDE DEF rounded
  <2> QED
    BY <2>1, <2>2
<1> HIDE DEF rounded
<1>3. bin \in 0 .. NumBins - 1
  BY <1>2, BinIdxType
<1> HIDE DEF bin
<1>4. Pool(h, {}) /\ Apart(h.reg, {}) /\ Positive(h.reg) /\ h.fault = "none"
  BY DEF Between, Pool
<1>5. ASSUME NEW g, NEW y, Granted(g, rounded, y), rounded > 0, Used(g.reg) = Used(h.reg)
      PROVE  Granted(h, bytes, y)
  BY <1>2, <1>5 DEF Granted
<1>6. /\ Between(prepared[1]) /\ Used(prepared[1].reg) = Used(h.reg)
      /\ n \in Nat /\ n <= Limit - prepared[1].cached
  BY <1>2, PrepareKeeps
<1>7. CASE found[2] # 0 \/ found[1].fault # "none"
  <2>1. x = found
    BY <1>1, <1>7
  <2>2. \/ NothingFound(h, found)
        \/ rounded = 0 /\ NothingLeft(h, found)
        \/ rounded > 0 /\ Granted(h, rounded, found)
    BY <1>2, <1>3, <1>4, FindKeeps
  <2> HIDE DEF found
  <2>3. ~NothingFound(h, found)
    BY <1>4, <1>7 DEF NothingFound
  <2>4. NothingLeft(h, found) => Ended(h, found)
    BY DEF NothingLeft, Ended, SameUse
  <2>5. rounded > 0 /\ Granted(h, rounded, found) => Granted(h, bytes, found)
    BY <1>5
  <2> QED
    BY <2>1, <2>2, <2>3, <2>4, <2>5
<1> HIDE DEF found
<1>8. PICK g : g = prepared[1]
  OBVIOUS
<1> HIDE DEF prepared, n
<1>9. Pool(g, {}) /\ Apart(g.reg, {})
  BY <1>6, <1>8 DEF Between
<1>10. CASE ~(found[2] # 0 \/ found[1].fault # "none") /\ (n < rounded \/ g.fault # "none")
  <2>1. x = <<g, 0>>
    BY <1>1, <1>8, <1>10
  <2> QED
    BY <2>1, <1>6, <1>8, <1>9, EndOfBetween DEF Ended
<1>11. CASE ~(found[2] # 0 \/ found[1].fault # "none") /\ ~(n < rounded \/ g.fault # "none")
  <2>1. CASE x = <<Fault(g, "malloc"), 0>>
    <3>1. AtTheEnd(Fault(g, "malloc")) /\ Fault(g, "malloc").reg = g.reg
      BY <1>9, EndOfBetween
    <3> QED
      BY <2>1, <3>1, <1>6, <1>8 DEF Ended
  <2>2. ASSUME NEW p \in Places(g, n),
               x = FindChunkPtr(FinishExtend(g, h.extend, n, p), bin, rounded)
        PROVE  Ended(h, x) \/ Granted(h, bytes, x)
    <3>1. PICK m : m = FinishExtend(g, h.extend, n, p)
      OBVIOUS
    <3>2. /\ Pool(m, {}) /\ Apart(m.reg, {}) /\ Used(m.reg) = Used(g.reg)
          /\ n > 0 => Positive(m.reg)
      BY <1>6, <1>8, <3>1, FinishKeeps
    <3>3. n >= rounded
      BY <1>2, <1>6, <1>11
    <3>4. rounded > 0 => Positive(m.reg)
      BY <1>2, <1>6, <3>2, <3>3
    <3>5. x = FindChunkPtr(m, bin, rounded)
      BY <2>2, <3>1
    <3>6. \/ NothingFound(m, x)
          \/ rounded = 0 /\ NothingLeft(m, x)
          \/ rounded > 0 /\ Granted(m, rounded, x)
      BY <1>2, <1>3, <3>2, <3>4, <3>5, FindKeeps
    <3>7. Used(m.reg) = Used(h.reg)
      BY <1>6, <1>8, <3>2
    <3>8. NothingFound(m, x) => Ended(h, x)
      BY <3>2, <3>7, EndOfBetween DEF NothingFound, Ended
    <3>9. NothingLeft(m, x) => Ended(h, x)
      BY <3>7 DEF NothingLeft, Ended, SameUse
    <3>10. rounded > 0 /\ Granted(m, rounded, x) => Granted(h, bytes, x)
      BY <1>5, <3>7
    <3> QED
      BY <3>6, <3>8, <3>9, <3>10
  <2> QED
    BY <1>1, <1>8, <1>11, <2>1, <2>2
<1> QED
  BY <1>1, <1>7, <1>8, <1>10, <1>11

-----------------------------------------------------------------------------
(* The clients' side of the invariant.                                     *)

\* Each o of os lies in a chunk in use, and no two in the same.
Lodged(os, r) ==
  /\ os \subseteq Addresses \X Nat
  /\ \A o \in os : \E u \in Used(r) : u[1] = o[1] /\ o[2] <= u[2]

\* What clients hold is part of what the pool has.
LEMMA LodgedIsCovered ==
  ASSUME NEW r, RegType(r), Fits(r), NEW os, Lodged(os, r)
  PROVE  BytesOf(os) \subseteq Covered(r)
<1> SUFFICES ASSUME NEW x \in BytesOf(os) PROVE x \in Covered(r)
  OBVIOUS
<1>1. PICK o \in os : x \in o[1] .. o[1] + o[2] - 1
  BY DEF BytesOf
<1>2. PICK u \in Used(r) : u[1] = o[1] /\ o[2] <= u[2]
  BY DEF Lodged
<1>3. PICK p \in DOMAIN r : u = Id(r, p)
  BY <1>2 DEF Used
<1>4. o[1] = p /\ o[2] <= r[p].size /\ o[2] \in Nat /\ p \in Nat /\ r[p].size \in Nat
  BY <1>2, <1>3, RegNumbers DEF Id, Lodged
<1>5. x \in p .. p + r[p].size - 1
  BY <1>1, <1>4
<1> QED
  BY <1>5 DEF Covered, Bytes

\* Clients' bytes do not overlap: one pointer less is just its bytes less.
LEMMA LodgedBytes ==
  ASSUME NEW r, RegType(r), Fits(r), NEW os, Lodged(os, r), NEW x \in os,
         \A o \in os : o[1] = x[1] => o = x
  PROVE  /\ Cardinality(BytesOf(os)) = x[2] + Cardinality(BytesOf(os \ {x}))
         /\ x[2] \in Nat /\ Cardinality(BytesOf(os \ {x})) \in Nat
<1>1. PICK A, B : A = x[1] .. x[1] + x[2] - 1 /\ B = BytesOf(os \ {x})
  OBVIOUS
<1>2. x[1] \in Nat /\ x[2] \in Nat
  BY SizesAssumption DEF Lodged, Addresses
<1>3. BytesOf(os) = A \cup B
  BY <1>1 DEF BytesOf
<1>4. IsFiniteSet(A) /\ Cardinality(A) = x[2]
  <2>1. PICK a \in Int, z \in Int : a = x[1] /\ z = x[1] + x[2] - 1
    BY <1>2
  <2>2. IsFiniteSet(a .. z) /\ Cardinality(a .. z) = IF a > z THEN 0 ELSE z - a + 1
    BY ONLY a \in Int, z \in Int, FS_Interval
  <2> QED
    BY <1>1, <1>2, <2>1, <2>2
<1>5. IsFiniteSet(B) /\ Cardinality(B) \in Nat
  <2>1. PICK S : S = os \ {x}
    OBVIOUS
  <2>2. Lodged(S, r)
    BY <2>1 DEF Lodged
  <2>3. BytesOf(S) \subseteq Covered(r)
    BY <2>2, LodgedIsCovered
  <2>4. IsFiniteSet(Covered(r))
    BY BytesFinite DEF Covered
  <2> QED
    BY <1>1, <2>1, <2>3, <2>4, FS_Subset, FS_CardinalityType
<1>6. A \cap B = {}
  <2> SUFFICES ASSUME NEW y \in A, y \in B PROVE FALSE
    OBVIOUS
  <2>1. PICK o \in os \ {x} : y \in o[1] .. o[1] + o[2] - 1
    BY <1>1 DEF BytesOf
  <2>2. PICK u \in Used(r), v \in Used(r) : /\ u[1] = o[1] /\ o[2] <= u[2]
                                            /\ v[1] = x[1] /\ x[2] <= v[2]
    BY DEF Lodged
  <2>3. PICK p \in DOMAIN r, q \in DOMAIN r : u = Id(r, p) /\ v = Id(r, q)
    BY <2>2 DEF Used
  <2>4. /\ o[1] = p /\ o[2] <= r[p].size /\ o[2] \in Nat /\ p \in Nat /\ r[p].size \in Nat
        /\ x[1] = q /\ x[2] <= r[q].size /\ q \in Nat /\ r[q].size \in Nat
    BY <2>2, <2>3, RegNumbers DEF Id, Lodged
  <2>5. p # q
    BY <2>1, <2>4
  <2>6. p + r[p].size <= q \/ q + r[q].size <= p
    BY <2>4, <2>5 DEF Fits
  <2> QED
    BY <1>1, <1>2, <2>1, <2>4, <2>6
<1>7. Cardinality(A \cup B) = Cardinality(A) + Cardinality(B) - Cardinality(A \cap B)
  BY <1>4, <1>5, FS_Union
<1>8. Cardinality(A \cap B) = 0
  BY <1>6, FS_EmptySet
<1>9. Cardinality(A \cup B) = x[2] + Cardinality(B)
  BY <1>2, <1>4, <1>5, <1>7, <1>8
<1> QED
  BY <1>1, <1>2, <1>3, <1>5, <1>9

\* What it is to be held.
LEMMA HeldIs ==
  \A o : o \in Held <=> o \in owned \/ \E t \in Threads : pc[t] # "idle" /\ o = arg[t]
BY DEF Held

\* The state between two calls, as the steps below use it.
LEMMA UpIs ==
  ASSUME IInv, phase = "up"
  PROVE  /\ Between(pool) /\ BooksType /\ Books /\ OneClientEach
         /\ RegType(pool.reg) /\ Fits(pool.reg) /\ Lodged(owned, pool.reg)
<1>1. Between(pool) /\ BooksType /\ Books /\ OneClientEach
  BY DEF IInv
<1>2. Lodged(owned, pool.reg)
  BY <1>1, HeldIs DEF Lodged, BooksType, OneClientEach
<1> QED
  BY <1>1, <1>2 DEF Between, Pool

\* The constructor establishes the invariant.
LEMMA InitHolds == Init => IInv
<1> SUFFICES ASSUME Init PROVE IInv
  OBVIOUS
<1>1. PICK h : h = pool
  OBVIOUS
<1>2. /\ h.reg = <<>> /\ h.bins = [b \in 0 .. NumBins - 1 |-> {}] /\ h.reserved = 0
      /\ h.cached = 0 /\ h.peak = 0 /\ h.extend = RoundBytes(FirstExtend) /\ h.fault = "none"
      /\ Shape(h)
  BY <1>1 DEF Init, EmptyPool, Shape
<1>3. DOMAIN h.reg = {}
  BY <1>2
<1>4. RegType(h.reg) /\ Fits(h.reg) /\ Linked(h.reg) /\ Apart(h.reg, {}) /\ Positive(h.reg)
  <2>1. h.reg \in [DOMAIN h.reg -> ChunkRecord]
    BY <1>2, <1>3
  <2> QED
    BY <1>3, <2>1 DEF RegType, Fits, Linked, Apart, Positive
<1>5. Covered(h.reg) = {} /\ Used(h.reg) = {}
  BY <1>3 DEF Covered, Bytes, Used
<1>6. Numbers(h)
  <2>1. RoundBytes(FirstExtend) \in Nat \ {0} /\ RoundBytes(FirstExtend) % Align = 0
    <3>1. FirstExtend \in 1 .. Word - 1 /\ FirstExtend <= Word - Align /\ Word \in Nat
      BY SizesAssumption
    <3>2. /\ RoundBytes(FirstExtend) \in 0 .. Word - 1 /\ RoundBytes(FirstExtend) # 0
          /\ RoundBytes(FirstExtend) % Align = 0
      BY <3>1, RoundIs
    <3> QED
      BY <3>1, <3>2
  <2>2. Cardinality(Covered(h.reg)) = 0
    BY <1>5, FS_EmptySet
  <2> QED
    BY <1>2, <2>1, <2>2, SizesAssumption DEF Numbers
<1>7. InBins(h, {})
  <2>1. h.bins \in [0 .. NumBins - 1 -> SUBSET Ids]
    BY <1>2
  <2> QED
    BY <1>2, <1>3, <2>1 DEF InBins, Binned
<1>8. Pool(h, {}) /\ Between(h) /\ AtTheEnd(h)
  <2>1. Pool(h, {})
    BY <1>2, <1>4, <1>6, <1>7 DEF Pool
  <2> QED
    BY <2>1, <1>4, EndOfBetween DEF Between
<1>9. BooksType
  <2>1. allocatedMap = <<>> /\ DOMAIN allocatedMap = {}
    BY DEF Init
  <2> QED
    BY <2>1 DEF Init, BooksType
<1>10. Books
  <2>1. BytesOf(owned) = {}
    BY DEF Init, BytesOf
  <2>2. owned = {} /\ currAllocated = 0
    BY DEF Init
  <2> QED
    BY <2>1, <2>2, FS_EmptySet DEF Books
<1>11. OneClientEach
  <2>1. \A o : o \notin Held
    BY HeldIs DEF Init
  <2> QED
    BY <1>1, <1>5, <2>1 DEF Init, OneClientEach
<1> QED
  BY <1>1, <1>8, <1>9, <1>10, <1>11 DEF Init, IInv

-----------------------------------------------------------------------------
(* Every step preserves the invariant.                                     *)

\* The books do not change while the chunks in use stay.
LEMMA BooksStay ==
  ASSUME IInv, phase = "up", UNCHANGED <<allocatedMap, currAllocated, owned>>,
         RegType(pool'.reg), Fits(pool'.reg), Lodged(owned, pool'.reg)
  PROVE  Books'
<1>1. Books
  BY DEF IInv
<1>2. PICK r : r = pool'.reg
  OBVIOUS
<1>3. BytesOf(owned) \subseteq Covered(r)
  BY <1>2, LodgedIsCovered
<1>4. BytesOf(owned') = BytesOf(owned)
  OBVIOUS
<1> QED
  BY <1>1, <1>2, <1>3, <1>4 DEF Books

\* allocate() up to its book-keeping: the chunk is the caller's before the books
\* say so.
LEMMA AllocateStep ==
  ASSUME IInv, NEW t \in Threads, NEW bytes \in Requests, Allocate(t, bytes)
  PROVE  IInv'
<1>1. phase = "up" /\ pc[t] = "idle" /\ UNCHANGED <<allocatedMap, currAllocated, owned>>
  BY DEF Allocate
<1>2. /\ Between(pool) /\ BooksType /\ Books /\ OneClientEach
      /\ RegType(pool.reg) /\ Fits(pool.reg) /\ Lodged(owned, pool.reg)
  BY <1>1, UpIs
<1>3. PICK x \in AllocateRaw(pool, bytes) :
        /\ pool' = x[1]
        /\ IF x[2] = 0 THEN phase' = "exited" /\ UNCHANGED <<pc, arg>>
           ELSE /\ pc' = [pc EXCEPT ![t] = "record"]
                /\ arg' = [arg EXCEPT ![t] = <<x[2], bytes>>]
                /\ UNCHANGED phase
  BY DEF Allocate
<1>4. Ended(pool, x) \/ Granted(pool, bytes, x)
  <2>1. bytes \in 1 .. Word - 1
    BY SizesAssumption
  <2> QED
    BY <1>2, <2>1, AllocateKeeps
<1>5. CASE Ended(pool, x)
  <2>1. x[2] = 0 /\ AtTheEnd(pool') /\ Used(pool'.reg) = Used(pool.reg)
    BY <1>3, <1>5 DEF Ended
  <2>2. phase' = "exited" /\ UNCHANGED <<pc, arg>>
    BY <1>3, <2>1
  <2>3. BooksType'
    BY <1>1, <1>2, <2>2 DEF BooksType
  <2>4. Lodged(owned, pool'.reg)
    BY <1>2, <2>1 DEF Lodged
  <2>5. RegType(pool'.reg) /\ Fits(pool'.reg)
    BY <2>1 DEF AtTheEnd
  <2>6. Books'
    BY <1>1, <2>4, <2>5, BooksStay
  <2> QED
    BY <2>1, <2>2, <2>3, <2>6 DEF IInv
<1>6. CASE Granted(pool, bytes, x)
  <2>1. /\ Between(pool') /\ x[2] \in Addresses /\ \A u \in Used(pool.reg) : u[1] # x[2]
        /\ \E s \in Nat : s >= bytes /\ Used(pool'.reg) = Used(pool.reg) \cup {<<x[2], s>>}
    BY <1>3, <1>6 DEF Granted
  <2>2. x[2] # 0
    BY <2>1, SizesAssumption DEF Addresses
  <2>3. PICK y \in Addresses \X Nat : y = <<x[2], bytes>> /\ y[1] = x[2] /\ y[2] = bytes
    <3>1. bytes \in Nat
      BY SizesAssumption
    <3>2. PICK a \in Addresses : a = x[2]
      BY <2>1
    <3>3. <<a, bytes>> \in Addresses \X Nat
      BY ONLY a \in Addresses, <3>1
    <3> QED
      BY <3>2, <3>3
  <2>4. /\ pc' = [pc EXCEPT ![t] = "record"] /\ arg' = [arg EXCEPT ![t] = y]
        /\ phase' = phase
    BY <1>3, <2>2, <2>3
  <2>5. PICK s \in Nat : s >= bytes /\ Used(pool'.reg) = Used(pool.reg) \cup {<<x[2], s>>}
    BY <2>1
  <2>6. AtTheEnd(pool') /\ RegType(pool'.reg) /\ Fits(pool'.reg)
    <3>1. PICK g : g = pool'
      OBVIOUS
    <3>2. Pool(g, {}) /\ Apart(g.reg, {})
      BY <2>1, <3>1 DEF Between
    <3>3. AtTheEnd(g)
      BY <3>2, EndOfBetween
    <3> QED
      BY <3>1, <3>3 DEF AtTheEnd
  <2>7. Lodged(owned, pool'.reg)
    BY <1>2, <2>5 DEF Lodged
  <2>8. Books'
    BY <1>1, <2>6, <2>7, BooksStay
  <2>9. /\ arg \in [Threads -> {Null} \cup Addresses \X Nat]
        /\ pc \in [Threads -> {"idle", "record", "free"}]
        /\ \A c \in Threads : pc[c] # "idle" => arg[c] # Null
    BY <1>2 DEF BooksType
  <2>10. BooksType'
    <3>1. y # Null
      BY <2>2, <2>3 DEF Null
    <3>2. pc' \in [Threads -> {"idle", "record", "free"}]
      BY <2>4, <2>9
    <3>3. arg' \in [Threads -> {Null} \cup Addresses \X Nat]
      BY <2>4, <2>9
    <3>4. \A c \in Threads : pc'[c] # "idle" => arg'[c] # Null
      BY <2>4, <2>9, <3>1
    <3> QED
      BY <1>1, <1>2, <2>4, <3>2, <3>3, <3>4 DEF BooksType
  <2>11. \A c \in Threads : /\ c = t => pc'[c] = "record" /\ arg'[c] = y
                            /\ c # t => pc'[c] = pc[c] /\ arg'[c] = arg[c]
    BY <2>4, <2>9
  <2>12. \A o : o \in Held' <=> o \in Held \/ o = y
    <3>1. \A o : o \in Held' <=> o \in owned \/ \E c \in Threads : pc'[c] # "idle" /\ o = arg'[c]
      BY <1>1 DEF Held
    <3> QED
      BY <1>1, <2>11, <3>1, HeldIs
  <2>13. \A o \in Held : o[1] # y[1]
    BY <1>2, <2>1, <2>3 DEF OneClientEach
  <2>14. OneClientEach'
    <3>1. \A o \in Held' : \E u \in Used(pool'.reg) : u[1] = o[1] /\ o[2] <= u[2]
      <4>1. \A o \in Held : \E u \in Used(pool'.reg) : u[1] = o[1] /\ o[2] <= u[2]
        BY <1>2, <2>5 DEF OneClientEach
      <4>2. \E u \in Used(pool'.reg) : u[1] = y[1] /\ y[2] <= u[2]
        <5>1. PICK w : w = <<x[2], s>>
          OBVIOUS
        <5>2. w \in Used(pool'.reg) /\ w[1] = y[1] /\ y[2] <= w[2]
          BY <2>3, <2>5, <5>1
        <5> QED
          BY <5>2
      <4> QED
        BY <2>12, <4>1, <4>2
    <3>2. \A u \in Used(pool'.reg) : \E o \in Held' : u[1] = o[1]
      BY <1>2, <2>3, <2>5, <2>12 DEF OneClientEach
    <3>3. \A o1, o2 \in owned' : o1[1] = o2[1] => o1 = o2
      BY <1>1, <1>2 DEF OneClientEach
    <3>4. \A c \in Threads : pc'[c] # "idle" =>
            /\ \A o \in owned' : o[1] # arg'[c][1]
            /\ \A d \in Threads : pc'[d] # "idle" /\ arg'[d][1] = arg'[c][1] => d = c
      <4>1. \A c \in Threads : c # t /\ pc[c] # "idle" => arg[c][1] # y[1]
        BY <2>13, HeldIs
      <4>2. \A o \in owned : o[1] # y[1]
        BY <2>13, HeldIs
      <4> QED
        BY <1>1, <1>2, <2>11, <4>1, <4>2 DEF OneClientEach
    <3> QED
      BY <3>1, <3>2, <3>3, <3>4 DEF OneClientEach
  <2> QED
    BY <1>1, <2>1, <2>4, <2>6, <2>8, <2>10, <2>14 DEF IInv
<1> QED
  BY <1>4, <1>5, <1>6

\* allocate()'s book-keeping adds the bytes of a chunk that no other entry counts.
LEMMA RecordStep ==
  ASSUME IInv, NEW t \in Threads, Record(t)
  PROVE  IInv'
<1>1. /\ phase = "up" /\ pc[t] = "record" /\ UNCHANGED <<pool, phase>>
      /\ currAllocated' = currAllocated + arg[t][2]
      /\ allocatedMap' = Put(allocatedMap, arg[t][1], arg[t][2])
      /\ owned' = owned \cup {arg[t]}
      /\ pc' = [pc EXCEPT ![t] = "idle"] /\ arg' = [arg EXCEPT ![t] = Null]
  BY DEF Record
<1>2. /\ Between(pool) /\ BooksType /\ Books /\ OneClientEach /\ AtTheEnd(pool)
      /\ RegType(pool.reg) /\ Fits(pool.reg) /\ Lodged(owned, pool.reg)
  BY <1>1, UpIs DEF IInv
<1>3. /\ arg \in [Threads -> {Null} \cup Addresses \X Nat]
      /\ pc \in [Threads -> {"idle", "record", "free"}]
      /\ \A c \in Threads : pc[c] # "idle" => arg[c] # Null
      /\ owned \subseteq Addresses \X Nat /\ DOMAIN allocatedMap \subseteq Addresses
  BY <1>2 DEF BooksType
<1>4. PICK y \in Addresses \X Nat : y = arg[t] /\ y[1] \in Addresses /\ y[2] \in Nat
  BY <1>1, <1>3
<1>5. \A c \in Threads : /\ c = t => pc'[c] = "idle"
                         /\ c # t => pc'[c] = pc[c] /\ arg'[c] = arg[c]
  BY <1>1, <1>3
<1>6. \A o : o \in Held' <=> o \in Held
  <2>1. \A o : o \in Held' <=> o \in owned' \/ \E c \in Threads : pc'[c] # "idle" /\ o = arg'[c]
    BY DEF Held
  <2> QED
    BY <1>1, <1>4, <1>5, <2>1, HeldIs
<1>7. \A o \in owned : o[1] # y[1]
  BY <1>1, <1>2, <1>4 DEF OneClientEach
<1>8. OneClientEach'
  <2>1. \A o \in Held' : \E u \in Used(pool'.reg) : u[1] = o[1] /\ o[2] <= u[2]
    BY <1>1, <1>2, <1>6 DEF OneClientEach
  <2>2. \A u \in Used(pool'.reg) : \E o \in Held' : u[1] = o[1]
    BY <1>1, <1>2, <1>6 DEF OneClientEach
  <2>3. \A o1, o2 \in owned' : o1[1] = o2[1] => o1 = o2
    BY <1>1, <1>2, <1>4, <1>7 DEF OneClientEach
  <2>4. \A c \in Threads : pc'[c] # "idle" =>
          /\ \A o \in owned' : o[1] # arg'[c][1]
          /\ \A d \in Threads : pc'[d] # "idle" /\ arg'[d][1] = arg'[c][1] => d = c
    BY <1>1, <1>2, <1>4, <1>5 DEF OneClientEach
  <2> QED
    BY <2>1, <2>2, <2>3, <2>4 DEF OneClientEach
<1>9. BooksType'
  <2>1. pc' \in [Threads -> {"idle", "record", "free"}]
    BY <1>1, <1>3
  <2>2. arg' \in [Threads -> {Null} \cup Addresses \X Nat]
    BY <1>1, <1>3
  <2>3. \A c \in Threads : pc'[c] # "idle" => arg'[c] # Null
    BY <1>3, <1>5
  <2>4. owned' \subseteq Addresses \X Nat
    BY <1>1, <1>3, <1>4
  <2>5. DOMAIN allocatedMap' \subseteq Addresses
    BY <1>1, <1>3, <1>4 DEF Put
  <2>6. phase' \in {"up", "exited", "destroyed"}
    BY <1>1
  <2> QED
    BY <2>1, <2>2, <2>3, <2>4, <2>5, <2>6 DEF BooksType
<1>10. Books'
  <2>1. PICK os : os = owned \cup {y}
    OBVIOUS
  <2>2. os = owned' /\ y \in os /\ os \ {y} = owned
    BY <1>1, <1>4, <1>7, <2>1
  <2>3. Lodged(os, pool.reg)
    <3>1. y \in Held
      BY <1>1, <1>4, HeldIs
    <3>2. \E u \in Used(pool.reg) : u[1] = y[1] /\ y[2] <= u[2]
      BY <1>2, <3>1 DEF OneClientEach
    <3> QED
      BY <1>2, <1>4, <2>1, <3>2 DEF Lodged
  <2>4. \A o \in os : o[1] = y[1] => o = y
    BY <1>7, <2>1
  <2>5. Cardinality(BytesOf(os)) = y[2] + Cardinality(BytesOf(owned))
        /\ Cardinality(BytesOf(owned)) \in Nat
    BY <1>2, <2>2, <2>3, <2>4, LodgedBytes
  <2>6. BytesOf(os) \subseteq Covered(pool.reg)
    BY <1>2, <2>3, LodgedIsCovered
  <2>7. currAllocated' = Cardinality(BytesOf(os))
    BY <1>1, <1>2, <1>4, <2>5 DEF Books
  <2>8. \A o \in os : o[1] \in DOMAIN allocatedMap' /\ allocatedMap'[o[1]] = o[2]
    BY <1>1, <1>2, <1>4, <1>7, <2>1 DEF Books, Put
  <2> QED
    BY <1>1, <2>2, <2>6, <2>7, <2>8 DEF Books
<1> QED
  BY <1>1, <1>2, <1>8, <1>9, <1>10 DEF IInv

\* release()'s book-keeping takes the bytes off while the chunk is still in use.
LEMMA ReleaseStep ==
  ASSUME IInv, NEW t \in Threads, Release(t)
  PROVE  IInv'
<1>1. PICK o \in owned :
        /\ phase = "up" /\ pc[t] = "idle" /\ UNCHANGED <<pool, allocatedMap, phase>>
        /\ owned' = owned \ {o}
        /\ currAllocated' = currAllocated - allocatedMap[o[1]]
        /\ arg' = [arg EXCEPT ![t] = <<o[1], allocatedMap[o[1]]>>]
        /\ pc' = [pc EXCEPT ![t] = "free"]
  BY DEF Release
<1>2. /\ Between(pool) /\ BooksType /\ Books /\ OneClientEach /\ AtTheEnd(pool)
      /\ RegType(pool.reg) /\ Fits(pool.reg) /\ Lodged(owned, pool.reg)
  BY <1>1, UpIs DEF IInv
<1>3. /\ arg \in [Threads -> {Null} \cup Addresses \X Nat]
      /\ pc \in [Threads -> {"idle", "record", "free"}]
      /\ \A c \in Threads : pc[c] # "idle" => arg[c] # Null
      /\ owned \subseteq Addresses \X Nat /\ DOMAIN allocatedMap \subseteq Addresses
  BY <1>2 DEF BooksType
<1>4. /\ o \in Addresses \X Nat /\ o[1] \in Addresses /\ o[2] \in Nat
      /\ o = <<o[1], o[2]>> /\ allocatedMap[o[1]] = o[2] /\ o # Null
  BY <1>2, <1>3, SizesAssumption DEF Books, Null, Addresses
<1>5. arg' = [arg EXCEPT ![t] = o] /\ currAllocated' = currAllocated - o[2]
  BY <1>1, <1>4
<1>6. \A c \in Threads : /\ c = t => pc'[c] = "free" /\ arg'[c] = o
                         /\ c # t => pc'[c] = pc[c] /\ arg'[c] = arg[c]
  BY <1>1, <1>3, <1>5
<1>7. \A e : e \in Held' <=> e \in Held
  <2>1. \A e : e \in Held' <=> e \in owned' \/ \E c \in Threads : pc'[c] # "idle" /\ e = arg'[c]
    BY DEF Held
  <2> QED
    BY <1>1, <1>6, <2>1, HeldIs
<1>8. \A e \in owned : e[1] = o[1] => e = o
  BY <1>2 DEF OneClientEach
<1>9. OneClientEach'
  <2>1. \A e \in Held' : \E u \in Used(pool'.reg) : u[1] = e[1] /\ e[2] <= u[2]
    BY <1>1, <1>2, <1>7 DEF OneClientEach
  <2>2. \A u \in Used(pool'.reg) : \E e \in Held' : u[1] = e[1]
    BY <1>1, <1>2, <1>7 DEF OneClientEach
  <2>3. \A o1, o2 \in owned' : o1[1] = o2[1] => o1 = o2
    BY <1>1, <1>2 DEF OneClientEach
  <2>4. \A c \in Threads : pc'[c] # "idle" =>
          /\ \A e \in owned' : e[1] # arg'[c][1]
          /\ \A d \in Threads : pc'[d] # "idle" /\ arg'[d][1] = arg'[c][1] => d = c
    BY <1>1, <1>2, <1>6, <1>8 DEF OneClientEach
  <2> QED
    BY <2>1, <2>2, <2>3, <2>4 DEF OneClientEach
<1>10. BooksType'
  <2>1. pc' \in [Threads -> {"idle", "record", "free"}]
    BY <1>1, <1>3
  <2>2. arg' \in [Threads -> {Null} \cup Addresses \X Nat]
    BY <1>3, <1>4, <1>5
  <2>3. \A c \in Threads : pc'[c] # "idle" => arg'[c] # Null
    BY <1>3, <1>4, <1>6
  <2> QED
    BY <1>1, <1>2, <2>1, <2>2, <2>3 DEF BooksType
<1>11. Books'
  <2>1. /\ Cardinality(BytesOf(owned)) = o[2] + Cardinality(BytesOf(owned \ {o}))
        /\ Cardinality(BytesOf(owned \ {o})) \in Nat
    BY <1>2, <1>8, LodgedBytes
  <2>2. currAllocated' = Cardinality(BytesOf(owned \ {o}))
    BY <1>2, <1>4, <1>5, <2>1 DEF Books
  <2>3. BytesOf(owned \ {o}) \subseteq Covered(pool.reg)
    <3>1. Lodged(owned \ {o}, pool.reg)
      BY <1>2 DEF Lodged
    <3> QED
      BY <1>2, <3>1, LodgedIsCovered
  <2>4. \A e \in owned' : e[1] \in DOMAIN allocatedMap' /\ allocatedMap'[e[1]] = e[2]
    BY <1>1, <1>2 DEF Books
  <2> QED
    BY <1>1, <2>2, <2>3, <2>4 DEF Books
<1> QED
  BY <1>1, <1>2, <1>9, <1>10, <1>11 DEF IInv

\* releaseRaw() finds the chunk in use at the pointer and frees that one alone.
LEMMA ReleaseRawStep ==
  ASSUME IInv, NEW t \in Threads, ReleaseRaw(t)
  PROVE  IInv'
<1>1. /\ phase = "up" /\ pc[t] = "free" /\ UNCHANGED <<allocatedMap, currAllocated, owned>>
      /\ pool' = IF arg[t][1] \notin DOMAIN pool.reg THEN Fault(pool, "structure")
                 ELSE FreeAndCoalesce(pool, <<arg[t][1], pool.reg[arg[t][1]].size>>)
      /\ phase' = IF pool'.fault = "none" THEN "up" ELSE "exited"
      /\ pc' = [pc EXCEPT ![t] = "idle"] /\ arg' = [arg EXCEPT ![t] = Null]
  BY DEF ReleaseRaw
<1>2. /\ Between(pool) /\ BooksType /\ Books /\ OneClientEach
      /\ RegType(pool.reg) /\ Fits(pool.reg) /\ Lodged(owned, pool.reg)
  BY <1>1, UpIs
<1>3. /\ arg \in [Threads -> {Null} \cup Addresses \X Nat]
      /\ pc \in [Threads -> {"idle", "record", "free"}]
      /\ \A c \in Threads : pc[c] # "idle" => arg[c] # Null
  BY <1>2 DEF BooksType
<1>4. PICK p : p = arg[t][1]
  OBVIOUS
<1>5. p \in DOMAIN pool.reg /\ pool.reg[p].used
  <2>1. arg[t] \in Held
    BY <1>1, HeldIs
  <2>2. PICK u \in Used(pool.reg) : u[1] = p
    BY <1>2, <1>4, <2>1 DEF OneClientEach
  <2> QED
    BY <2>2 DEF Used, Id
<1>6. pool' = FreeAndCoalesce(pool, Id(pool.reg, p))
  BY <1>1, <1>4, <1>5 DEF Id
<1>7. /\ Between(pool') /\ Used(pool'.reg) = Used(pool.reg) \ {Id(pool.reg, p)}
  <2>1. PICK h : h = pool
    OBVIOUS
  <2>2. LET m == FreeAndCoalesce(h, Id(h.reg, p))
        IN  /\ Between(m) /\ Used(m.reg) = Used(h.reg) \ {Id(h.reg, p)}
            /\ Covered(m.reg) = Covered(h.reg)
    BY <1>2, <1>5, <2>1, FreeKeeps
  <2> QED
    BY <1>6, <2>1, <2>2
<1>8. AtTheEnd(pool') /\ RegType(pool'.reg) /\ Fits(pool'.reg) /\ pool'.fault = "none"
  <2>1. PICK g : g = pool'
    OBVIOUS
  <2>2. Pool(g, {}) /\ Apart(g.reg, {})
    BY <1>7, <2>1 DEF Between
  <2>3. AtTheEnd(g)
    BY <2>2, EndOfBetween
  <2> QED
    BY <2>1, <2>2, <2>3 DEF Pool
<1>9. phase' = "up"
  BY <1>1, <1>8
<1>10. \A u \in Used(pool.reg) : u \in Used(pool'.reg) <=> u[1] # p
  <2>1. \A u \in Used(pool.reg) : u[1] = p <=> u = Id(pool.reg, p)
    BY DEF Used, Id
  <2> QED
    BY <1>7, <2>1
<1>11. Used(pool'.reg) \subseteq Used(pool.reg)
  BY <1>7
<1>12. \A c \in Threads : /\ c = t => pc'[c] = "idle"
                          /\ c # t => pc'[c] = pc[c] /\ arg'[c] = arg[c]
  BY <1>1, <1>3
<1>13. \A o : o \in Held' <=> o \in Held /\ o[1] # p
  <2>1. \A o : o \in Held' <=> o \in owned \/ \E c \in Threads : pc'[c] # "idle" /\ o = arg'[c]
    BY <1>1 DEF Held
  <2>2. \A o \in owned : o[1] # p
    BY <1>1, <1>2, <1>4 DEF OneClientEach
  <2>3. \A c \in Threads : c # t /\ pc[c] # "idle" => arg[c][1] # p
    BY <1>1, <1>2, <1>4 DEF OneClientEach
  <2>4. \A o : o \in Held' <=> o \in owned \/ \E c \in Threads : c # t /\ pc[c] # "idle" /\ o = arg[c]
    BY <1>12, <2>1
  <2> QED
    BY <1>4, <2>2, <2>3, <2>4, HeldIs
<1>14. OneClientEach'
  <2>1. \A o \in Held' : \E u \in Used(pool'.reg) : u[1] = o[1] /\ o[2] <= u[2]
    BY <1>2, <1>10, <1>13 DEF OneClientEach
  <2>2. \A u \in Used(pool'.reg) : \E o \in Held' : u[1] = o[1]
    BY <1>2, <1>10, <1>11, <1>13 DEF OneClientEach
  <2>3. \A o1, o2 \in owned' : o1[1] = o2[1] => o1 = o2
    BY <1>1, <1>2 DEF OneClientEach
  <2>4. \A c \in Threads : pc'[c] # "idle" =>
          /\ \A o \in owned' : o[1] # arg'[c][1]
          /\ \A d \in Threads : pc'[d] # "idle" /\ arg'[d][1] = arg'[c][1] => d = c
    BY <1>1, <1>2, <1>12 DEF OneClientEach
  <2> QED
    BY <2>1, <2>2, <2>3, <2>4 DEF OneClientEach
<1>15. BooksType'
  <2>1. pc' \in [Threads -> {"idle", "record", "free"}]
    BY <1>1, <1>3
  <2>2. arg' \in [Threads -> {Null} \cup Addresses \X Nat]
    BY <1>1, <1>3
  <2>3. \A c \in Threads : pc'[c] # "idle" => arg'[c] # Null
    BY <1>3, <1>12
  <2> QED
    BY <1>1, <1>2, <1>9, <2>1, <2>2, <2>3 DEF BooksType
<1>16. Books'
  <2>1. Lodged(owned, pool'.reg)
    <3>1. \A o \in owned : o \in Held'
      BY <1>1 DEF Held
    <3> QED
      BY <1>2, <1>14, <3>1 DEF Lodged, OneClientEach
  <2> QED
    BY <1>1, <1>8, <2>1, BooksStay
<1> QED
  BY <1>7, <1>8, <1>9, <1>14, <1>15, <1>16 DEF IInv

\* The destructor leaves no free monoblock.
LEMMA DestroyStep ==
  ASSUME IInv, Destroy
  PROVE  IInv'
<1>1. /\ phase = "up" /\ \A t \in Threads : pc[t] = "idle"
      /\ pool' = Shrink(pool) /\ phase' = "destroyed"
      /\ UNCHANGED <<allocatedMap, currAllocated, pc, arg, owned>>
  BY DEF Destroy
<1>2. /\ Between(pool) /\ BooksType /\ Books /\ OneClientEach
      /\ RegType(pool.reg) /\ Fits(pool.reg) /\ Lodged(owned, pool.reg)
  BY <1>1, UpIs
<1>3. Between(pool') /\ Used(pool'.reg) = Used(pool.reg) /\ Monoblocks(pool') = {}
  <2>1. PICK h, m : h = pool /\ m = Shrink(h)
    OBVIOUS
  <2>2. Between(m) /\ Used(m.reg) = Used(h.reg) /\ Monoblocks(m) = {}
    BY <1>2, <2>1, ShrinkKeeps
  <2> QED
    BY <1>1, <2>1, <2>2
<1>4. AtTheEnd(pool') /\ RegType(pool'.reg) /\ Fits(pool'.reg)
  <2>1. PICK g : g = pool'
    OBVIOUS
  <2>2. Pool(g, {}) /\ Apart(g.reg, {})
    BY <1>3, <2>1 DEF Between
  <2>3. AtTheEnd(g)
    BY <2>2, EndOfBetween
  <2> QED
    BY <2>1, <2>3 DEF AtTheEnd
<1>5. OneClientEach'
  BY <1>1, <1>2, <1>3 DEF OneClientEach, Held
<1>6. BooksType'
  BY <1>1, <1>2 DEF BooksType
<1>7. Books'
  <2>1. Lodged(owned, pool'.reg)
    BY <1>2, <1>3 DEF Lodged
  <2> QED
    BY <1>1, <1>4, <2>1, BooksStay
<1> QED
  BY <1>1, <1>3, <1>4, <1>5, <1>6, <1>7 DEF IInv

\* A step of nobody.
LEMMA StutterStep ==
  ASSUME IInv, UNCHANGED vars
  PROVE  IInv'
BY DEF IInv, vars, BooksType, Books, OneClientEach, Held

\* IInv is an invariant of the allocator.
THEOREM Invariance == Spec => []IInv
<1>1. Init => IInv
  BY InitHolds
<1>2. IInv /\ [Next]_vars => IInv'
  <2> SUFFICES ASSUME IInv, [Next]_vars PROVE IInv'
    OBVIOUS
  <2>1. ASSUME NEW t \in Threads, NEW bytes \in Requests, Allocate(t, bytes) PROVE IInv'
    BY <2>1, AllocateStep
  <2>2. ASSUME NEW t \in Threads, Record(t) PROVE IInv'
    BY <2>2, RecordStep
  <2>3. ASSUME NEW t \in Threads, Release(t) PROVE IInv'
    BY <2>3, ReleaseStep
  <2>4. ASSUME NEW t \in Threads, ReleaseRaw(t) PROVE IInv'
    BY <2>4, ReleaseRawStep
  <2>5. CASE Destroy
    BY <2>5, DestroyStep
  <2>6. CASE UNCHANGED vars
    BY <2>6, StutterStep
  <2> QED
    BY <2>1, <2>2, <2>3, <2>4, <2>5, <2>6 DEF Next
<1> QED
  BY <1>1, <1>2, PTL DEF Spec

-----------------------------------------------------------------------------
(* What the runs check, from the invariant.                                *)

\* Every link of a chunk leads to a chunk of the register, which links back.
LEMMA LinksAreLive ==
  ASSUME NEW h, RegType(h.reg), Linked(h.reg), Apart(h.reg, {}), NEW p \in DOMAIN h.reg
  PROVE  /\ h.reg[p].prev # Null =>
              Live(h, h.reg[p].prev) /\ Chunk(h, h.reg[p].prev).next = Id(h.reg, p)
         /\ h.reg[p].next # Null =>
              /\ Live(h, h.reg[p].next) /\ h.reg[p].next[1] = p + h.reg[p].size
              /\ Chunk(h, h.reg[p].next).prev = Id(h.reg, p)
              /\ h.reg[p].used \/ Chunk(h, h.reg[p].next).used
<1> DEFINE r == h.reg
<1>1. ASSUME r[p].prev # Null
      PROVE  Live(h, r[p].prev) /\ Chunk(h, r[p].prev).next = Id(r, p)
  <2>1. PICK q \in DOMAIN r : r[p].prev = Id(r, q) /\ r[q].next = Id(r, p)
    BY <1>1 DEF Linked
  <2> QED
    BY <2>1 DEF Live, Chunk, Id
<1>2. ASSUME r[p].next # Null
      PROVE  /\ Live(h, r[p].next) /\ r[p].next[1] = p + r[p].size
             /\ Chunk(h, r[p].next).prev = Id(r, p)
             /\ r[p].used \/ Chunk(h, r[p].next).used
  <2>1. PICK q \in DOMAIN r : r[p].next = Id(r, q) /\ q = p + r[p].size /\ r[q].prev = Id(r, p)
    BY <1>2 DEF Linked
  <2>2. r[p].used \/ r[r[p].next[1]].used
    BY <1>2 DEF Apart
  <2> QED
    BY <2>1, <2>2 DEF Live, Chunk, Id
<1> QED
  BY <1>1, <1>2

\* The books never count more bytes than the pool has.
LEMMA BooksBound ==
  ASSUME IInv
  PROVE  /\ currAllocated \in Nat /\ pool.cached \in Nat /\ pool.cached <= Limit
         /\ currAllocated <= pool.cached
<1>1. RegType(pool.reg) /\ Fits(pool.reg) /\ Numbers(pool) /\ Books
  BY DEF IInv, AtTheEnd
<1>2. PICK A, B : A = BytesOf(owned) /\ B = Covered(pool.reg)
  OBVIOUS
<1>3. IsFiniteSet(B)
  <2>1. PICK r : r = pool.reg
    OBVIOUS
  <2> QED
    BY <1>1, <1>2, <2>1, BytesFinite DEF Covered
<1>4. A \subseteq B /\ currAllocated = Cardinality(A) /\ pool.cached = Cardinality(B)
  BY <1>1, <1>2 DEF Books, Numbers
<1>5. Cardinality(A) \in Nat /\ Cardinality(B) \in Nat /\ Cardinality(A) <= Cardinality(B)
  BY <1>3, <1>4, FS_Subset, FS_CardinalityType
<1> QED
  BY <1>1, <1>4, <1>5 DEF Numbers

\* The invariant gives the types,
LEMMA TypeFollows == IInv => TypeOK
<1> SUFFICES ASSUME IInv PROVE TypeOK
  OBVIOUS
<1>1. AtTheEnd(pool) /\ BooksType
  BY DEF IInv
<1>2. \A p \in DOMAIN pool.reg :
        pool.reg[p] \in [size : 0 .. Limit, used : BOOLEAN, prev : Ids, next : Ids,
                         bin : {NoBin} \cup 0 .. NumBins - 1]
  BY <1>1 DEF AtTheEnd, RegType, ChunkRecord, Sizes
<1>3. DOMAIN pool.reg \subseteq Addresses
  BY <1>1 DEF AtTheEnd, RegType
<1>4. \A b \in DOMAIN pool.bins : pool.bins[b] \subseteq Ids
  BY <1>1 DEF AtTheEnd
<1>5. pool.fault \in {"none", "structure", "size", "malloc"} /\ pool.extend % Align = 0
  BY <1>1 DEF AtTheEnd, Numbers
<1>6. currAllocated \in 0 .. Limit
  BY BooksBound, SizesAssumption
<1> QED
  BY <1>1, <1>2, <1>3, <1>4, <1>5, <1>6 DEF TypeOK, BooksType

\* the links,
LEMMA LinkedFollows == IInv => ChunksAreLinked
<1> SUFFICES ASSUME IInv PROVE ChunksAreLinked
  OBVIOUS
<1>1. PICK h : h = pool
  OBVIOUS
<1>2. RegType(h.reg) /\ Fits(h.reg) /\ Linked(h.reg) /\ Apart(h.reg, {})
  BY <1>1 DEF IInv, AtTheEnd
<1>3. ASSUME NEW p \in DOMAIN h.reg
      PROVE  /\ \A q \in DOMAIN h.reg : q > p => p + h.reg[p].size <= q
             /\ h.reg[p].prev # Null =>
                  Live(h, h.reg[p].prev) /\ Chunk(h, h.reg[p].prev).next = <<p, h.reg[p].size>>
             /\ h.reg[p].next # Null =>
                  /\ Live(h, h.reg[p].next) /\ h.reg[p].next[1] = p + h.reg[p].size
                  /\ Chunk(h, h.reg[p].next).prev = <<p, h.reg[p].size>>
                  /\ h.reg[p].used \/ Chunk(h, h.reg[p].next).used
  <2>1. \A q \in DOMAIN h.reg : q > p => p + h.reg[p].size <= q
    BY <1>2 DEF Fits
  <2>2. Id(h.reg, p) = <<p, h.reg[p].size>>
    BY DEF Id
  <2> QED
    BY <1>2, <2>1, <2>2, LinksAreLive
<1> QED
  BY <1>1, <1>3 DEF ChunksAreLinked

\* the bins,
LEMMA BinsFollow == IInv => BinsHoldTheFree
<1> SUFFICES ASSUME IInv, pool.fault = "none", NEW b \in 0 .. NumBins - 1
             PROVE  pool.bins[b] = {<<p, pool.reg[p].size>> :
                                      p \in {q \in DOMAIN pool.reg :
                                               /\ ~pool.reg[q].used
                                               /\ BinIdxForSize(pool.reg[q].size) = b}}
  BY DEF BinsHoldTheFree
<1>1. PICK h : h = pool
  OBVIOUS
<1>2. RegType(h.reg) /\ InBins(h, {})
  BY <1>1 DEF IInv, AtTheEnd
<1>3. h.bins[b] \subseteq Ids
  BY <1>2 DEF InBins
<1>4. \A id \in Ids : id = <<id[1], id[2]>>
  BY DEF Ids, Null
<1>5. \A id \in Ids : id \in h.bins[b] <=> /\ id[1] \in DOMAIN h.reg /\ ~h.reg[id[1]].used
                                           /\ id[2] = h.reg[id[1]].size
                                           /\ BinIdxForSize(id[2]) = b
  BY <1>2 DEF InBins, Binned
<1>6. \A p \in DOMAIN h.reg : <<p, h.reg[p].size>> \in Ids
  BY <1>2 DEF RegType, ChunkRecord, Ids
<1>7. ASSUME NEW id \in h.bins[b]
      PROVE  \E p \in DOMAIN h.reg : /\ ~h.reg[p].used /\ BinIdxForSize(h.reg[p].size) = b
                                     /\ id = <<p, h.reg[p].size>>
  BY <1>3, <1>4, <1>5
<1>8. ASSUME NEW p \in DOMAIN h.reg, ~h.reg[p].used, BinIdxForSize(h.reg[p].size) = b
      PROVE  <<p, h.reg[p].size>> \in h.bins[b]
  <2>1. PICK id \in Ids : id = <<p, h.reg[p].size>> /\ id[1] = p /\ id[2] = h.reg[p].size
    BY <1>6
  <2> QED
    BY <1>5, <1>8, <2>1
<1> QED
  BY <1>1, <1>7, <1>8

\* and the sums.
LEMMA SumFollows == IInv => CachedIsTheSum
<1> SUFFICES ASSUME IInv PROVE CachedIsTheSum
  OBVIOUS
<1>1. PICK r : r = pool.reg
  OBVIOUS
<1>2. RegType(r) /\ Fits(r) /\ Numbers(pool)
  BY <1>1 DEF IInv, AtTheEnd
<1>3. SizeSum(r, DOMAIN r) = Cardinality(Covered(r))
  BY <1>2, SumIsBytes DEF Covered
<1>4. pool.cached = SizeSum(pool.reg, DOMAIN pool.reg)
  BY <1>1, <1>2, <1>3 DEF Numbers
<1> QED
  BY <1>2, <1>4 DEF CachedIsTheSum, SizeSum, Numbers

\* The pool is consistent at every point at which mut_ is free: no assertion
\* on chunks, bins or links has failed, the links and the bins agree with the
\* register, and the counters are the sum of what the register holds.
THEOREM PoolInvariance == Spec => []PoolInv
<1>1. IInv => PoolInv
  <2>1. IInv => AssertsHold
    BY DEF IInv, AtTheEnd, AssertsHold
  <2> QED
    BY <2>1, TypeFollows, LinkedFollows, BinsFollow, SumFollows DEF PoolInv
<1> QED
  BY <1>1, Invariance, PTL

\* Memory is in no more than one client's hands, and a chunk is in use just when
\* it is in one's.
THEOREM DisjointInvariance == Spec => []ClientsAreDisjoint
<1>1. IInv => ClientsAreDisjoint
  <2> SUFFICES ASSUME IInv, phase # "exited"
               PROVE  /\ \A o \in Held : o[1] \in DOMAIN pool.reg /\ pool.reg[o[1]].used
                                         /\ o[2] <= pool.reg[o[1]].size
                      /\ \A o1, o2 \in Held : o1[1] = o2[1] => o1 = o2
                      /\ {p \in DOMAIN pool.reg : pool.reg[p].used} = {o[1] : o \in Held}
    BY DEF ClientsAreDisjoint
  <2>1. OneClientEach
    BY DEF IInv
  <2>2. \A u : u \in Used(pool.reg) <=>
          \E p \in DOMAIN pool.reg : pool.reg[p].used /\ u = <<p, pool.reg[p].size>>
    BY DEF Used, Id
  <2>3. ASSUME NEW o \in Held
        PROVE  o[1] \in DOMAIN pool.reg /\ pool.reg[o[1]].used /\ o[2] <= pool.reg[o[1]].size
    <3>1. PICK u \in Used(pool.reg) : u[1] = o[1] /\ o[2] <= u[2]
      BY <2>1 DEF OneClientEach
    <3>2. PICK p \in DOMAIN pool.reg : pool.reg[p].used /\ u = <<p, pool.reg[p].size>>
      BY <2>2, <3>1
    <3> QED
      BY <3>1, <3>2
  <2>4. ASSUME NEW o1 \in Held, NEW o2 \in Held, o1[1] = o2[1] PROVE o1 = o2
    BY <2>1, <2>4, HeldIs DEF OneClientEach
  <2>5. ASSUME NEW p \in DOMAIN pool.reg, pool.reg[p].used PROVE \E o \in Held : p = o[1]
    <3>1. PICK u : u = <<p, pool.reg[p].size>>
      OBVIOUS
    <3>2. u \in Used(pool.reg)
      BY <2>2, <2>5, <3>1
    <3>3. u[1] = p
      BY <3>1
    <3> QED
      BY <2>1, <3>2, <3>3 DEF OneClientEach
  <2> QED
    BY <2>3, <2>4, <2>5
<1> QED
  BY <1>1, Invariance, PTL

\* At whatever point of an allocate() or a release() of another thread they are
\* read, allocatedBytes() is no more than cachedBytes().
THEOREM WithinCachedInvariance == Spec => []AllocatedWithinCached
<1>1. IInv => AllocatedWithinCached
  BY BooksBound DEF AllocatedWithinCached
<1> QED
  BY <1>1, Invariance, PTL

\* The destructor leaves nothing behind when every pointer was released.
THEOREM ReturnedInvariance == Spec => []AllReturned
<1>1. IInv => AllReturned
  <2> SUFFICES ASSUME IInv, phase = "destroyed", owned = {}
               PROVE  pool.reg = <<>> /\ pool.cached = 0
    BY DEF AllReturned
  <2>1. PICK r : r = pool.reg
    OBVIOUS
  <2>2. RegType(r) /\ Linked(r) /\ Apart(r, {}) /\ pool.cached = Cardinality(Covered(r))
    BY <2>1 DEF IInv, AtTheEnd, Numbers
  <2>3. \A p \in DOMAIN r : ~r[p].used
    <3>1. \A o : o \notin Held
      BY HeldIs DEF IInv
    <3>2. \A u : u \notin Used(r)
      BY <2>1, <3>1 DEF IInv, OneClientEach
    <3> QED
      BY <3>2 DEF Used
  <2>4. \A p \in DOMAIN r : r[p].next = Null
    <3> SUFFICES ASSUME NEW p \in DOMAIN r, r[p].next # Null PROVE FALSE
      OBVIOUS
    <3>1. PICK q \in DOMAIN r : r[p].next = Id(r, q)
      BY <2>2 DEF Linked
    <3>2. r[r[p].next[1]].used
      BY <2>2, <2>3 DEF Apart
    <3> QED
      BY <2>3, <3>1, <3>2 DEF Id
  <2>5. \A p \in DOMAIN r : r[p].prev = Null
    <3> SUFFICES ASSUME NEW p \in DOMAIN r, r[p].prev # Null PROVE FALSE
      OBVIOUS
    <3>1. PICK q \in DOMAIN r : r[q].next = Id(r, p)
      BY <2>2 DEF Linked
    <3>2. Id(r, p) = Null /\ p > 0
      BY <2>2, <2>4, <3>1, RegNumbers
    <3> QED
      BY <3>2 DEF Id, Null
  <2>6. DOMAIN r = {}
    <3>1. Monoblocks(pool) = {}
      BY DEF IInv
    <3> QED
      BY <2>1, <2>3, <2>4, <2>5, <3>1 DEF Monoblocks
  <2>7. r = <<>>
    BY <2>2, <2>6 DEF RegType
  <2>8. Covered(r) = {}
    BY <2>6 DEF Covered, Bytes
  <2> QED
    BY <2>1, <2>2, <2>7, <2>8, FS_EmptySet
<1> QED
  BY <1>1, Invariance, PTL
==============================================================================
