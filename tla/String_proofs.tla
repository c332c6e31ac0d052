---------------------------- MODULE String_proofs ----------------------------
(***************************************************************************)
(* The functions on texts.                                                 *)
(*                                                                         *)
(* str_util: ConsumeLeadingDigits, proved for every width and every text:  *)
(* its overflow test (the largest value may be any number of at least 15,  *)
(* 2^64 - 1 among them) and, from that, the numbers it stores; the two     *)
(* passes of ArgDefCase; Appendv; StringReplace, next to a run of it that  *)
(* puts marks; and Split, against the tokens taken from a text one by one. *)
(* The functions are defined by recursion, which the provers do not unfold *)
(* by themselves: they need to be told that there is such a function       *)
(* (Recursion, DecimalUnfolds) before they can use its equation.           *)
(*                                                                         *)
(* tstring, proved for every capacity, any objects, buffers and texts: its *)
(* heap, its terminators and its texts.  Each function from memory to      *)
(* memory has a lemma, whose conclusion is an Effect: the memory stays     *)
(* sound, one object changes, and the others are left as they were.        *)
(***************************************************************************)
EXTENDS StrUtil, TString, SequenceTheorems, FiniteSetTheorems, WellFoundedInduction, TLAPS

-----------------------------------------------------------------------------
(* Numbers and functions that are defined one value after the other.        *)

\* Min of a set of numbers is its least member.
LEMMA MinIsLeast ==
  ASSUME NEW S \in SUBSET Nat, S # {}
  PROVE  Min(S) \in S /\ \A y \in S : Min(S) <= y
<1>1. PICK x \in S : \A y \in S : ~(<<y, x>> \in OpToRel(<, Nat))
  BY NatLessThanWellFounded, WFMin
<1>2. \A y \in S : x <= y
  <2> SUFFICES ASSUME NEW y \in S PROVE ~(y < x)
    OBVIOUS
  <2>1. <<y, x>> \notin OpToRel(<, Nat) /\ <<y, x>> \in Nat \X Nat
    BY <1>1
  <2> QED
    BY <2>1 DEF OpToRel
<1> QED
  BY <1>2 DEF Min

\* Max of a set of numbers up to n is its greatest member.
LEMMA MaxIsGreatest ==
  ASSUME NEW n \in Nat, NEW S \in SUBSET (0 .. n), S # {}
  PROVE  Max(S) \in S /\ \A y \in S : Max(S) >= y
<1>1. PICK D \in SUBSET Nat : D = {n - y : y \in S}
  <2>1. \A y \in S : n - y \in Nat
    OBVIOUS
  <2>2. {n - y : y \in S} \subseteq Nat
    BY <2>1
  <2> QED
    BY <2>2
<1>2. D # {}
  BY <1>1
<1>3. PICK m \in D : \A d \in D : m <= d
  BY <1>2, MinIsLeast
<1>4. PICK x \in S : m = n - x
  BY <1>1, <1>3
<1>5. \A y \in S : x >= y
  <2> SUFFICES ASSUME NEW y \in S PROVE x >= y
    OBVIOUS
  <2>1. n - y \in D
    BY <1>1
  <2> QED
    BY <2>1, <1>3, <1>4
<1> QED
  BY <1>5 DEF Max

\* Induction up to n, for a property given as the set G of the numbers that
\* have it.
LEMMA UpTo ==
  ASSUME NEW n \in Nat, NEW G, 0 \in G, \A k \in 0 .. n - 1 : k \in G => k + 1 \in G
  PROVE  \A k \in 0 .. n : k \in G
<1> DEFINE Bad == {k \in 0 .. n : k \notin G}
<1> SUFFICES ASSUME Bad # {} PROVE FALSE
  OBVIOUS
<1>1. PICK k \in Bad : \A j \in Bad : k <= j
  <2>1. Bad \in SUBSET Nat
    OBVIOUS
  <2> HIDE DEF Bad
  <2> QED
    BY <2>1, MinIsLeast
<1>2. k # 0 /\ k \in 1 .. n /\ k \notin G
  OBVIOUS
<1>3. k - 1 \in 0 .. n - 1 /\ (k - 1) + 1 = k
  BY <1>2
<1>4. k - 1 \notin Bad
  BY <1>1, <1>2, <1>3
<1> QED
  BY <1>2, <1>3, <1>4

\* The value of f at k is computed from k and the value at k - 1,
Unfolds(f, n, first, Step) ==
  f = [k \in 0 .. n |-> IF k = 0 THEN first ELSE Step[k][f[k - 1]]]

\* and there is such a function.
LEMMA Recursion ==
  ASSUME NEW n \in Nat, NEW V, NEW first \in V, NEW Step \in [1 .. n -> [V -> V]]
  PROVE  \E f \in [0 .. n -> V] : Unfolds(f, n, first, Step)
<1> DEFINE Next1(f) == [k \in 0 .. n |-> IF k = 0 THEN first ELSE Step[k][f[k - 1]]]
           G == {j \in 0 .. n : \E f \in [0 .. n -> V] : \A k \in 0 .. j : f[k] = Next1(f)[k]}
<1>1. \A f \in [0 .. n -> V] : Next1(f) \in [0 .. n -> V]
  <2> SUFFICES ASSUME NEW f \in [0 .. n -> V], NEW k \in 0 .. n, k # 0
               PROVE  Step[k][f[k - 1]] \in V
    OBVIOUS
  <2>1. k \in 1 .. n /\ k - 1 \in 0 .. n
    OBVIOUS
  <2> QED
    BY <2>1
<1>2. 0 \in G
  <2>1. [k \in 0 .. n |-> first] \in [0 .. n -> V]
    OBVIOUS
  <2>2. PICK f \in [0 .. n -> V] : f = [k \in 0 .. n |-> first]
    BY <2>1
  <2>3. \A k \in 0 .. 0 : f[k] = Next1(f)[k]
    BY <2>2
  <2> QED
    BY <2>3
<1>3. ASSUME NEW j \in 0 .. n - 1, j \in G PROVE j + 1 \in G
  <2>1. PICK f \in [0 .. n -> V] : \A k \in 0 .. j : f[k] = Next1(f)[k]
    BY <1>3
  <2>2. PICK g \in [0 .. n -> V] : g = Next1(f)
    BY <1>1
  <2>3. ASSUME NEW k \in 0 .. j + 1 PROVE g[k] = Next1(g)[k]
    <3>1. k \in 0 .. n
      OBVIOUS
    <3>2. CASE k = 0
      BY <2>2, <3>1, <3>2
    <3>3. CASE k # 0
      <4>1. k - 1 \in 0 .. j /\ k - 1 \in 0 .. n
        BY <3>3
      <4>2. g[k - 1] = f[k - 1]
        <5> HIDE DEF Next1
        <5> QED
          BY <2>1, <2>2, <4>1
      <4>3. g[k] = Step[k][f[k - 1]]
        BY <2>2, <3>1, <3>3
      <4> QED
        BY <3>1, <3>3, <4>2, <4>3
    <3> QED
      BY <3>2, <3>3
  <2>4. j + 1 \in 0 .. n
    OBVIOUS
  <2> HIDE DEF Next1
  <2> QED
    BY <2>3, <2>4
<1>4. n \in G
  <2> HIDE DEF G
  <2>1. \A k \in 0 .. n : k \in G
    BY <1>2, <1>3, UpTo
  <2> QED
    BY <2>1
<1>5. PICK f \in [0 .. n -> V] : \A k \in 0 .. n : f[k] = Next1(f)[k]
  BY <1>4
<1>6. Next1(f) \in [0 .. n -> V]
  BY <1>1
<1>7. f = Next1(f)
  <2> HIDE DEF Next1
  <2> QED
    BY <1>5, <1>6
<1> QED
  BY <1>7 DEF Unfolds

-----------------------------------------------------------------------------
(* What the digits of a text say.                                           *)

\* The function by which Decimal folds: on each set of places, by its greatest.
DecimalOf(q) ==
  CHOOSE f : f = [S \in SUBSET DOMAIN q |->
                    IF S = {} THEN 0 ELSE 10 * f[S \ {Max(S)}] + (q[Max(S)] - 48)]

\* Decimal is that function at all places.
LEMMA DecimalFolds ==
  ASSUME NEW q
  PROVE  Decimal(q) = DecimalOf(q)[DOMAIN q]
BY DEF Decimal, FoldLeft, MapThenFoldSet, DecimalOf

\* One turn of the fold.
Turn(q, f) ==
  [S \in SUBSET DOMAIN q |->
     IF S = {} THEN 0 ELSE 10 * f[S \ {Max(S)}] + (q[Max(S)] - 48)]

\* There is such a function: what is left when the greatest place is taken away
\* lies below it.
LEMMA DecimalUnfolds ==
  ASSUME NEW q, NEW n \in Nat, DOMAIN q = 1 .. n
  PROVE  DecimalOf(q) = Turn(q, DecimalOf(q))
<1>1. ASSUME NEW S \in SUBSET (1 .. n), S # {}, NEW j \in Nat, S \subseteq 1 .. j + 1
      PROVE  S \ {Max(S)} \in SUBSET (1 .. n) /\ S \ {Max(S)} \in SUBSET (1 .. j)
  <2>1. S \in SUBSET (0 .. n)
    OBVIOUS
  <2>2. PICK m : m = Max(S)
    OBVIOUS
  <2>3. m \in S /\ \A y \in S : m >= y
    BY <1>1, <2>1, <2>2, MaxIsGreatest
  <2>4. \A y \in S \ {m} : y \in 1 .. j
    BY <1>1, <2>3
  <2> QED
    BY <2>2, <2>4
<1> DEFINE G == {j \in 0 .. n : \E f : \A S \in SUBSET (1 .. j) : f[S] = Turn(q, f)[S]}
<1>2. 0 \in G
  <2>1. PICK f : f = [S \in {{}} |-> 0]
    OBVIOUS
  <2>2. ASSUME NEW S \in SUBSET (1 .. 0) PROVE f[S] = Turn(q, f)[S]
    <3>1. S = {}
      OBVIOUS
    <3>2. f[{}] = 0
      BY <2>1
    <3>3. Turn(q, f)[{}] = 0
      BY DEF Turn
    <3> QED
      BY <3>1, <3>2, <3>3
  <2>3. \E g : \A S \in SUBSET (1 .. 0) : g[S] = Turn(q, g)[S]
    BY <2>2
  <2>4. 0 \in 0 .. n
    OBVIOUS
  <2> QED
    BY ONLY <2>3, <2>4
<1>3. ASSUME NEW j \in 0 .. n - 1, j \in G PROVE j + 1 \in G
  <2>1. PICK f : \A S \in SUBSET (1 .. j) : f[S] = Turn(q, f)[S]
    BY <1>3
  <2>2. PICK g : g = Turn(q, f)
    OBVIOUS
  <2>3. ASSUME NEW S \in SUBSET (1 .. j + 1) PROVE g[S] = Turn(q, g)[S]
    <3>1. S \in SUBSET (1 .. n) /\ S \in SUBSET DOMAIN q
      OBVIOUS
    <3>2. CASE S = {}
      BY <2>2, <3>1, <3>2 DEF Turn
    <3>3. CASE S # {}
      <4>1. PICK T : T = S \ {Max(S)}
        OBVIOUS
      <4>2. j \in Nat /\ S \subseteq 1 .. j + 1
        OBVIOUS
      <4>3. T \in SUBSET (1 .. j)
        BY <1>1, <3>1, <3>3, <4>1, <4>2
      <4>4. g[T] = f[T]
        BY <2>1, <2>2, <4>3
      <4>5. g[S] = 10 * f[T] + (q[Max(S)] - 48)
        BY <2>2, <3>1, <3>3, <4>1 DEF Turn
      <4>6. Turn(q, g)[S] = 10 * g[T] + (q[Max(S)] - 48)
        BY <3>1, <3>3, <4>1 DEF Turn
      <4> QED
        BY <4>4, <4>5, <4>6
    <3> QED
      BY <3>2, <3>3
  <2>4. \E h : \A S \in SUBSET (1 .. j + 1) : h[S] = Turn(q, h)[S]
    BY <2>3
  <2>5. j + 1 \in 0 .. n
    OBVIOUS
  <2> QED
    BY ONLY <2>4, <2>5
<1>4. n \in G
  <2> HIDE DEF G
  <2>1. \A k \in 0 .. n : k \in G
    BY <1>2, <1>3, UpTo
  <2> QED
    BY <2>1
<1>5. PICK f : \A S \in SUBSET DOMAIN q : f[S] = Turn(q, f)[S]
  BY <1>4
<1>6. PICK g : g = [S \in SUBSET DOMAIN q |-> f[S]]
  OBVIOUS
<1>7. g = Turn(q, g)
  <2>1. ASSUME NEW S \in SUBSET DOMAIN q PROVE f[S] = Turn(q, g)[S]
    <3>1. S \ {Max(S)} \in SUBSET DOMAIN q
      OBVIOUS
    <3>2. g[S \ {Max(S)}] = f[S \ {Max(S)}]
      BY <1>6, <3>1
    <3>3. Turn(q, g)[S] = Turn(q, f)[S]
      BY <3>2 DEF Turn
    <3> QED
      BY <1>5, <3>3
  <2>2. \A S \in SUBSET DOMAIN q : f[S] = Turn(q, g)[S]
    BY <2>1
  <2>3. g = [S \in SUBSET DOMAIN q |-> Turn(q, g)[S]]
    BY <1>6, <2>2
  <2>4. Turn(q, g) = [S \in SUBSET DOMAIN q |-> Turn(q, g)[S]]
    BY DEF Turn
  <2> QED
    BY <2>3, <2>4
<1> QED
  BY <1>7 DEF DecimalOf, Turn

\* The number that the first k characters of q say, as Decimal finds it.
Upto(q, k) == DecimalOf(q)[1 .. k]

\* One digit more.
LEMMA DecimalGrows ==
  ASSUME NEW q, NEW n \in Nat, DOMAIN q = 1 .. n
  PROVE  /\ Upto(q, 0) = 0 /\ Upto(q, n) = Decimal(q)
         /\ \A k \in 1 .. n : Upto(q, k) = 10 * Upto(q, k - 1) + (q[k] - 48)
<1>1. PICK f : f = DecimalOf(q)
  OBVIOUS
<1>2. \A S \in SUBSET (1 .. n) :
        f[S] = IF S = {} THEN 0 ELSE 10 * f[S \ {Max(S)}] + (q[Max(S)] - 48)
  BY <1>1, DecimalUnfolds DEF Turn
<1>3. ASSUME NEW k \in 1 .. n PROVE f[1 .. k] = 10 * f[1 .. k - 1] + (q[k] - 48)
  <2>1. PICK S \in SUBSET (1 .. n) : S = 1 .. k
    OBVIOUS
  <2>2. PICK m : m = Max(S)
    OBVIOUS
  <2>3. m \in S /\ \A y \in S : m >= y
    <3>1. S # {} /\ S \in SUBSET (0 .. n)
      BY <2>1
    <3> QED
      BY <2>2, <3>1, MaxIsGreatest
  <2>4. k \in S /\ m = k
    BY <2>1, <2>3
  <2>5. S \ {k} = 1 .. k - 1
    BY <2>1
  <2> QED
    BY <1>2, <2>1, <2>2, <2>4, <2>5
<1>4. f[1 .. 0] = 0
  <2>1. 1 .. 0 = {}
    OBVIOUS
  <2>2. {} \in SUBSET (1 .. n)
    OBVIOUS
  <2> QED
    BY <1>2, <2>1, <2>2
<1>5. f[1 .. n] = Decimal(q)
  BY <1>1, DecimalFolds
<1> QED
  BY <1>1, <1>3, <1>4, <1>5 DEF Upto

-----------------------------------------------------------------------------
(* The overflow test.                                                       *)

\* How often Word fits into a sum, and what it leaves: ten quotients at most.
LEMMA Quotient ==
  ASSUME NEW v \in 0 .. Word - 1, NEW d \in 0 .. 9
  PROVE  \E k \in 0 .. 9 : /\ NewValue(v, d) = v * 10 + d - k * Word
                           /\ NewValue(v, d) \in 0 .. Word - 1
<1>1. Word \in Nat /\ Word >= 16
  BY WordAssumption
<1>2. PICK k \in 0 .. 9 : k * Word <= v * 10 + d /\ v * 10 + d < k * Word + Word
  <2>1. v * 10 + d \in Nat /\ v * 10 + d < 10 * Word
    BY <1>1
  <2>2. \E k \in 0 .. 9 : k * Word <= v * 10 + d /\ v * 10 + d < (k + 1) * Word
    BY <1>1, <2>1
  <2> QED
    BY <2>2, <1>1
<1>3. v * 10 + d = k * Word + (v * 10 + d - k * Word)
      /\ v * 10 + d - k * Word \in 0 .. Word - 1
  BY <1>1, <1>2
<1>4. (v * 10 + d) % Word = v * 10 + d - k * Word
  BY <1>1, <1>3
<1> QED
  BY <1>3, <1>4 DEF NewValue

\* ConsumeLeadingDigits finds out from the wrapped sum alone, at any width,
\* whether v * 10 + d has wrapped: the eighth part of the new value is less than
\* v exactly then.
THEOREM OverflowTestIsExact ==
  \A v \in 0 .. Word - 1, d \in 0 .. 9 :
    /\ Overflows(v, d) <=> v * 10 + d >= Word
    /\ ~Overflows(v, d) => NewValue(v, d) = v * 10 + d
<1> SUFFICES ASSUME NEW v \in 0 .. Word - 1, NEW d \in 0 .. 9
             PROVE  /\ Overflows(v, d) <=> v * 10 + d >= Word
                    /\ ~Overflows(v, d) => NewValue(v, d) = v * 10 + d
  OBVIOUS
<1>1. Word \in Nat /\ Word >= 16
  BY WordAssumption
<1>2. PICK k \in 0 .. 9 : /\ NewValue(v, d) = v * 10 + d - k * Word
                          /\ NewValue(v, d) \in 0 .. Word - 1
  BY Quotient
<1>3. Overflows(v, d) <=> NewValue(v, d) < 8 * v
  BY <1>1, <1>2 DEF Overflows
<1>4. CASE k = 0
  BY <1>1, <1>2, <1>3, <1>4
<1>5. CASE k # 0
  <2>1. v * 10 + d >= Word
    BY <1>1, <1>2, <1>5
  <2>2. 2 * v + d < k * Word
    BY <1>1, <1>2, <1>5
  <2> QED
    BY <2>1, <2>2, <1>1, <1>2, <1>3
<1> QED
  BY <1>4, <1>5

-----------------------------------------------------------------------------
(* ConsumeLeadingDigits.                                                    *)

\* Leading counts the characters in C up to the first one that is not.
LEMMA LeadingIs ==
  ASSUME NEW s, NEW C, NEW l \in Nat, Len(s) = l, NEW n, n = Leading(s, C)
  PROVE  /\ n \in 0 .. l /\ (n = l \/ s[n + 1] \notin C)
         /\ \A i \in 1 .. n : s[i] \in C
<1>1. PICK K : K = {k \in 0 .. l : k = l \/ s[k + 1] \notin C}
  OBVIOUS
<1>2. n = Min(K)
  BY <1>1 DEF Leading
<1>3. K \in SUBSET Nat /\ l \in K
  BY <1>1
<1>4. n \in K /\ \A k \in K : n <= k
  BY <1>2, <1>3, MinIsLeast
<1>5. ASSUME NEW i \in 1 .. n PROVE s[i] \in C
  <2>1. i - 1 \in 0 .. l /\ i - 1 # l /\ i - 1 < n /\ (i - 1) + 1 = i
    BY <1>1, <1>4
  <2>2. i - 1 \notin K
    BY <1>3, <1>4, <2>1
  <2>3. i - 1 \in K <=> s[(i - 1) + 1] \notin C
    BY <1>1, <2>1
  <2> QED
    BY <2>1, <2>2, <2>3
<1> QED
  BY <1>1, <1>4, <1>5

\* The values behind the digits exist, each computed from the one before.
LEMMA ValuesAre ==
  ASSUME NEW s, NEW l \in Nat, Len(s) = l, NEW n, n = Leading(s, Digits)
  PROVE  /\ Values(s)[0] = 0
         /\ \A k \in 1 .. n : Values(s)[k] = NewValue(Values(s)[k - 1], s[k] - 48)
<1>1. n \in 0 .. l /\ \A i \in 1 .. n : s[i] \in Digits
  BY LeadingIs
<1>2. Word \in Nat /\ Word >= 16
  BY WordAssumption
<1> DEFINE V == 0 .. Word - 1
           Step == [k \in 1 .. n |-> [v \in V |-> NewValue(v, s[k] - 48)]]
<1>3. Step \in [1 .. n -> [V -> V]]
  <2> SUFFICES ASSUME NEW k \in 1 .. n, NEW v \in V PROVE NewValue(v, s[k] - 48) \in V
    OBVIOUS
  <2>1. s[k] - 48 \in 0 .. 9
    BY <1>1 DEF Digits
  <2>2. PICK w \in Nat : w = v * 10 + (s[k] - 48)
    BY <2>1
  <2>3. NewValue(v, s[k] - 48) = w % Word
    BY <2>2, <2>1 DEF NewValue
  <2> QED
    BY <1>2, <2>2, <2>3
<1>4. PICK f \in [0 .. n -> V] :
        f = [k \in 0 .. n |-> IF k = 0 THEN 0 ELSE Step[k][f[k - 1]]]
  <2>1. 0 \in V /\ n \in Nat
    BY <1>1, <1>2
  <2> HIDE DEF V, Step
  <2>2. PICK first \in V, step \in [1 .. n -> [V -> V]] : first = 0 /\ step = Step
    BY <1>3, <2>1
  <2>3. \E f \in [0 .. n -> V] : Unfolds(f, n, first, step)
    BY <2>1, Recursion
  <2> QED
    BY <2>2, <2>3 DEF Unfolds
<1>5. f = [k \in 0 .. n |-> IF k = 0 THEN 0 ELSE NewValue(f[k - 1], s[k] - 48)]
  <2>1. ASSUME NEW k \in 0 .. n, k # 0 PROVE Step[k][f[k - 1]] = NewValue(f[k - 1], s[k] - 48)
    <3>1. k \in 1 .. n /\ k - 1 \in 0 .. n
      BY <1>1, <2>1
    <3>2. f[k - 1] \in V
      BY <3>1
    <3> QED
      BY <3>1, <3>2
  <2> HIDE DEF Step
  <2> QED
    BY <1>4, <2>1
<1> HIDE DEF V, Step
<1>6. Values(s) = [k \in 0 .. n |-> IF k = 0 THEN 0 ELSE NewValue(Values(s)[k - 1], s[k] - 48)]
  BY <1>5 DEF Values
<1>7. ASSUME NEW k \in 1 .. n PROVE k \in 0 .. n /\ k # 0
  OBVIOUS
<1>8. 0 \in 0 .. n
  BY <1>1
<1> QED
  BY <1>6, <1>7, <1>8

\* As long as none is refused the values are the number; once one is refused
\* the number does not fit, and more digits do not make it smaller.
LEMMA NumberFits ==
  ASSUME NEW s, NEW l \in Nat, Len(s) = l, NEW n, n = Leading(s, Digits),
         NEW q, DOMAIN q = 1 .. n, \A k \in 1 .. n : q[k] = s[k]
  PROVE  /\ IsNumber(s) <=> n > 0 /\ Decimal(q) < Word
         /\ IsNumber(s) => Number(s) = Decimal(q)
<1>1. n \in 0 .. l /\ n \in Nat /\ \A i \in 1 .. n : s[i] \in Digits
  <2>1. n \in 0 .. l /\ \A i \in 1 .. n : s[i] \in Digits
    BY LeadingIs
  <2> QED
    BY <2>1
<1>2. Word \in Nat /\ Word >= 16
  BY WordAssumption
<1>3. \A k \in 1 .. n : s[k] - 48 \in 0 .. 9
  BY <1>1 DEF Digits
<1>4. PICK v : v = Values(s)
  OBVIOUS
<1>5. v[0] = 0 /\ \A k \in 1 .. n : v[k] = NewValue(v[k - 1], s[k] - 48)
  BY <1>4, ValuesAre
<1> DEFINE D(k) == Upto(q, k)
           Fine(k) == \A j \in 1 .. k : ~Overflows(v[j - 1], s[j] - 48)
<1>6. /\ D(0) = 0 /\ D(n) = Decimal(q)
      /\ \A k \in 1 .. n : D(k) = 10 * D(k - 1) + (s[k] - 48)
  BY <1>1, DecimalGrows, ZenonT(40)
<1> DEFINE G == {k \in 0 .. n : /\ D(k) \in Nat
                                /\ Fine(k) => v[k] = D(k) /\ D(k) < Word
                                /\ ~Fine(k) => D(k) >= Word}
<1>7. 0 \in G
  BY <1>1, <1>2, <1>5, <1>6
<1>8. ASSUME NEW k \in 0 .. n - 1, k \in G PROVE k + 1 \in G
  <2>1. PICK d \in 0 .. 9 : d = s[k + 1] - 48 /\ k + 1 \in 1 .. n /\ (k + 1) - 1 = k
    BY <1>1, <1>3
  <2>2. D(k + 1) = 10 * D(k) + d
    BY <1>6, <2>1
  <2>3. PICK m \in Nat : m = D(k)
    BY <1>8
  <2>4. Fine(k + 1) <=> Fine(k) /\ ~Overflows(v[k], d)
    <3>1. \A j : j \in 1 .. k + 1 <=> j \in 1 .. k \/ j = k + 1
      BY <1>1
    <3> QED
      BY <2>1, <3>1
  <2> HIDE DEF Fine, D
  <2>5. D(k + 1) = 10 * m + d /\ D(k + 1) \in Nat
    BY <2>2, <2>3
  <2>6. v[k + 1] = NewValue(v[k], d)
    BY <1>5, <2>1
  <2>7. CASE Fine(k)
    <3>1. v[k] = m /\ m \in 0 .. Word - 1
      BY <1>2, <1>8, <2>3, <2>7
    <3>2. /\ Overflows(m, d) <=> m * 10 + d >= Word
          /\ ~Overflows(m, d) => NewValue(m, d) = m * 10 + d
      BY <3>1, OverflowTestIsExact
    <3>3. Fine(k + 1) <=> ~(m * 10 + d >= Word)
      BY <2>4, <2>7, <3>1, <3>2
    <3>4. Fine(k + 1) => v[k + 1] = m * 10 + d
      BY <2>4, <2>6, <3>1, <3>2
    <3> QED
      BY <1>2, <2>1, <2>5, <3>3, <3>4
  <2>8. CASE ~Fine(k)
    <3>1. m >= Word
      BY <1>8, <2>3, <2>8
    <3>2. ~Fine(k + 1)
      BY <2>4, <2>8
    <3>3. D(k + 1) >= Word /\ D(k + 1) \in Nat
      BY <1>2, <2>5, <3>1
    <3>4. k + 1 \in 0 .. n
      BY <2>1
    <3> QED
      BY <3>2, <3>3, <3>4
  <2> QED
    BY <2>7, <2>8
<1>9. n \in G
  <2> HIDE DEF G
  <2>1. \A k \in 0 .. n : k \in G
    BY <1>1, <1>7, <1>8, UpTo
  <2> QED
    BY <2>1, <1>1
<1>10. IsNumber(s) <=> n > 0 /\ Fine(n)
  BY <1>4 DEF IsNumber
<1>11. Number(s) = v[n]
  BY <1>4 DEF Number
<1> HIDE DEF Fine, D
<1>12. /\ D(n) \in Nat /\ D(n) = Decimal(q)
       /\ Fine(n) => v[n] = D(n) /\ D(n) < Word
       /\ ~Fine(n) => D(n) >= Word
  BY <1>6, <1>9
<1> QED
  BY <1>2, <1>10, <1>11, <1>12

-----------------------------------------------------------------------------
(* The texts.                                                               *)

Char == 0 .. 127

\* A part of a text is a text.
LEMMA PartIs ==
  ASSUME NEW s \in Seq(Char), NEW m \in 1 .. Len(s) + 1, NEW n \in m - 1 .. Len(s)
  PROVE  /\ SubSeq(s, m, n) \in Seq(Char) /\ Len(SubSeq(s, m, n)) = n - m + 1
         /\ \A i \in 1 .. n - m + 1 : SubSeq(s, m, n)[i] = s[m + i - 1]
BY SubSeqProperties

\* What is counted at either end of a text can be taken away there.
LEMMA Stripped ==
  ASSUME NEW s \in Seq(Char), NEW C
  PROVE  /\ RemovePrefix(s, Leading(s, C)) \in Seq(Char)
         /\ RemoveSuffix(s, Trailing(s, C)) \in Seq(Char)
<1>1. PICK l \in Nat : l = Len(s)
  OBVIOUS
<1>2. PICK n : n = Leading(s, C)
  OBVIOUS
<1>3. n \in 0 .. l
  BY <1>1, <1>2, LeadingIs
<1>4. RemovePrefix(s, n) \in Seq(Char)
  <2>1. n + 1 \in 1 .. Len(s) + 1 /\ Len(s) \in (n + 1) - 1 .. Len(s)
    BY <1>1, <1>3
  <2> QED
    BY <2>1, PartIs DEF RemovePrefix
<1>5. PICK m : m = Trailing(s, C)
  OBVIOUS
<1>6. m \in 0 .. l
  <2>1. Len(Reverse(s)) = l
    BY <1>1 DEF Reverse
  <2> QED
    BY <1>5, <2>1, LeadingIs DEF Trailing
<1>7. RemoveSuffix(s, m) \in Seq(Char)
  <2>1. 1 \in 1 .. Len(s) + 1 /\ Len(s) - m \in 1 - 1 .. Len(s)
    BY <1>1, <1>6
  <2> QED
    BY <2>1, PartIs DEF RemoveSuffix
<1> QED
  BY <1>2, <1>4, <1>5, <1>7

\* What TitlecaseString puts at place k, v being what stands before it.
Titled(s, delimiters, k, v) ==
  IF k = 1 \/ v[k - 1] \in delimiters THEN toupper(s[k]) ELSE s[k]

Titles(s, delimiters) ==
  CHOOSE t : t = [k \in 0 .. Len(s) |->
                    IF k = 0 THEN <<>>
                    ELSE Append(t[k - 1], Titled(s, delimiters, k, t[k - 1]))]

\* TitlecaseString makes a text.
LEMMA TitlecaseIs ==
  ASSUME NEW s \in Seq(Char), NEW delimiters
  PROVE  TitlecaseString(s, delimiters) \in Seq(Char)
<1>1. PICK n \in Nat : n = Len(s)
  OBVIOUS
<1>2. ASSUME NEW k \in 1 .. n, NEW v PROVE Titled(s, delimiters, k, v) \in Char
  <2>1. s[k] \in Char
    BY <1>1
  <2>2. toupper(s[k]) \in Char
    BY <2>1 DEF toupper, Lowers, Char
  <2> QED
    BY <2>1, <2>2 DEF Titled
<1> DEFINE Step == [k \in 1 .. n |->
                      [v \in Seq(Char) |-> Append(v, Titled(s, delimiters, k, v))]]
<1>3. Step \in [1 .. n -> [Seq(Char) -> Seq(Char)]]
  BY <1>2
<1>4. PICK f \in [0 .. n -> Seq(Char)] :
        f = [k \in 0 .. n |-> IF k = 0 THEN <<>> ELSE Step[k][f[k - 1]]]
  <2>1. <<>> \in Seq(Char)
    OBVIOUS
  <2> HIDE DEF Step
  <2>2. PICK first \in Seq(Char), step \in [1 .. n -> [Seq(Char) -> Seq(Char)]] :
          first = <<>> /\ step = Step
    BY <1>3, <2>1
  <2>3. \E f \in [0 .. n -> Seq(Char)] : Unfolds(f, n, first, step)
    BY Recursion
  <2> QED
    BY <2>2, <2>3 DEF Unfolds
<1>5. f = [k \in 0 .. n |-> IF k = 0 THEN <<>>
                            ELSE Append(f[k - 1], Titled(s, delimiters, k, f[k - 1]))]
  <2>1. ASSUME NEW k \in 0 .. n, k # 0
        PROVE  Step[k][f[k - 1]] = Append(f[k - 1], Titled(s, delimiters, k, f[k - 1]))
    <3>1. k \in 1 .. n /\ k - 1 \in 0 .. n
      BY <2>1
    <3>2. f[k - 1] \in Seq(Char)
      BY <3>1
    <3> QED
      BY <3>1, <3>2
  <2> HIDE DEF Step
  <2> QED
    BY <1>4, <2>1
<1> HIDE DEF Step
<1>6. PICK t : t = Titles(s, delimiters)
  OBVIOUS
<1>7. t = [k \in 0 .. n |-> IF k = 0 THEN <<>>
                            ELSE Append(t[k - 1], Titled(s, delimiters, k, t[k - 1]))]
  BY <1>1, <1>5, <1>6 DEF Titles
<1> DEFINE G == {k \in 0 .. n : t[k] \in Seq(Char)}
<1>8. 0 \in G
  BY <1>7
<1>9. ASSUME NEW k \in 0 .. n - 1, k \in G PROVE k + 1 \in G
  <2>1. k + 1 \in 1 .. n /\ k + 1 \in 0 .. n /\ (k + 1) - 1 = k /\ k + 1 # 0
    OBVIOUS
  <2>2. t[k + 1] = Append(t[k], Titled(s, delimiters, k + 1, t[k]))
    BY <1>7, <2>1
  <2>3. PICK c \in Char : c = Titled(s, delimiters, k + 1, t[k])
    BY <1>2, <2>1
  <2>4. t[k + 1] \in Seq(Char)
    BY <1>9, <2>2, <2>3
  <2> QED
    BY <2>1, <2>4
<1>10. n \in G
  <2> HIDE DEF G
  <2>1. \A k \in 0 .. n : k \in G
    BY <1>8, <1>9, UpTo
  <2> QED
    BY <2>1
<1>11. TitlecaseString(s, delimiters) = Titles(s, delimiters)[Len(s)]
  BY DEF TitlecaseString, Titles, Titled
<1> QED
  BY <1>1, <1>6, <1>10, <1>11

-----------------------------------------------------------------------------
(* NumbersAreExact.                                                         *)

TextType == piece \in Seq(Char)

\* The text is one at first.
LEMMA TextTypeInit == StrUtilInit => TextType
<1> SUFFICES ASSUME StrUtilInit PROVE TextType
  OBVIOUS
<1>1. Alphabet \subseteq Char
  BY AlphabetAssumption DEF Char
<1>2. PICK k \in 0 .. MaxPiece : piece \in [1 .. k -> Alphabet]
  BY DEF StrUtilInit, TextsUpTo
<1>3. k \in Nat
  BY AlphabetAssumption
<1>4. piece \in Seq(Alphabet)
  BY <1>2, <1>3
<1> QED
  BY <1>1, <1>4 DEF TextType

\* No call makes anything but a text of it.
LEMMA TextTypeStep == TextType /\ [StrUtilNext]_strUtilVars => TextType'
<1> SUFFICES ASSUME TextType, [StrUtilNext]_strUtilVars PROVE TextType'
  OBVIOUS
<1>1. \A C : /\ RemovePrefix(piece, Leading(piece, C)) \in Seq(Char)
             /\ RemoveSuffix(piece, Trailing(piece, C)) \in Seq(Char)
  BY Stripped DEF TextType
<1>2. CASE ConsumeLeadingDigits
  BY <1>1, <1>2 DEF ConsumeLeadingDigits, Renew, TextType
<1>3. CASE ConsumeNonWhitespace
  BY <1>1, <1>3 DEF ConsumeNonWhitespace, TokenEnd, TextType
<1>4. CASE RemoveLeadingWhitespace
  BY <1>1, <1>4 DEF RemoveLeadingWhitespace, Strip, TextType
<1>5. CASE RemoveTrailingWhitespace
  BY <1>1, <1>5 DEF RemoveTrailingWhitespace, Strip, TextType
<1>6. CASE RemoveWhitespaceContext
  <2>1. PICK s \in Seq(Char) : s = RemovePrefix(piece, Leading(piece, Spaces))
    BY <1>1
  <2>2. piece' = RemoveSuffix(s, Trailing(s, Spaces))
    BY <1>6, <2>1 DEF RemoveWhitespaceContext, Strip
  <2> QED
    BY <2>2, Stripped DEF TextType
<1>7. ASSUME NEW delims \in Delims, Titlecase(delims) PROVE TextType'
  BY <1>7, TitlecaseIs DEF Titlecase, Renew, TextType
<1>8. ASSUME NEW delims \in Delims, SplitText(delims) PROVE TextType'
  BY <1>8 DEF SplitText, Returns, TextType
<1>9. ASSUME NEW oldsub \in Subs, NEW newsub \in Subs, NEW all \in BOOLEAN,
             Replace(oldsub, newsub, all)
      PROVE  TextType'
  BY <1>9 DEF Replace, Returns, TextType
<1>10. CASE CaseArgDef
  BY <1>10 DEF CaseArgDef, Returns, TextType
<1>11. ASSUME NEW dst \in Subs, Printf(dst) PROVE TextType'
  BY <1>11 DEF Printf, Returns, TextType
<1>12. CASE UNCHANGED strUtilVars
  BY <1>12 DEF strUtilVars, TextType
<1> QED
  BY <1>2, <1>3, <1>4, <1>5, <1>6, <1>7, <1>8, <1>9, <1>10, <1>11, <1>12 DEF StrUtilNext

\* The place that NumbersAreExact looks for is the one that Leading finds.
Digit(s, i) == i \in DOMAIN s /\ s[i] \in Digits
DigitsEnd(s) == CHOOSE n \in 0 .. Len(s) : ~Digit(s, n + 1) /\ \A i \in 1 .. n : Digit(s, i)

\* It is where Leading stops.
LEMMA DigitsEndIs ==
  ASSUME NEW s \in Seq(Char)
  PROVE  DigitsEnd(s) = Leading(s, Digits)
<1>1. PICK l \in Nat : l = Len(s) /\ DOMAIN s = 1 .. l
  OBVIOUS
<1>2. PICK m : m = Leading(s, Digits)
  OBVIOUS
<1>3. /\ m \in 0 .. l /\ (m = l \/ s[m + 1] \notin Digits)
      /\ \A i \in 1 .. m : s[i] \in Digits
  BY <1>1, <1>2, LeadingIs
<1>4. ~Digit(s, m + 1) /\ \A i \in 1 .. m : Digit(s, i)
  BY <1>1, <1>3 DEF Digit
<1>5. ASSUME NEW n \in 0 .. l, ~Digit(s, n + 1), \A i \in 1 .. n : Digit(s, i) PROVE n = m
  <2>1. ~(n < m)
    <3>1. n < m => n + 1 \in 1 .. m
      BY <1>3
    <3> QED
      BY <1>4, <1>5, <3>1
  <2>2. ~(m < n)
    <3>1. m < n => m + 1 \in 1 .. n
      BY <1>3
    <3> QED
      BY <1>4, <1>5, <3>1
  <2> QED
    BY <1>3, <2>1, <2>2
<1> QED
  BY <1>1, <1>2, <1>3, <1>4, <1>5 DEF DigitsEnd

\* What NumbersAreExact says of a call on s.
Exact(s, ok, val, rest) ==
  LET n == DigitsEnd(s)
      number == Decimal(SubSeq(s, 1, n))
  IN /\ ok <=> n > 0 /\ number < Word
     /\ IF ok THEN val = number /\ rest = SubSeq(s, n + 1, Len(s)) ELSE rest = s

\* ConsumeLeadingDigits stores the number that the digits say, and consumes
\* them, or finds that it does not fit, and consumes nothing.
LEMMA DigitsAreExact ==
  ASSUME NEW s \in Seq(Char)
  PROVE  IF IsNumber(s)
         THEN Exact(s, TRUE, Number(s), RemovePrefix(s, Leading(s, Digits)))
         ELSE Exact(s, FALSE, 0, s)
<1>1. PICK l \in Nat : l = Len(s)
  OBVIOUS
<1>2. PICK n : n = Leading(s, Digits)
  OBVIOUS
<1>3. n \in 0 .. l
  BY <1>1, <1>2, LeadingIs
<1>4. PICK q : q = SubSeq(s, 1, n)
  OBVIOUS
<1>5. DOMAIN q = 1 .. n /\ \A k \in 1 .. n : q[k] = s[k]
  <2>1. 1 \in 1 .. Len(s) + 1 /\ n \in 1 - 1 .. Len(s)
    BY <1>1, <1>3
  <2>2. q \in Seq(Char) /\ Len(q) = n - 1 + 1 /\ \A i \in 1 .. n - 1 + 1 : q[i] = s[1 + i - 1]
    BY <1>4, <2>1, PartIs
  <2>3. n - 1 + 1 = n /\ \A i \in 1 .. n : 1 + i - 1 = i
    BY <1>3
  <2> QED
    BY <2>2, <2>3
<1>6. /\ IsNumber(s) <=> n > 0 /\ Decimal(q) < Word
      /\ IsNumber(s) => Number(s) = Decimal(q)
  BY <1>1, <1>2, <1>5, NumberFits
<1>7. DigitsEnd(s) = n
  BY <1>2, DigitsEndIs
<1> QED
  BY <1>2, <1>4, <1>6, <1>7 DEF Exact, RemovePrefix

\* NumbersAreExact with its LETs named.
LEMMA ExactIs ==
  NumbersAreExact <=> (call.op = "digits" => Exact(call.on, call.ok, call.val, piece))
BY Zenon DEF NumbersAreExact, Exact, DigitsEnd, Digit

\* Of all calls only ConsumeLeadingDigits is about numbers.
LEMMA NumbersStep == TextType /\ NumbersAreExact /\ [StrUtilNext]_strUtilVars => NumbersAreExact'
<1> SUFFICES ASSUME TextType, NumbersAreExact, [StrUtilNext]_strUtilVars PROVE NumbersAreExact'
  OBVIOUS
<1>0. NumbersAreExact' <=>
        (call'.op = "digits" => Exact(call'.on, call'.ok, call'.val, piece'))
  BY Zenon DEF NumbersAreExact, Exact, DigitsEnd, Digit
<1>1. CASE ConsumeLeadingDigits
  <2>1. piece \in Seq(Char)
    BY DEF TextType
  <2>2. CASE IsNumber(piece)
    <3>1. /\ piece' = RemovePrefix(piece, Leading(piece, Digits))
          /\ call' = Called("digits", <<>>, TRUE, Number(piece))
      BY <1>1, <2>2 DEF ConsumeLeadingDigits, Renew
    <3>2. call'.on = piece /\ call'.ok = TRUE /\ call'.val = Number(piece)
      BY <3>1 DEF Called
    <3> QED
      BY <1>0, <2>1, <2>2, <3>1, <3>2, DigitsAreExact
  <2>3. CASE ~IsNumber(piece)
    <3>1. piece' = piece /\ call' = Called("digits", <<>>, FALSE, 0)
      BY <1>1, <2>3 DEF ConsumeLeadingDigits
    <3>2. call'.on = piece /\ call'.ok = FALSE /\ call'.val = 0
      BY <3>1 DEF Called
    <3> QED
      BY <1>0, <2>1, <2>3, <3>1, <3>2, DigitsAreExact
  <2> QED
    BY <2>2, <2>3
<1>2. ASSUME NEW op, NEW args, NEW ok, NEW val, call' = Called(op, args, ok, val), op # "digits"
      PROVE  NumbersAreExact'
  <2>1. call'.op = op
    BY <1>2 DEF Called
  <2> QED
    BY <1>0, <1>2, <2>1
<1>4. CASE ConsumeNonWhitespace
  <2>1. \E val : call' = Called("token", <<>>, TokenEnd > 0, val)
    BY <1>4 DEF ConsumeNonWhitespace
  <2> QED
    BY <1>2, <2>1
<1>5. CASE RemoveLeadingWhitespace \/ RemoveTrailingWhitespace \/ RemoveWhitespaceContext
  <2>1. \E op \in {"leading", "trailing", "context"} : \E val : call' = Called(op, <<>>, TRUE, val)
    BY <1>5 DEF RemoveLeadingWhitespace, RemoveTrailingWhitespace, RemoveWhitespaceContext, Strip
  <2>2. \A op \in {"leading", "trailing", "context"} : op # "digits"
    OBVIOUS
  <2> QED
    BY <1>2, <2>1, <2>2
<1>6. ASSUME NEW delims \in Delims, Titlecase(delims) PROVE NumbersAreExact'
  <2>1. \E val : call' = Called("title", delims, TRUE, val)
    BY <1>6 DEF Titlecase
  <2> QED
    BY <1>2, <2>1
<1>7. ASSUME NEW delims \in Delims, SplitText(delims) PROVE NumbersAreExact'
  <2>1. \E op \in {"split"} \cup Predicates : \E val : call' = Called(op, delims, TRUE, val)
    BY <1>7 DEF SplitText, Returns
  <2>2. \A op \in {"split"} \cup Predicates : op # "digits"
    BY DEF Predicates
  <2> QED
    BY <1>2, <2>1, <2>2
<1>8. ASSUME NEW oldsub \in Subs, NEW newsub \in Subs, NEW all \in BOOLEAN,
             Replace(oldsub, newsub, all)
      PROVE  NumbersAreExact'
  <2>1. \E args, val : call' = Called("replace", args, TRUE, val)
    BY <1>8 DEF Replace, Returns
  <2> QED
    BY <1>2, <2>1
<1>9. CASE CaseArgDef
  <2>1. \E val : call' = Called("argdef", <<>>, TRUE, val)
    BY <1>9 DEF CaseArgDef, Returns
  <2> QED
    BY <1>2, <2>1
<1>10. ASSUME NEW dst \in Subs, Printf(dst) PROVE NumbersAreExact'
  <2>1. \E ok, val : call' = Called("printf", dst, ok, val)
    BY <1>10 DEF Printf, Returns
  <2> QED
    BY <1>2, <2>1
<1>11. CASE UNCHANGED strUtilVars
  BY <1>0, <1>11, ExactIs DEF strUtilVars
<1> QED
  BY <1>1, <1>4, <1>5, <1>6, <1>7, <1>8, <1>9, <1>10, <1>11 DEF StrUtilNext

\* At every width of at least 16 values, for any texts and whatever else is done
\* to them before: ConsumeLeadingDigits takes all leading digits and stores
\* exactly their number, or, just when there is none or it does not fit, takes
\* nothing.
THEOREM NumbersInvariance == StrUtilSpec => []NumbersAreExact
<1>1. StrUtilInit => NumbersAreExact
  <2>1. StrUtilInit => call.op = "none"
    BY DEF StrUtilInit, Called
  <2> QED
    BY <2>1, ExactIs
<1> QED
  BY <1>1, TextTypeInit, TextTypeStep, NumbersStep, PTL DEF StrUtilSpec

-----------------------------------------------------------------------------
(* ArgDefCase.                                                              *)

Code == Lowers \cup Digits \cup {Underscore}

\* What is written for a character, and that writing it twice changes nothing.
LEMMA WrittenIs ==
  /\ \A c \in Char : Written(c) \in Code /\ (Written(c) # Underscore <=> c \in Alnums)
  /\ \A c \in Alphas : Written(c) \in Lowers
  /\ \A c \in Code : Written(c) = c /\ c \in Char /\ c \notin Uppers
BY DEF Written, Code, Char, Alnums, Alphas, Lowers, Uppers, Digits, Underscore, tolower

\* ArgDefCase begins with a letter, if there is one.
LEMMA SkipIs ==
  ASSUME NEW s \in Seq(Char), NEW l \in Nat, l = Len(s), NEW n, n = ToSkip(s)
  PROVE  n \in 0 .. l /\ (n # l => s[n + 1] \in Alphas)
<1>1. n \in 0 .. l /\ (n = l \/ s[n + 1] \notin (0 .. 127) \ Alphas)
  BY LeadingIs DEF ToSkip
<1>2. ASSUME n # l PROVE s[n + 1] \in 0 .. 127
  <2>1. n \in 0 .. l /\ l \in Nat /\ n # l
    BY <1>1, <1>2
  <2>2. n + 1 \in 1 .. l
    BY ONLY <2>1
  <2>3. s[n + 1] \in Char
    BY <2>2
  <2> QED
    BY <2>3 DEF Char
<1> QED
  BY <1>1, <1>2

\* How far the second pass goes for a character.
Doubled(s, i) == s[i] \in Uppers /\ i # ToSkip(s) + 1 /\ Written(s[i - 1]) # Underscore
Advance(s, i) == IF Doubled(s, i) THEN 2 ELSE 1

\* The places that it goes through exist, each computed from the one before.
LEMMA PlacesAre ==
  ASSUME NEW s, NEW l \in Nat, l = Len(s), NEW n \in 0 .. l, n = ToSkip(s)
  PROVE  /\ Places(s)[n] = 0
         /\ \A i \in n + 1 .. l : Places(s)[i] = Places(s)[i - 1] + Advance(s, i)
<1>1. PICK d \in Nat : d = l - n
  OBVIOUS
<1> DEFINE Step == [k \in 1 .. d |-> [v \in Nat |-> v + Advance(s, n + k)]]
<1>2. Step \in [1 .. d -> [Nat -> Nat]]
  BY DEF Advance
<1>3. PICK f \in [0 .. d -> Nat] : f = [k \in 0 .. d |-> IF k = 0 THEN 0 ELSE Step[k][f[k - 1]]]
  <2> HIDE DEF Step
  <2>1. PICK first \in Nat, step \in [1 .. d -> [Nat -> Nat]] : first = 0 /\ step = Step
    BY <1>2
  <2>2. \E f \in [0 .. d -> Nat] : Unfolds(f, d, first, step)
    BY Recursion
  <2> QED
    BY <2>1, <2>2 DEF Unfolds
<1>4. f[0] = 0 /\ \A k \in 1 .. d : f[k] = f[k - 1] + Advance(s, n + k)
  <2>1. ASSUME NEW k \in 1 .. d PROVE f[k] = f[k - 1] + Advance(s, n + k)
    <3>1. k \in 0 .. d /\ k # 0 /\ k - 1 \in 0 .. d
      OBVIOUS
    <3>2. f[k - 1] \in Nat
      BY <3>1
    <3>3. Step[k][f[k - 1]] = f[k - 1] + Advance(s, n + k)
      BY <3>2
    <3> HIDE DEF Step
    <3> QED
      BY <1>3, <3>1, <3>3
  <2>2. 0 \in 0 .. d
    OBVIOUS
  <2> HIDE DEF Step
  <2> QED
    BY <1>3, <2>1, <2>2
<1> HIDE DEF Step
<1>5. PICK g : g = [i \in n .. l |-> f[i - n]]
  OBVIOUS
<1>6. g[n] = 0 /\ \A i \in n + 1 .. l : g[i] = g[i - 1] + Advance(s, i)
  <2>1. ASSUME NEW i \in n + 1 .. l PROVE g[i] = g[i - 1] + Advance(s, i)
    <3>1. i \in n .. l /\ i - 1 \in n .. l
      OBVIOUS
    <3>2. PICK k \in 1 .. d : k = i - n /\ k - 1 = (i - 1) - n /\ n + k = i
      <4>1. n \in Int /\ i \in Int /\ l \in Int /\ n + 1 <= i /\ i <= l
        OBVIOUS
      <4>2. i - n \in 1 .. d /\ (i - n) - 1 = (i - 1) - n /\ n + (i - n) = i
        BY ONLY <1>1, <4>1
      <4> QED
        BY <4>2
    <3> QED
      BY <1>4, <1>5, <3>1, <3>2
  <2>2. n \in n .. l /\ n - n = 0
    OBVIOUS
  <2> QED
    BY <1>4, <1>5, <2>1, <2>2
<1>7. g = [i \in n .. l |->
             IF i = n THEN 0 ELSE IF Doubled(s, i) THEN g[i - 1] + 2 ELSE g[i - 1] + 1]
  <2>1. \A i \in n .. l :
          g[i] = IF i = n THEN 0 ELSE IF Doubled(s, i) THEN g[i - 1] + 2 ELSE g[i - 1] + 1
    <3> SUFFICES ASSUME NEW i \in n .. l, i # n
                 PROVE  g[i] = IF Doubled(s, i) THEN g[i - 1] + 2 ELSE g[i - 1] + 1
      BY <1>6
    <3>1. i \in n + 1 .. l
      OBVIOUS
    <3>2. g[i] = g[i - 1] + Advance(s, i)
      BY <1>6, <3>1
    <3> QED
      BY <3>2 DEF Advance
  <2> QED
    BY <1>5, <2>1
<1>8. Places(s) = [i \in n .. l |->
        IF i = n THEN 0 ELSE IF Doubled(s, i) THEN Places(s)[i - 1] + 2 ELSE Places(s)[i - 1] + 1]
  BY <1>7 DEF Places, Doubled
<1>9. ASSUME NEW i \in n + 1 .. l PROVE Places(s)[i] = Places(s)[i - 1] + Advance(s, i)
  <2>1. i \in n .. l /\ i # n
    OBVIOUS
  <2>2. Places(s)[i] = IF Doubled(s, i) THEN Places(s)[i - 1] + 2 ELSE Places(s)[i - 1] + 1
    BY <1>8, <2>1
  <2> QED
    BY <2>2 DEF Advance
<1>10. n \in n .. l
  OBVIOUS
<1> QED
  BY <1>8, <1>9, <1>10

\* The underscores counted up to place i.
CountedTo(s, i) == {k \in ExtraUnderscores(s) : k <= i}

\* Both passes agree at every character: each has its own place and one for
\* every underscore so far.
LEMMA PlacesCount ==
  ASSUME NEW s \in Seq(Char), NEW l \in Nat, l = Len(s), NEW n, n = ToSkip(s)
  PROVE  \A i \in n .. l : /\ Cardinality(CountedTo(s, i)) \in Nat
                           /\ Places(s)[i] = i - n + Cardinality(CountedTo(s, i))
<1>1. n \in 0 .. l
  BY SkipIs
<1>2. PICK d \in Nat : d = l - n
  BY <1>1
<1>3. PICK p : p = Places(s)
  OBVIOUS
<1>4. p[n] = 0 /\ \A i \in n + 1 .. l : p[i] = p[i - 1] + Advance(s, i)
  BY <1>1, <1>3, PlacesAre
<1>5. ASSUME NEW i \in n .. l PROVE IsFiniteSet(CountedTo(s, i)) /\ Cardinality(CountedTo(s, i)) \in Nat
  <2>1. CountedTo(s, i) \subseteq 0 .. l
    BY <1>1 DEF CountedTo, ExtraUnderscores
  <2>2. IsFiniteSet(0 .. l)
    BY FS_Interval
  <2>3. IsFiniteSet(CountedTo(s, i))
    BY <2>1, <2>2, FS_Subset
  <2> QED
    BY <2>3, FS_CardinalityType
<1>6. ASSUME NEW i \in n + 1 .. l PROVE i \in ExtraUnderscores(s) <=> Doubled(s, i)
  <2>1. CASE i = n + 1
    BY <1>1, <2>1 DEF ExtraUnderscores, Doubled
  <2>2. CASE i # n + 1
    <3>1. i \in n + 2 .. l /\ i - 1 \in 1 .. l
      BY <1>1, <2>2
    <3>2. s[i - 1] \in Char
      BY <3>1
    <3>3. Written(s[i - 1]) # Underscore <=> s[i - 1] \in Alnums
      BY <3>2, WrittenIs
    <3> QED
      BY <2>2, <3>1, <3>3 DEF ExtraUnderscores, Doubled
  <2> QED
    BY <2>1, <2>2
<1>7. ASSUME NEW i \in n + 1 .. l
      PROVE  Cardinality(CountedTo(s, i)) + 1 = Cardinality(CountedTo(s, i - 1)) + Advance(s, i)
  <2>1. i - 1 \in n .. l /\ i \notin CountedTo(s, i - 1)
    BY <1>1 DEF CountedTo
  <2>2. PICK A : A = CountedTo(s, i - 1)
    OBVIOUS
  <2>3. IsFiniteSet(A) /\ Cardinality(A) \in Nat /\ i \notin A
    BY <1>5, <2>1, <2>2
  <2>4. \A k \in ExtraUnderscores(s) : k \in Int
    BY <1>1 DEF ExtraUnderscores
  <2>5. CASE Doubled(s, i)
    <3>1. CountedTo(s, i) = A \cup {i}
      BY <1>1, <1>6, <2>2, <2>4, <2>5 DEF CountedTo
    <3>2. Cardinality(A \cup {i}) = Cardinality(A) + 1
      BY <2>3, FS_AddElement
    <3> QED
      BY <2>2, <2>3, <2>5, <3>1, <3>2 DEF Advance
  <2>6. CASE ~Doubled(s, i)
    <3>1. CountedTo(s, i) = A
      BY <1>1, <1>6, <2>2, <2>4, <2>6 DEF CountedTo
    <3> QED
      BY <2>2, <2>3, <2>6, <3>1 DEF Advance
  <2> QED
    BY <2>5, <2>6
<1>8. Cardinality(CountedTo(s, n)) = 0
  <2>1. CountedTo(s, n) = {}
    BY <1>1 DEF CountedTo, ExtraUnderscores
  <2> QED
    BY <2>1, FS_EmptySet
<1> DEFINE G == {k \in 0 .. d : p[n + k] = k + Cardinality(CountedTo(s, n + k))}
<1>9. 0 \in G
  <2>1. n + 0 = n
    BY <1>1
  <2> QED
    BY <1>4, <1>8, <2>1
<1>10. ASSUME NEW k \in 0 .. d - 1, k \in G PROVE k + 1 \in G
  <2>1. PICK i \in n + 1 .. l : i = n + (k + 1) /\ i - 1 = n + k
    <3>1. n \in Int /\ l \in Int /\ k \in Int /\ 0 <= k /\ k <= d - 1
      BY <1>1, <1>2
    <3>2. n + (k + 1) \in n + 1 .. l /\ (n + (k + 1)) - 1 = n + k
      BY ONLY <1>2, <3>1
    <3> QED
      BY <3>2
  <2>2. i - 1 \in n .. l /\ i \in n .. l
    BY <1>1, <2>1
  <2>3. PICK a \in Nat : a = Cardinality(CountedTo(s, i))
    BY <1>5, <2>2
  <2>4. PICK b \in Nat : b = Cardinality(CountedTo(s, i - 1))
    BY <1>5, <2>2
  <2>5. a + 1 = b + Advance(s, i)
    BY <1>7, <2>3, <2>4
  <2>6. p[i - 1] = k + b
    BY <1>10, <2>1, <2>4
  <2>7. p[i] = p[i - 1] + Advance(s, i)
    BY <1>4
  <2>8. Advance(s, i) \in Nat
    BY DEF Advance
  <2>9. p[i] = (k + 1) + a
    BY <2>5, <2>6, <2>7, <2>8
  <2>10. k + 1 \in 0 .. d
    OBVIOUS
  <2> QED
    BY <2>1, <2>3, <2>9, <2>10
<1>11. \A k \in 0 .. d : p[n + k] = k + Cardinality(CountedTo(s, n + k))
  <2> HIDE DEF G
  <2>1. \A k \in 0 .. d : k \in G
    BY <1>9, <1>10, UpTo
  <2> QED
    BY <2>1 DEF G
<1>12. ASSUME NEW i \in n .. l PROVE p[i] = i - n + Cardinality(CountedTo(s, i))
  <2>1. PICK k \in 0 .. d : k = i - n /\ n + k = i
    BY <1>1, <1>2
  <2> QED
    BY <1>11, <2>1
<1> QED
  BY <1>3, <1>5, <1>12

\* What ArgDefCase returns: letters, digits and underscores, a letter first; as
\* many as the first pass has counted.
LEMMA ArgDefIs ==
  ASSUME NEW s \in Seq(Char), NEW l \in Nat, l = Len(s), NEW n, n = ToSkip(s),
         NEW r, r = ArgDefCase(s)
  PROVE  /\ Places(s)[l] = ArgDefSize(s)
         /\ r \in Seq(Code) /\ Len(r) = ArgDefSize(s)
         /\ Len(r) > 0 => r[1] \in Lowers
<1>1. n \in 0 .. l /\ (n # l => s[n + 1] \in Alphas)
  BY SkipIs
<1>2. PICK p : p = Places(s)
  OBVIOUS
<1>3. \A i \in n .. l : /\ Cardinality(CountedTo(s, i)) \in Nat
                        /\ p[i] = i - n + Cardinality(CountedTo(s, i))
  BY <1>2, PlacesCount
<1>4. PICK z \in Nat : z = Cardinality(ExtraUnderscores(s)) /\ p[l] = l - n + z
  <2>1. CountedTo(s, l) = ExtraUnderscores(s)
    BY <1>1 DEF CountedTo, ExtraUnderscores
  <2>2. l \in n .. l
    BY <1>1
  <2> QED
    BY <1>3, <2>1, <2>2
<1>5. PICK k \in Nat : k = ArgDefSize(s) /\ k = l - n + z
  BY <1>1, <1>4 DEF ArgDefSize
<1> DEFINE Here(j) == {i \in n + 1 .. l : p[i] = j}
<1>6. r = [j \in 1 .. k |-> IF Here(j) = {} THEN Underscore ELSE Written(s[Min(Here(j))])]
  BY <1>2, <1>5 DEF ArgDefCase
<1>7. ASSUME NEW j, Here(j) # {} PROVE Min(Here(j)) \in Here(j)
  <2>1. Here(j) \in SUBSET Nat
    BY <1>1
  <2> HIDE DEF Here
  <2> QED
    BY <1>7, <2>1, MinIsLeast
<1>8. ASSUME NEW j \in 1 .. k PROVE r[j] \in Code
  <2>1. CASE Here(j) = {}
    BY <1>6, <2>1 DEF Code
  <2>2. CASE Here(j) # {}
    <3>1. PICK i : i = Min(Here(j))
      OBVIOUS
    <3>2. i \in Here(j)
      BY <1>7, <2>2, <3>1
    <3>3. i \in 1 .. Len(s)
      BY <1>1, <3>2
    <3>4. Written(s[i]) \in Code
      BY <3>3, WrittenIs
    <3> HIDE DEF Here
    <3> QED
      BY <1>6, <2>2, <3>1, <3>4
  <2> QED
    BY <2>1, <2>2
<1>9. r \in Seq(Code) /\ Len(r) = k
  <2>1. r \in [1 .. k -> Code]
    <3> HIDE DEF Here
    <3> QED
      BY <1>6, <1>8
  <2> QED
    BY <2>1, IsASeq
<1>10. ASSUME k > 0 PROVE r[1] \in Lowers
  <2>1. n # l
    <3> SUFFICES ASSUME n = l PROVE FALSE
      OBVIOUS
    <3>1. ExtraUnderscores(s) = {}
      BY <1>1 DEF ExtraUnderscores
    <3>2. z = 0
      BY <1>4, <3>1, FS_EmptySet
    <3> QED
      BY <1>5, <1>10, <3>2
  <2>2. n + 1 \in n + 1 .. l
    BY <1>1, <2>1
  <2>3. p[n + 1] = 1
    <3>1. CountedTo(s, n + 1) = {}
      BY <1>1 DEF CountedTo, ExtraUnderscores
    <3>2. Cardinality(CountedTo(s, n + 1)) = 0
      BY <3>1, FS_EmptySet
    <3>3. n + 1 \in n .. l
      BY <1>1, <2>2
    <3>4. p[n + 1] = (n + 1) - n + 0
      BY <1>3, <3>2, <3>3
    <3> QED
      BY <1>1, <3>4
  <2>4. ASSUME NEW i \in n + 1 .. l, i # n + 1 PROVE p[i] # 1
    <3>1. i \in n .. l
      BY <1>1
    <3>2. PICK c \in Nat : p[i] = i - n + c
      BY <1>3, <3>1
    <3> QED
      BY <1>1, <2>4, <3>2
  <2>5. Here(1) = {n + 1}
    BY <2>2, <2>3, <2>4
  <2>6. Min(Here(1)) = n + 1
    <3>1. Here(1) # {}
      BY <2>5
    <3>2. Min(Here(1)) \in Here(1)
      BY <1>7, <3>1
    <3> QED
      BY <2>5, <3>2
  <2>7. 1 \in 1 .. k
    BY <1>10
  <2>8. r[1] = Written(s[n + 1])
    <3>1. Here(1) # {}
      BY <2>5
    <3> HIDE DEF Here
    <3> QED
      BY <1>6, <2>6, <2>7, <3>1
  <2> QED
    BY <1>1, <2>1, <2>8, WrittenIs
<1> QED
  BY <1>2, <1>4, <1>5, <1>9, <1>10

\* Such a text is its own ArgDefCase.
LEMMA ArgDefTwice ==
  ASSUME NEW r \in Seq(Code), Len(r) > 0 => r[1] \in Lowers
  PROVE  ArgDefCase(r) = r
<1>1. PICK l \in Nat : l = Len(r)
  OBVIOUS
<1>2. \A i \in 1 .. l : r[i] \in Code
  BY <1>1
<1>3. Code \subseteq Char
  BY WrittenIs
<1>4. r \in Seq(Char)
  BY <1>3
<1>5. PICK n : n = ToSkip(r)
  OBVIOUS
<1>6. n = 0
  <2>1. n \in 0 .. l /\ \A i \in 1 .. n : r[i] \in (0 .. 127) \ Alphas
    <3>1. PICK C : C = (0 .. 127) \ Alphas
      OBVIOUS
    <3>2. n = Leading(r, C) /\ Len(r) = l
      BY <1>1, <1>5, <3>1 DEF ToSkip
    <3>3. n \in 0 .. l /\ \A i \in 1 .. n : r[i] \in C
      BY ONLY l \in Nat, <3>2, LeadingIs
    <3> QED
      BY <3>1, <3>3
  <2>2. n > 0 => 1 \in 1 .. n /\ r[1] \in Lowers
    BY <1>1, <2>1
  <2>3. Lowers \subseteq Alphas
    BY DEF Alphas
  <2> QED
    BY <2>1, <2>2, <2>3
<1>7. ExtraUnderscores(r) = {}
  <2>1. \A i \in ToSkip(r) + 2 .. Len(r) : i \in 1 .. l
    BY <1>1, <1>5, <1>6
  <2>2. \A i \in 1 .. l : r[i] \notin Uppers
    BY <1>2, WrittenIs
  <2> QED
    BY <2>1, <2>2 DEF ExtraUnderscores
<1>8. ArgDefSize(r) = l
  BY <1>1, <1>5, <1>6, <1>7, FS_EmptySet DEF ArgDefSize
<1>9. PICK p : p = Places(r)
  OBVIOUS
<1>10. \A i \in 0 .. l : p[i] = i
  <2> SUFFICES ASSUME NEW i \in 0 .. l PROVE p[i] = i
    OBVIOUS
  <2>1. CountedTo(r, i) = {}
    BY <1>7 DEF CountedTo
  <2>2. Cardinality(CountedTo(r, i)) = 0
    BY <2>1, FS_EmptySet
  <2>3. \A j \in n .. l : p[j] = j - n + Cardinality(CountedTo(r, j))
    BY <1>1, <1>4, <1>5, <1>9, PlacesCount
  <2>4. i \in n .. l
    BY <1>6
  <2>5. p[i] = i - n + Cardinality(CountedTo(r, i))
    BY <2>3, <2>4
  <2> QED
    BY <1>6, <2>2, <2>5
<1> DEFINE Here(j) == {i \in n + 1 .. l : p[i] = j}
<1>11. ArgDefCase(r) = [j \in 1 .. l |-> IF Here(j) = {} THEN Underscore ELSE Written(r[Min(Here(j))])]
  BY <1>1, <1>5, <1>8, <1>9 DEF ArgDefCase
<1>12. ASSUME NEW j \in 1 .. l
       PROVE  (IF Here(j) = {} THEN Underscore ELSE Written(r[Min(Here(j))])) = r[j]
  <2>1. Here(j) = {j}
    <3>1. \A i \in n + 1 .. l : i \in 0 .. l
      BY <1>6
    <3>2. j \in n + 1 .. l /\ j \in 0 .. l
      BY <1>6
    <3> QED
      BY <1>10, <3>1, <3>2
  <2>2. Min(Here(j)) = j
    <3>1. {j} \in SUBSET Nat /\ {j} # {}
      OBVIOUS
    <3>2. Min({j}) \in {j}
      BY <3>1, MinIsLeast
    <3> QED
      BY <2>1, <3>2
  <2>3. Written(r[j]) = r[j]
    BY <1>2, WrittenIs
  <2>4. Here(j) # {}
    BY <2>1
  <2> HIDE DEF Here
  <2> QED
    BY <2>2, <2>3, <2>4
<1>13. r = [j \in 1 .. l |-> r[j]]
  BY <1>1
<1> HIDE DEF Here
<1> QED
  BY <1>11, <1>12, <1>13

\* Every call leaves a record of its own; CaseArgDef and Printf, of what they
\* have computed from the text as it was.
Recorded(op, args, ok, val) ==
  /\ call' = Called(op, args, ok, val)
  /\ op = "argdef" => val = ArgDefCase(piece)
  /\ op = "printf" => val = IF ok THEN Appendv(args, piece) ELSE args
  /\ op = "replace" => \E old, new \in Subs, all \in BOOLEAN :
                         args = <<old, new, all>> /\ val = StringReplace(piece, old, new, all)
  /\ op = "split" => args \in Delims /\ val = Split(piece, args)

LEMMA CallIsRecorded ==
  ASSUME StrUtilNext PROVE \E op, args, ok, val : Recorded(op, args, ok, val)
<1>1. ASSUME NEW op, NEW args, NEW ok, NEW val, call' = Called(op, args, ok, val),
             op \notin {"argdef", "printf", "replace", "split"}
      PROVE  Recorded(op, args, ok, val)
  BY <1>1 DEF Recorded
<1>2. CASE ConsumeLeadingDigits
  <2>1. \E ok, val : call' = Called("digits", <<>>, ok, val)
    BY <1>2 DEF ConsumeLeadingDigits
  <2> QED
    BY <1>1, <2>1
<1>3. CASE ConsumeNonWhitespace
  <2>1. \E ok, val : call' = Called("token", <<>>, ok, val)
    BY <1>3 DEF ConsumeNonWhitespace
  <2> QED
    BY <1>1, <2>1
<1>4. CASE RemoveLeadingWhitespace \/ RemoveTrailingWhitespace \/ RemoveWhitespaceContext
  <2>1. \E op \in {"leading", "trailing", "context"} : \E val : call' = Called(op, <<>>, TRUE, val)
    BY <1>4 DEF RemoveLeadingWhitespace, RemoveTrailingWhitespace, RemoveWhitespaceContext, Strip
  <2>2. \A op \in {"leading", "trailing", "context"} : op \notin {"argdef", "printf", "replace", "split"}
    OBVIOUS
  <2> QED
    BY <1>1, <2>1, <2>2
<1>5. ASSUME NEW delims \in Delims, Titlecase(delims) \/ SplitText(delims)
      PROVE  \E op, args, ok, val : Recorded(op, args, ok, val)
  <2>1. CASE Returns("split", delims, Split(piece, delims))
    <3>1. Recorded("split", delims, TRUE, Split(piece, delims))
      BY <2>1 DEF Returns, Recorded
    <3> QED
      BY <3>1
  <2>2. CASE ~Returns("split", delims, Split(piece, delims))
    <3>1. \E op \in {"title"} \cup Predicates : \E val : call' = Called(op, delims, TRUE, val)
      BY <1>5, <2>2 DEF Titlecase, SplitText, Returns
    <3>2. \A op \in {"title"} \cup Predicates : op \notin {"argdef", "printf", "replace", "split"}
      BY DEF Predicates
    <3> QED
      BY <1>1, <3>1, <3>2
  <2> QED
    BY <2>1, <2>2
<1>6. ASSUME NEW oldsub \in Subs, NEW newsub \in Subs, NEW all \in BOOLEAN,
             Replace(oldsub, newsub, all)
      PROVE  \E op, args, ok, val : Recorded(op, args, ok, val)
  <2>1. Recorded("replace", <<oldsub, newsub, all>>, TRUE, StringReplace(piece, oldsub, newsub, all))
    BY <1>6 DEF Replace, Returns, Recorded
  <2> QED
    BY <2>1
<1>7. CASE CaseArgDef
  <2>1. Recorded("argdef", <<>>, TRUE, ArgDefCase(piece))
    BY <1>7 DEF CaseArgDef, Returns, Recorded
  <2> QED
    BY <2>1
<1>8. ASSUME NEW dst \in Subs, Printf(dst)
      PROVE  \E op, args, ok, val : Recorded(op, args, ok, val)
  <2>1. CASE Returns("printf", dst, Appendv(dst, piece))
    <3>1. Recorded("printf", dst, TRUE, Appendv(dst, piece))
      BY <2>1 DEF Returns, Recorded
    <3> QED
      BY <3>1
  <2>2. CASE call' = Called("printf", dst, FALSE, dst)
    <3>1. Recorded("printf", dst, FALSE, dst)
      BY <2>2 DEF Recorded
    <3> QED
      BY <3>1
  <2> QED
    BY <1>8, <2>1, <2>2 DEF Printf
<1> QED
  BY <1>2, <1>3, <1>4, <1>5, <1>6, <1>7, <1>8 DEF StrUtilNext

\* What ArgDefCase was called on and what it returned.
CasedOnce == call.op = "argdef" => call.on \in Seq(Char) /\ call.val = ArgDefCase(call.on)

LEMMA CasedStep == TextType /\ CasedOnce /\ [StrUtilNext]_strUtilVars => CasedOnce'
<1>1. CASE UNCHANGED strUtilVars
  BY <1>1 DEF CasedOnce, strUtilVars
<1>2. ASSUME TextType, StrUtilNext PROVE CasedOnce'
  <2>1. PICK op, args, ok, val : Recorded(op, args, ok, val)
    BY <1>2, CallIsRecorded
  <2>2. call'.op = op /\ call'.on = piece /\ call'.val = val
    BY <2>1 DEF Recorded, Called
  <2>3. op = "argdef" => val = ArgDefCase(piece)
    BY <2>1 DEF Recorded
  <2> QED
    BY <1>2, <2>2, <2>3 DEF CasedOnce, TextType
<1> QED
  BY <1>1, <1>2

\* What was cased once is what ArgDefCaseInv says of it.
LEMMA CasedWell == CasedOnce => ArgDefCaseInv
<1> SUFFICES ASSUME call.op = "argdef", NEW s \in Seq(Char), call.on = s,
                    NEW r, r = ArgDefCase(s), call.val = r
             PROVE  ArgDefCaseInv
  BY DEF CasedOnce, ArgDefCaseInv
<1>1. PICK l \in Nat : l = Len(s)
  OBVIOUS
<1>2. /\ Places(s)[l] = ArgDefSize(s)
      /\ r \in Seq(Code) /\ (Len(r) > 0 => r[1] \in Lowers)
  BY <1>1, ArgDefIs
<1>3. Range(r) \subseteq Code
  BY <1>2 DEF Range
<1>4. ArgDefCase(r) = r
  BY <1>2, ArgDefTwice
<1>5. r # <<>> => r[1] \in Lowers
  BY <1>2
<1> QED
  BY <1>1, <1>2, <1>3, <1>4, <1>5 DEF ArgDefCaseInv, Code, Digits

\* Of any text ArgDefCase's second pass writes exactly as many characters as its
\* first pass has counted, so it stays in the string that it has made; they are
\* lower-case letters, digits and underscores, a letter first, and casing them
\* again changes nothing.
THEOREM ArgDefCaseInvariance == StrUtilSpec => []ArgDefCaseInv
<1>1. StrUtilInit => CasedOnce
  BY DEF StrUtilInit, Called, CasedOnce
<1> QED
  BY <1>1, TextTypeInit, TextTypeStep, CasedStep, CasedWell, PTL DEF StrUtilSpec

-----------------------------------------------------------------------------
(* Appendv and Printf.                                                      *)

\* Whether or not it fits into space, all of the output is appended.
LEMMA AppendvIs ==
  ASSUME NEW output \in Seq(Char), NEW dst
  PROVE  Appendv(dst, output) = dst \o output
<1>1. PICK l \in Nat : l = Len(output)
  OBVIOUS
<1>2. SpaceLength \in Nat \ {0}
  BY SpaceAssumption
<1>3. ASSUME NEW n \in Nat, l < n PROVE SubSeq(vsnprintf(n, output), 1, l) = output
  <2>1. SubSeq(output, 1, l) = output
    BY <1>1
  <2>2. vsnprintf(n, output) = Append(output, EndOfText)
    BY <1>1, <1>3, <2>1 DEF vsnprintf
  <2>3. EndOfText \in Char
    BY DEF EndOfText, Char
  <2>4. SubSeq(Append(output, EndOfText), 1, l) = output
    BY <1>1, <2>3
  <2> QED
    BY <2>2, <2>4
<1>4. CASE l < SpaceLength
  BY <1>1, <1>2, <1>3, <1>4 DEF Appendv
<1>5. CASE ~(l < SpaceLength)
  BY <1>1, <1>3, <1>5 DEF Appendv
<1> QED
  BY <1>4, <1>5

\* Whatever is printed, and wherever the size of the buffer on the stack lies,
\* Printf and Appendf append the whole output or, if vsnprintf fails, nothing.
THEOREM OutputIsWhole == StrUtilSpec => []WholeOutput
<1>1. StrUtilInit => WholeOutput
  BY DEF StrUtilInit, Called, WholeOutput
<1>2. TextType /\ WholeOutput /\ [StrUtilNext]_strUtilVars => WholeOutput'
  <2>1. CASE UNCHANGED strUtilVars
    BY <2>1 DEF WholeOutput, strUtilVars
  <2>2. ASSUME TextType, StrUtilNext PROVE WholeOutput'
    <3>1. PICK op, args, ok, val : Recorded(op, args, ok, val)
      BY <2>2, CallIsRecorded
    <3>2. call'.op = op /\ call'.on = piece /\ call'.args = args /\ call'.ok = ok /\ call'.val = val
      BY <3>1 DEF Recorded, Called
    <3>3. op = "printf" => val = IF ok THEN args \o piece ELSE args
      BY <2>2, <3>1, AppendvIs DEF Recorded, TextType
    <3> QED
      BY <3>2, <3>3 DEF WholeOutput
  <2> QED
    BY <2>1, <2>2
<1> QED
  BY <1>1, <1>2, TextTypeInit, TextTypeStep, PTL DEF StrUtilSpec

-----------------------------------------------------------------------------
(* Texts with marks, and what stands for each mark.                         *)

\* A sign that is neither a character nor Fresh, and all of them.
Other == CHOOSE m : m \notin Nat \cup {Fresh}
Sign == Nat \cup {Fresh, Other}

LEMMA OtherIsNew == Other \notin Nat \cup {Fresh}
<1> DEFINE S == Nat \cup {Fresh}
           R == {x \in S : x \notin x}
<1>1. R \notin S
  OBVIOUS
<1> HIDE DEF R
<1>2. \E m : m \notin S
  BY <1>1
<1> HIDE DEF S
<1>3. (CHOOSE m : m \notin S) \notin S
  BY <1>2
<1> QED
  BY <1>3 DEF Other, S

\* Induction over texts, for a property given as the set G of those that have it.
LEMMA TextInduction ==
  ASSUME NEW G, <<>> \in G, \A u \in Seq(Sign), c \in Sign : u \in G => Append(u, c) \in G
  PROVE  \A u \in Seq(Sign) : u \in G
<1> SUFFICES ASSUME NEW w \in Seq(Sign) PROVE w \in G
  OBVIOUS
<1>1. PICK n \in Nat : n = Len(w)
  OBVIOUS
<1> DEFINE H == {k \in 0 .. n : \A u \in Seq(Sign) : Len(u) = k => u \in G}
<1>2. 0 \in H
  <2>1. \A u \in Seq(Sign) : Len(u) = 0 => u = <<>>
    OBVIOUS
  <2> QED
    BY <2>1
<1>3. ASSUME NEW k \in 0 .. n - 1, k \in H PROVE k + 1 \in H
  <2>1. ASSUME NEW u \in Seq(Sign), Len(u) = k + 1 PROVE u \in G
    <3>1. u # <<>>
      BY <2>1
    <3>2. PICK v \in Seq(Sign), c \in Sign : u = Append(v, c)
      BY <3>1, SequenceEmptyOrAppend
    <3>3. Len(u) = Len(v) + 1 /\ Len(v) \in Nat
      BY <3>2, AppendProperties
    <3>4. Len(v) = k
      BY <2>1, <3>3
    <3>5. v \in G
      BY <1>3, <3>4
    <3> QED
      BY <3>2, <3>5
  <2>2. k + 1 \in 0 .. n
    OBVIOUS
  <2> QED
    BY <2>1, <2>2
<1>4. n \in H
  <2> HIDE DEF H
  <2>1. \A k \in 0 .. n : k \in H
    BY <1>2, <1>3, UpTo
  <2> QED
    BY <2>1
<1> QED
  BY <1>1, <1>4

\* One text behind another.  (The provers take \o apart where it stands; this they
\* leave alone.)
Cat(s, t) == s \o t

LEMMA CatIs ==
  ASSUME NEW s \in Seq(Sign), NEW t \in Seq(Sign)
  PROVE  /\ Cat(s, t) \in Seq(Sign) /\ Len(Cat(s, t)) = Len(s) + Len(t)
         /\ \A i \in 1 .. Len(s) + Len(t) : Cat(s, t)[i] = IF i <= Len(s) THEN s[i] ELSE t[i - Len(s)]
         /\ Cat(s, <<>>) = s /\ Cat(<<>>, s) = s
BY ConcatProperties, ConcatEmptySeq DEF Cat

LEMMA CatCat ==
  ASSUME NEW s \in Seq(Sign), NEW t \in Seq(Sign), NEW u \in Seq(Sign)
  PROVE  Cat(Cat(s, t), u) = Cat(s, Cat(t, u))
BY DEF Cat

LEMMA CatOne ==
  ASSUME NEW s \in Seq(Sign), NEW c \in Sign PROVE Append(s, c) = Cat(s, <<c>>)
BY DEF Cat

Image(c, m, x) == IF c = m THEN x ELSE <<c>>

LEMMA ImageType ==
  ASSUME NEW c \in Sign, NEW m, NEW x \in Seq(Sign) PROVE Image(c, m, x) \in Seq(Sign)
<1>1. <<c>> \in Seq(Sign)
  OBVIOUS
<1> QED
  BY <1>1 DEF Image

LEMMA OneSign == \A c \in Sign : <<c>> \in Seq(Sign)
OBVIOUS

\* The first characters of t with x for every m.
FilledTo(t, m, x) ==
  CHOOSE f : f = [k \in 0 .. Len(t) |-> IF k = 0 THEN <<>> ELSE Cat(f[k - 1], Image(t[k], m, x))]

Filled(t, m, x) == FilledTo(t, m, x)[Len(t)]

Fills(f, t, m, x, n) ==
  /\ f[0] = <<>> /\ \A k \in 1 .. n : f[k] = Cat(f[k - 1], Image(t[k], m, x))

LEMMA FilledToIs ==
  ASSUME NEW t \in Seq(Sign), NEW m, NEW x \in Seq(Sign), NEW n \in Nat, n = Len(t),
         NEW f, f = FilledTo(t, m, x)
  PROVE  /\ Fills(f, t, m, x, n)
         /\ \A k \in 0 .. n : f[k] \in Seq(Sign)
<1>1. ASSUME NEW k \in 1 .. n PROVE Image(t[k], m, x) \in Seq(Sign)
  BY ImageType
<1> DEFINE Step == [k \in 1 .. n |-> [v \in Seq(Sign) |-> Cat(v, Image(t[k], m, x))]]
<1>2. Step \in [1 .. n -> [Seq(Sign) -> Seq(Sign)]]
  <2> SUFFICES ASSUME NEW k \in 1 .. n, NEW v \in Seq(Sign) PROVE Cat(v, Image(t[k], m, x)) \in Seq(Sign)
    OBVIOUS
  <2>1. PICK i \in Seq(Sign) : i = Image(t[k], m, x)
    BY <1>1
  <2>2. Cat(v, i) \in Seq(Sign)
    BY CatIs
  <2> QED
    BY <2>1, <2>2
<1>3. PICK g \in [0 .. n -> Seq(Sign)] :
        g = [k \in 0 .. n |-> IF k = 0 THEN <<>> ELSE Step[k][g[k - 1]]]
  <2>1. <<>> \in Seq(Sign)
    BY EmptySeq
  <2> HIDE DEF Step
  <2>2. PICK first \in Seq(Sign), step \in [1 .. n -> [Seq(Sign) -> Seq(Sign)]] :
          first = <<>> /\ step = Step
    BY <1>2, <2>1
  <2>3. \E g \in [0 .. n -> Seq(Sign)] : Unfolds(g, n, first, step)
    BY Recursion
  <2> QED
    BY <2>2, <2>3 DEF Unfolds
<1>4. g = [k \in 0 .. n |-> IF k = 0 THEN <<>> ELSE Cat(g[k - 1], Image(t[k], m, x))]
  <2>1. ASSUME NEW k \in 0 .. n, k # 0 PROVE Step[k][g[k - 1]] = Cat(g[k - 1], Image(t[k], m, x))
    <3>1. k \in 1 .. n /\ k - 1 \in 0 .. n
      BY <2>1
    <3>2. g[k - 1] \in Seq(Sign)
      BY <3>1
    <3> QED
      BY <3>1, <3>2
  <2> HIDE DEF Step
  <2> QED
    BY <1>3, <2>1
<1> HIDE DEF Step
<1>5. f = [k \in 0 .. n |-> IF k = 0 THEN <<>> ELSE Cat(f[k - 1], Image(t[k], m, x))]
  BY <1>4 DEF FilledTo
<1>6. f[0] = <<>> /\ \A k \in 1 .. n : f[k] = Cat(f[k - 1], Image(t[k], m, x))
  <2>1. 0 \in 0 .. n /\ \A k \in 1 .. n : k \in 0 .. n /\ k # 0
    OBVIOUS
  <2> QED
    BY <1>5, <2>1
<1> DEFINE G == {k \in 0 .. n : f[k] \in Seq(Sign)}
<1>7. 0 \in G
  <2>1. <<>> \in Seq(Sign)
    BY EmptySeq
  <2>2. 0 \in 0 .. n /\ f[0] = <<>>
    BY <1>6
  <2> QED
    BY <2>1, <2>2
<1>8. ASSUME NEW k \in 0 .. n - 1, k \in G PROVE k + 1 \in G
  <2>1. k + 1 \in 1 .. n /\ k + 1 \in 0 .. n /\ (k + 1) - 1 = k
    OBVIOUS
  <2>2. PICK v \in Seq(Sign) : v = f[k]
    BY <1>8
  <2>3. PICK i \in Seq(Sign) : i = Image(t[k + 1], m, x)
    BY <1>1, <2>1
  <2>4. f[k + 1] = Cat(v, i)
    BY <1>6, <2>1, <2>2, <2>3
  <2>5. Cat(v, i) \in Seq(Sign)
    BY CatIs
  <2> QED
    BY <2>1, <2>4, <2>5
<1>9. \A k \in 0 .. n : f[k] \in Seq(Sign)
  <2> HIDE DEF G
  <2>1. \A k \in 0 .. n : k \in G
    BY <1>7, <1>8, UpTo
  <2> QED
    BY <2>1 DEF G
<1> QED
  BY <1>6, <1>9 DEF Fills

LEMMA FilledType ==
  ASSUME NEW t \in Seq(Sign), NEW m, NEW x \in Seq(Sign)
  PROVE  Filled(t, m, x) \in Seq(Sign)
<1>1. PICK n \in Nat : n = Len(t)
  OBVIOUS
<1>2. n \in 0 .. n
  OBVIOUS
<1>3. PICK f : f = FilledTo(t, m, x)
  OBVIOUS
<1>4. \A k \in 0 .. n : f[k] \in Seq(Sign)
  BY <1>1, <1>3, FilledToIs
<1> QED
  BY <1>1, <1>2, <1>3, <1>4 DEF Filled

LEMMA FilledEmpty ==
  ASSUME NEW m, NEW x \in Seq(Sign) PROVE Filled(<<>>, m, x) = <<>>
<1>1. PICK t \in Seq(Sign) : t = <<>>
  BY EmptySeq
<1>2. PICK f : f = FilledTo(t, m, x)
  OBVIOUS
<1>3. PICK n \in Nat : n = Len(t)
  OBVIOUS
<1>4. f[0] = <<>>
  <2>1. Fills(f, t, m, x, n)
    BY <1>2, <1>3, FilledToIs
  <2> QED
    BY <2>1 DEF Fills
<1>5. n = 0
  BY <1>1, <1>3
<1> QED
  BY <1>1, <1>2, <1>3, <1>4, <1>5 DEF Filled

\* One character more.
LEMMA FilledMore ==
  ASSUME NEW t \in Seq(Sign), NEW m, NEW x \in Seq(Sign), NEW c \in Sign
  PROVE  Filled(Append(t, c), m, x) = Cat(Filled(t, m, x), Image(c, m, x))
<1>1. PICK n \in Nat : n = Len(t)
  OBVIOUS
<1>2. PICK u \in Seq(Sign) : u = Append(t, c)
  BY AppendProperties
<1>3. Len(u) = n + 1 /\ n + 1 \in Nat /\ u[n + 1] = c /\ \A k \in 1 .. n : u[k] = t[k]
  BY <1>1, <1>2, AppendProperties
<1>4. PICK f : f = FilledTo(t, m, x)
  OBVIOUS
<1>5. PICK g : g = FilledTo(u, m, x)
  OBVIOUS
<1>6. f[0] = <<>> /\ \A k \in 1 .. n : f[k] = Cat(f[k - 1], Image(t[k], m, x))
  <2>1. Fills(f, t, m, x, n)
    BY <1>1, <1>4, FilledToIs
  <2> QED
    BY <2>1 DEF Fills
<1>7. g[0] = <<>> /\ \A k \in 1 .. n + 1 : g[k] = Cat(g[k - 1], Image(u[k], m, x))
  <2>1. PICK p \in Nat : p = Len(u)
    OBVIOUS
  <2>2. Fills(g, u, m, x, p)
    BY <1>5, <2>1, FilledToIs
  <2>3. g[0] = <<>> /\ \A k \in 1 .. p : g[k] = Cat(g[k - 1], Image(u[k], m, x))
    BY <2>2 DEF Fills
  <2> QED
    BY <1>3, <2>1, <2>3
<1> DEFINE G == {k \in 0 .. n : f[k] = g[k]}
<1>8. 0 \in G
  BY <1>6, <1>7
<1>9. ASSUME NEW k \in 0 .. n - 1, k \in G PROVE k + 1 \in G
  <2>1. k + 1 \in 1 .. n /\ k + 1 \in 1 .. n + 1 /\ k + 1 \in 0 .. n /\ (k + 1) - 1 = k
    OBVIOUS
  <2>2. f[k + 1] = Cat(f[k], Image(t[k + 1], m, x))
    BY <1>6, <2>1
  <2>3. g[k + 1] = Cat(g[k], Image(u[k + 1], m, x))
    BY <1>7, <2>1
  <2>4. u[k + 1] = t[k + 1]
    BY <1>3, <2>1
  <2> QED
    BY <1>9, <2>1, <2>2, <2>3, <2>4
<1>10. f[n] = g[n]
  <2>1. n \in G
    <3> HIDE DEF G
    <3>1. \A k \in 0 .. n : k \in G
      BY <1>8, <1>9, UpTo
    <3> QED
      BY <3>1
  <2> QED
    BY <2>1
<1>11. g[n + 1] = Cat(g[n], Image(c, m, x))
  <2>1. n + 1 \in 1 .. n + 1 /\ (n + 1) - 1 = n
    OBVIOUS
  <2>2. g[n + 1] = Cat(g[(n + 1) - 1], Image(u[n + 1], m, x))
    BY <1>7, <2>1
  <2> QED
    BY <1>3, <2>1, <2>2
<1> QED
  BY <1>1, <1>2, <1>3, <1>4, <1>5, <1>10, <1>11 DEF Filled

\* A text that is one character.
LEMMA FilledOne ==
  ASSUME NEW m, NEW x \in Seq(Sign), NEW c \in Sign
  PROVE  Filled(<<c>>, m, x) = Image(c, m, x)
<1>1. PICK t \in Seq(Sign) : t = <<>>
  BY EmptySeq
<1>2. Append(t, c) = <<c>>
  BY <1>1
<1>3. Filled(Append(t, c), m, x) = Cat(Filled(t, m, x), Image(c, m, x))
  BY FilledMore
<1>4. Filled(t, m, x) = <<>>
  BY <1>1, FilledEmpty
<1>5. PICK i \in Seq(Sign) : i = Image(c, m, x)
  BY ImageType
<1>6. Cat(<<>>, i) = i
  BY CatIs
<1> QED
  BY <1>2, <1>3, <1>4, <1>5, <1>6

\* Marks are filled in one part of a text after the other.
LEMMA FilledJoins ==
  ASSUME NEW t \in Seq(Sign), NEW u \in Seq(Sign), NEW m, NEW x \in Seq(Sign)
  PROVE  Filled(Cat(t, u), m, x) = Cat(Filled(t, m, x), Filled(u, m, x))
<1>1. PICK ft \in Seq(Sign) : ft = Filled(t, m, x)
  BY FilledType
<1> DEFINE G == {v \in Seq(Sign) : Filled(Cat(t, v), m, x) = Cat(ft, Filled(v, m, x))}
<1>2. <<>> \in G
  <2>1. <<>> \in Seq(Sign)
    BY EmptySeq
  <2>2. Cat(t, <<>>) = t /\ Cat(ft, <<>>) = ft
    BY CatIs
  <2>3. Filled(<<>>, m, x) = <<>>
    BY FilledEmpty
  <2> QED
    BY <1>1, <2>1, <2>2, <2>3
<1>3. ASSUME NEW v \in Seq(Sign), NEW c \in Sign, v \in G PROVE Append(v, c) \in G
  <2>1. PICK w \in Seq(Sign) : w = Cat(t, v)
    BY CatIs
  <2>2. PICK one \in Seq(Sign) : one = <<c>>
    BY OneSign
  <2>3. Append(v, c) = Cat(v, one) /\ Append(w, c) = Cat(w, one)
    BY <2>2, CatOne
  <2>4. Cat(Cat(t, v), one) = Cat(t, Cat(v, one))
    BY ONLY t \in Seq(Sign), v \in Seq(Sign), one \in Seq(Sign), CatCat
  <2>5. Cat(t, Append(v, c)) = Append(w, c)
    BY <2>1, <2>3, <2>4
  <2>6. PICK fv \in Seq(Sign) : fv = Filled(v, m, x)
    BY FilledType
  <2>7. PICK i \in Seq(Sign) : i = Image(c, m, x)
    BY ImageType
  <2>8. Filled(w, m, x) = Cat(ft, fv)
    BY <1>3, <2>1, <2>6
  <2>9. Filled(Append(w, c), m, x) = Cat(Cat(ft, fv), i) /\ Filled(Append(v, c), m, x) = Cat(fv, i)
    <3>1. Filled(Append(w, c), m, x) = Cat(Filled(w, m, x), Image(c, m, x))
      BY ONLY w \in Seq(Sign), x \in Seq(Sign), c \in Sign, FilledMore
    <3>2. Filled(Append(v, c), m, x) = Cat(Filled(v, m, x), Image(c, m, x))
      BY ONLY v \in Seq(Sign), x \in Seq(Sign), c \in Sign, FilledMore
    <3> QED
      BY <2>6, <2>7, <2>8, <3>1, <3>2
  <2>10. Cat(Cat(ft, fv), i) = Cat(ft, Cat(fv, i))
    BY ONLY ft \in Seq(Sign), fv \in Seq(Sign), i \in Seq(Sign), CatCat
  <2>11. Append(v, c) \in Seq(Sign)
    BY AppendProperties
  <2> QED
    BY <2>5, <2>9, <2>10, <2>11
<1>4. u \in G
  <2> HIDE DEF G
  <2> QED
    BY <1>2, <1>3, TextInduction
<1> QED
  BY <1>1, <1>4

Unmarked(u, m) == \A i \in DOMAIN u : u[i] # m

LEMMA PlainMore ==
  ASSUME NEW v \in Seq(Sign), NEW c \in Sign, NEW m, Unmarked(Append(v, c), m)
  PROVE  Unmarked(v, m) /\ c # m
<1>1. PICK u \in Seq(Sign) : u = Append(v, c)
  BY AppendProperties
<1>2. PICK n \in Nat : n = Len(v)
  OBVIOUS
<1>3. Len(u) = n + 1 /\ u[n + 1] = c /\ \A k \in 1 .. n : u[k] = v[k]
  BY <1>1, <1>2, AppendProperties
<1>4. DOMAIN u = 1 .. n + 1 /\ DOMAIN v = 1 .. n
  BY <1>2, <1>3
<1>5. n + 1 \in 1 .. n + 1 /\ \A k \in 1 .. n : k \in 1 .. n + 1
  OBVIOUS
<1> QED
  BY <1>1, <1>3, <1>4, <1>5 DEF Unmarked

LEMMA PlainAppended ==
  ASSUME NEW v \in Seq(Sign), NEW c \in Sign, NEW m, Unmarked(v, m), c # m
  PROVE  Unmarked(Append(v, c), m)
<1>1. PICK u \in Seq(Sign) : u = Append(v, c)
  BY AppendProperties
<1>2. PICK n \in Nat : n = Len(v)
  OBVIOUS
<1>3. Len(u) = n + 1 /\ u[n + 1] = c /\ \A k \in 1 .. n : u[k] = v[k]
  BY <1>1, <1>2, AppendProperties
<1>4. DOMAIN u = 1 .. n + 1 /\ DOMAIN v = 1 .. n
  BY <1>2, <1>3
<1>5. \A k \in 1 .. n + 1 : k = n + 1 \/ k \in 1 .. n
  OBVIOUS
<1> QED
  BY <1>1, <1>3, <1>4, <1>5 DEF Unmarked

\* A text with no marks stays as it is.
LEMMA FilledPlain ==
  ASSUME NEW u \in Seq(Sign), NEW m, Unmarked(u, m), NEW x \in Seq(Sign)
  PROVE  Filled(u, m, x) = u
<1> DEFINE G == {v \in Seq(Sign) : Unmarked(v, m) => Filled(v, m, x) = v}
<1>1. <<>> \in G
  BY EmptySeq, FilledEmpty
<1>2. ASSUME NEW v \in Seq(Sign), NEW c \in Sign, v \in G PROVE Append(v, c) \in G
  <2>1. Append(v, c) \in Seq(Sign)
    BY AppendProperties
  <2>2. ASSUME Unmarked(Append(v, c), m) PROVE Filled(Append(v, c), m, x) = Append(v, c)
    <3>1. Unmarked(v, m) /\ c # m
      BY <2>2, PlainMore
    <3>2. Filled(v, m, x) = v
      BY <1>2, <3>1
    <3>3. Image(c, m, x) = <<c>>
      BY <3>1 DEF Image
    <3>4. Append(v, c) = Cat(v, <<c>>)
      BY CatOne
    <3> QED
      <4>1. Filled(Append(v, c), m, x) = Cat(Filled(v, m, x), Image(c, m, x))
        BY ONLY v \in Seq(Sign), x \in Seq(Sign), c \in Sign, FilledMore
      <4> QED
        BY <3>2, <3>3, <3>4, <4>1
  <2> QED
    BY <2>1, <2>2
<1>3. u \in G
  <2> HIDE DEF G
  <2> QED
    BY <1>1, <1>2, TextInduction
<1> QED
  BY <1>3

\* One mark is put for another and then filled.
LEMMA FilledAgain ==
  ASSUME NEW u \in Seq(Sign), NEW m \in Sign, NEW o \in Sign, Unmarked(u, m), NEW x \in Seq(Sign)
  PROVE  Filled(Filled(u, o, <<m>>), m, x) = Filled(u, o, x)
<1>1. PICK y \in Seq(Sign) : y = <<m>>
  BY OneSign
<1> DEFINE G == {v \in Seq(Sign) : Unmarked(v, m) => Filled(Filled(v, o, y), m, x) = Filled(v, o, x)}
<1>2. <<>> \in G
  BY EmptySeq, FilledEmpty
<1>3. ASSUME NEW v \in Seq(Sign), NEW c \in Sign, v \in G PROVE Append(v, c) \in G
  <2>1. Append(v, c) \in Seq(Sign)
    BY AppendProperties
  <2>2. ASSUME Unmarked(Append(v, c), m)
        PROVE  Filled(Filled(Append(v, c), o, y), m, x) = Filled(Append(v, c), o, x)
    <3>1. Unmarked(v, m) /\ c # m
      BY <2>2, PlainMore
    <3>2. PICK w \in Seq(Sign) : w = Filled(v, o, y)
      BY FilledType
    <3>3. Filled(w, m, x) = Filled(v, o, x)
      BY <1>3, <3>1, <3>2
    <3>4. PICK i \in Seq(Sign) : i = Image(c, o, y)
      BY ImageType
    <3>5. Filled(Append(v, c), o, y) = Cat(w, i)
      <4>1. Filled(Append(v, c), o, y) = Cat(Filled(v, o, y), Image(c, o, y))
        BY ONLY v \in Seq(Sign), y \in Seq(Sign), c \in Sign, FilledMore
      <4> QED
        BY <3>2, <3>4, <4>1
    <3>6. Filled(Cat(w, i), m, x) = Cat(Filled(w, m, x), Filled(i, m, x))
      BY ONLY w \in Seq(Sign), i \in Seq(Sign), x \in Seq(Sign), FilledJoins
    <3>7. Filled(i, m, x) = Image(c, o, x)
      <4>1. CASE c = o
        <5>1. i = <<m>>
          BY <1>1, <3>4, <4>1 DEF Image
        <5>2. Filled(<<m>>, m, x) = Image(m, m, x)
          BY FilledOne
        <5> QED
          BY <4>1, <5>1, <5>2 DEF Image
      <4>2. CASE c # o
        <5>1. i = <<c>>
          BY <3>4, <4>2 DEF Image
        <5>2. Filled(<<c>>, m, x) = Image(c, m, x)
          BY FilledOne
        <5> QED
          BY <3>1, <4>2, <5>1, <5>2 DEF Image
      <4> QED
        BY <4>1, <4>2
    <3>8. Filled(Append(v, c), o, x) = Cat(Filled(v, o, x), Image(c, o, x))
      BY FilledMore
    <3> QED
      BY <3>3, <3>5, <3>6, <3>7, <3>8
  <2> QED
    BY <2>1, <2>2
<1>4. u \in G
  <2> HIDE DEF G
  <2> QED
    BY <1>2, <1>3, TextInduction
<1> QED
  BY <1>1, <1>4

-----------------------------------------------------------------------------
(* StringReplace: where the old text is found, and one turn of the loop.     *)

\* What is before and what is behind a place in a text.
LEMMA CutTextIs ==
  ASSUME NEW u \in Seq(Sign), NEW k \in 0 .. Len(u)
  PROVE  /\ SubSeq(u, 1, k) \in Seq(Sign) /\ Len(SubSeq(u, 1, k)) = k
         /\ RemovePrefix(u, k) \in Seq(Sign) /\ Len(RemovePrefix(u, k)) = Len(u) - k
         /\ \A i \in 1 .. k : SubSeq(u, 1, k)[i] = u[i]
         /\ \A i \in 1 .. Len(u) - k : RemovePrefix(u, k)[i] = u[k + i]
<1>1. PICK n \in Nat : n = Len(u)
  OBVIOUS
<1>2. \A i \in 1 .. n : u[i] \in Sign
  BY <1>1
<1>3. k \in Int /\ k + 1 \in Int /\ 1 \in Int /\ n \in Int /\ k <= n /\ 0 <= k
  BY <1>1
<1>4. /\ SubSeq(u, 1, k) \in Seq(Sign) /\ Len(SubSeq(u, 1, k)) = k
      /\ \A i \in 1 .. k : SubSeq(u, 1, k)[i] = u[i]
  <2>1. \A i \in 1 .. k : u[i] \in Sign
    BY <1>2, <1>3
  <2>2. /\ SubSeq(u, 1, k) \in Seq(Sign)
        /\ Len(SubSeq(u, 1, k)) = IF 1 <= k THEN k - 1 + 1 ELSE 0
        /\ \A i \in 1 .. k - 1 + 1 : SubSeq(u, 1, k)[i] = u[1 + i - 1]
    BY <1>3, <2>1, SubSeqProperties
  <2> QED
    BY <1>3, <2>2
<1>5. /\ SubSeq(u, k + 1, n) \in Seq(Sign) /\ Len(SubSeq(u, k + 1, n)) = n - k
      /\ \A i \in 1 .. n - k : SubSeq(u, k + 1, n)[i] = u[k + i]
  <2>1. \A i \in k + 1 .. n : u[i] \in Sign
    BY <1>2, <1>3
  <2>2. /\ SubSeq(u, k + 1, n) \in Seq(Sign)
        /\ Len(SubSeq(u, k + 1, n)) = IF k + 1 <= n THEN n - (k + 1) + 1 ELSE 0
        /\ \A i \in 1 .. n - (k + 1) + 1 : SubSeq(u, k + 1, n)[i] = u[(k + 1) + i - 1]
    BY <1>3, <2>1, SubSeqProperties
  <2>3. n - (k + 1) + 1 = n - k /\ \A i \in 1 .. n - k : (k + 1) + i - 1 = k + i
    BY <1>3
  <2> QED
    BY <1>3, <2>2, <2>3
<1> QED
  BY <1>1, <1>4, <1>5 DEF RemovePrefix

StartOf(u, k) == SubSeq(u, 1, k)

\* Where sub stands in u, behind k characters.
Occurs(u, sub, k) == k + Len(sub) <= Len(u) /\ \A i \in 1 .. Len(sub) : u[k + i] = sub[i]

LEMMA MatchesAre ==
  ASSUME NEW u \in Seq(Sign), NEW sub \in Seq(Sign), NEW pos \in Nat
  PROVE  Matches(u, sub, pos) = {k \in Nat : pos <= k /\ Occurs(u, sub, k)}
<1>1. PICK n \in Nat, l \in Nat : n = Len(u) /\ l = Len(sub)
  OBVIOUS
<1>2. ASSUME NEW k \in Nat, k + l <= n
      PROVE  SubSeq(u, k + 1, k + l) = sub <=> \A i \in 1 .. l : u[k + i] = sub[i]
  <2>1. \A i \in k + 1 .. k + l : u[i] \in Sign
    BY <1>1, <1>2
  <2>2. k + 1 \in Int /\ k + l \in Int
    OBVIOUS
  <2>3. PICK v : v = SubSeq(u, k + 1, k + l)
    OBVIOUS
  <2>4. /\ v \in Seq(Sign)
        /\ Len(v) = IF k + 1 <= k + l THEN (k + l) - (k + 1) + 1 ELSE 0
        /\ \A i \in 1 .. (k + l) - (k + 1) + 1 : v[i] = u[(k + 1) + i - 1]
    BY <2>1, <2>2, <2>3, SubSeqProperties
  <2>5. Len(v) = l
    BY <2>4
  <2>6. \A i \in 1 .. l : v[i] = u[k + i]
    <3> SUFFICES ASSUME NEW i \in 1 .. l PROVE v[i] = u[k + i]
      OBVIOUS
    <3>1. i \in 1 .. (k + l) - (k + 1) + 1 /\ (k + 1) + i - 1 = k + i
      OBVIOUS
    <3> QED
      BY <2>4, <3>1
  <2>7. v = sub <=> \A i \in 1 .. l : v[i] = sub[i]
    BY <1>1, <2>4, <2>5, SeqEqual
  <2> QED
    BY <2>3, <2>6, <2>7
<1>3. ASSUME NEW k PROVE k \in Matches(u, sub, pos) <=> k \in Nat /\ pos <= k /\ Occurs(u, sub, k)
  <2>1. k \in Matches(u, sub, pos) <=> k \in pos .. n - l /\ SubSeq(u, k + 1, k + l) = sub
    BY <1>1 DEF Matches
  <2>2. k \in pos .. n - l <=> k \in Nat /\ pos <= k /\ k + l <= n
    BY <1>1
  <2> QED
    BY <1>1, <1>2, <2>1, <2>2 DEF Occurs
<1>4. \A k : k \in Matches(u, sub, pos) => k \in Nat
  BY <1>3
<1> QED
  BY <1>3, <1>4

\* The text around a match.
LEMMA MatchSplits ==
  ASSUME NEW u \in Seq(Sign), NEW sub \in Seq(Sign), NEW k \in Nat, Occurs(u, sub, k),
         NEW a, a = StartOf(u, k), NEW b, b = RemovePrefix(u, k + Len(sub))
  PROVE  /\ a \in Seq(Sign) /\ Len(a) = k /\ b \in Seq(Sign) /\ Len(b) = Len(u) - (k + Len(sub))
         /\ u = Cat(a, Cat(sub, b))
<1>1. PICK n \in Nat, l \in Nat : n = Len(u) /\ l = Len(sub)
  OBVIOUS
<1>2. k \in 0 .. n /\ k + l \in 0 .. n
  BY <1>1 DEF Occurs
<1>3. /\ a \in Seq(Sign) /\ Len(a) = k /\ \A i \in 1 .. k : a[i] = u[i]
  BY <1>1, <1>2, CutTextIs DEF StartOf
<1>4. /\ b \in Seq(Sign) /\ Len(b) = n - (k + l) /\ \A i \in 1 .. n - (k + l) : b[i] = u[(k + l) + i]
  BY <1>1, <1>2, CutTextIs
<1>5. PICK c : c = Cat(sub, b)
  OBVIOUS
<1>6. /\ c \in Seq(Sign) /\ Len(c) = n - k
      /\ \A i \in 1 .. n - k : c[i] = IF i <= l THEN sub[i] ELSE b[i - l]
  <2>1. l + (n - (k + l)) = n - k
    BY <1>1
  <2>2. /\ c \in Seq(Sign) /\ Len(c) = Len(sub) + Len(b)
        /\ \A i \in 1 .. Len(sub) + Len(b) : c[i] = IF i <= Len(sub) THEN sub[i] ELSE b[i - Len(sub)]
    BY <1>4, <1>5, CatIs
  <2> QED
    BY ONLY <1>1, <1>4, <1>5, <2>2, <2>1
<1>7. PICK d : d = Cat(a, c)
  OBVIOUS
<1>8. /\ d \in Seq(Sign) /\ Len(d) = n
      /\ \A i \in 1 .. n : d[i] = IF i <= k THEN a[i] ELSE c[i - k]
  <2>1. k + (n - k) = n
    BY <1>1
  <2>2. /\ d \in Seq(Sign) /\ Len(d) = Len(a) + Len(c)
        /\ \A i \in 1 .. Len(a) + Len(c) : d[i] = IF i <= Len(a) THEN a[i] ELSE c[i - Len(a)]
    BY <1>3, <1>6, <1>7, CatIs
  <2> QED
    BY ONLY <1>3, <1>6, <1>7, <2>2, <2>1
<1>9. ASSUME NEW i \in 1 .. n PROVE d[i] = u[i]
  <2>1. CASE i <= k
    BY <1>3, <1>8, <2>1
  <2>2. CASE k < i /\ i <= k + l
    <3>1. i - k \in 1 .. n - k /\ i - k \in 1 .. l /\ i - k <= l /\ k + (i - k) = i
      BY <1>1, <1>2, <2>2
    <3>2. d[i] = c[i - k] /\ c[i - k] = sub[i - k]
      BY <1>6, <1>8, <2>2, <3>1
    <3>3. u[k + (i - k)] = sub[i - k]
      BY <1>1, <3>1 DEF Occurs
    <3> QED
      BY <3>1, <3>2, <3>3
  <2>3. CASE k + l < i
    <3>1. /\ i - k \in 1 .. n - k /\ ~(i - k <= l) /\ ~(i <= k)
          /\ (i - k) - l \in 1 .. n - (k + l) /\ (k + l) + ((i - k) - l) = i
      BY <1>1, <1>2, <2>3
    <3>2. d[i] = c[i - k] /\ c[i - k] = b[(i - k) - l]
      BY <1>6, <1>8, <3>1
    <3>3. b[(i - k) - l] = u[(k + l) + ((i - k) - l)]
      BY <1>4, <3>1
    <3> QED
      BY <3>1, <3>2, <3>3
  <2> QED
    BY <1>1, <2>1, <2>2, <2>3
<1>10. d = u
  BY <1>1, <1>8, <1>9, SeqEqual
<1> QED
  BY <1>1, <1>3, <1>4, <1>5, <1>7, <1>10

\* A place in the second part of a text.
LEMMA CutCat ==
  ASSUME NEW p \in Seq(Sign), NEW u \in Seq(Sign), NEW k \in 0 .. Len(u)
  PROVE  /\ StartOf(Cat(p, u), Len(p) + k) = Cat(p, StartOf(u, k))
         /\ RemovePrefix(Cat(p, u), Len(p) + k) = RemovePrefix(u, k)
<1>1. PICK n \in Nat, l \in Nat : n = Len(u) /\ l = Len(p)
  OBVIOUS
<1>2. PICK w : w = Cat(p, u)
  OBVIOUS
<1>3. /\ w \in Seq(Sign) /\ Len(w) = l + n
      /\ \A i \in 1 .. l + n : w[i] = IF i <= l THEN p[i] ELSE u[i - l]
  BY <1>1, <1>2, CatIs
<1>4. k \in 0 .. n /\ l + k \in 0 .. l + n
  BY <1>1
<1>5. PICK a : a = SubSeq(u, 1, k)
  OBVIOUS
<1>6. PICK b : b = RemovePrefix(u, k)
  OBVIOUS
<1>7. /\ a \in Seq(Sign) /\ Len(a) = k /\ \A i \in 1 .. k : a[i] = u[i]
      /\ b \in Seq(Sign) /\ Len(b) = n - k /\ \A i \in 1 .. n - k : b[i] = u[k + i]
  BY <1>1, <1>4, <1>5, <1>6, CutTextIs
<1>8. PICK c : c = SubSeq(w, 1, l + k)
  OBVIOUS
<1>9. PICK d : d = RemovePrefix(w, l + k)
  OBVIOUS
<1>10. /\ c \in Seq(Sign) /\ Len(c) = l + k /\ \A i \in 1 .. l + k : c[i] = w[i]
       /\ d \in Seq(Sign) /\ Len(d) = (l + n) - (l + k)
       /\ \A i \in 1 .. (l + n) - (l + k) : d[i] = w[(l + k) + i]
  <2>1. PICK q \in 0 .. Len(w) : q = l + k
    BY <1>3, <1>4
  <2>2. /\ c \in Seq(Sign) /\ Len(c) = q /\ \A i \in 1 .. q : c[i] = w[i]
        /\ d \in Seq(Sign) /\ Len(d) = Len(w) - q
        /\ \A i \in 1 .. Len(w) - q : d[i] = w[q + i]
    BY <1>3, <1>8, <1>9, <2>1, CutTextIs
  <2> QED
    BY <1>3, <2>1, <2>2
<1>11. b = d
  <2>1. Len(d) = n - k
    BY <1>1, <1>10
  <2>2. ASSUME NEW i \in 1 .. n - k PROVE b[i] = d[i]
    <3>1. /\ i \in 1 .. (l + n) - (l + k) /\ (l + k) + i \in 1 .. l + n /\ ~((l + k) + i <= l)
          /\ ((l + k) + i) - l = k + i
      BY <1>1, <1>4
    <3>2. d[i] = w[(l + k) + i] /\ w[(l + k) + i] = u[((l + k) + i) - l] /\ b[i] = u[k + i]
      BY <1>3, <1>7, <1>10, <3>1
    <3> QED
      BY <3>1, <3>2
  <2> QED
    BY <1>7, <1>10, <2>1, <2>2, SeqEqual
<1>12. PICK e : e = Cat(p, a)
  OBVIOUS
<1>13. e = c
  <2>1. /\ e \in Seq(Sign) /\ Len(e) = l + k
        /\ \A i \in 1 .. l + k : e[i] = IF i <= l THEN p[i] ELSE a[i - l]
    BY <1>1, <1>7, <1>12, CatIs
  <2>2. ASSUME NEW i \in 1 .. l + k PROVE e[i] = c[i]
    <3>1. i \in 1 .. l + n
      BY <1>1, <1>4
    <3>2. c[i] = IF i <= l THEN p[i] ELSE u[i - l]
      BY <1>3, <1>10, <3>1
    <3>3. ~(i <= l) => i - l \in 1 .. k
      BY <1>1, <1>4
    <3> QED
      BY <1>7, <2>1, <3>2, <3>3
  <2> QED
    BY <1>10, <2>1, <2>2, SeqEqual
<1> QED
  BY <1>1, <1>2, <1>5, <1>6, <1>8, <1>9, <1>11, <1>12, <1>13 DEF StartOf

\* A match in the second part of a text.
LEMMA OccursBehind ==
  ASSUME NEW p \in Seq(Sign), NEW u \in Seq(Sign), NEW sub \in Seq(Sign), NEW k \in Nat
  PROVE  Occurs(Cat(p, u), sub, Len(p) + k) <=> Occurs(u, sub, k)
<1>1. PICK n \in Nat, l \in Nat, j \in Nat : n = Len(u) /\ l = Len(p) /\ j = Len(sub)
  OBVIOUS
<1>2. PICK w : w = Cat(p, u)
  OBVIOUS
<1>3. /\ w \in Seq(Sign) /\ Len(w) = l + n
      /\ \A i \in 1 .. l + n : w[i] = IF i <= l THEN p[i] ELSE u[i - l]
  BY <1>1, <1>2, CatIs
<1>4. ASSUME k + j <= n, NEW i \in 1 .. j PROVE w[(l + k) + i] = u[k + i]
  <2>1. (l + k) + i \in 1 .. l + n /\ ~((l + k) + i <= l) /\ ((l + k) + i) - l = k + i
    BY <1>1, <1>4
  <2>2. w[(l + k) + i] = u[((l + k) + i) - l]
    BY <1>3, <2>1
  <2> QED
    BY <2>1, <2>2
<1>5. (l + k) + j <= l + n <=> k + j <= n
  BY <1>1
<1> QED
  BY <1>1, <1>2, <1>3, <1>4, <1>5 DEF Occurs

\* sub stands in u behind k characters and nowhere sooner, from over on.
FirstMatch(k, u, sub, over) ==
  /\ k \in Nat /\ over <= k /\ Occurs(u, sub, k)
  /\ \A i \in Nat : over <= i /\ Occurs(u, sub, i) => k <= i

MatchesApart(p, u, sub, over, here, there) ==
  /\ here = {} <=> there = {}
  /\ here # {} => FirstMatch(Min(here), u, sub, over) /\ Min(there) = Len(p) + Min(here)

\* The matches there.
LEMMA MatchesBehind ==
  ASSUME NEW p \in Seq(Sign), NEW u \in Seq(Sign), NEW sub \in Seq(Sign), NEW over \in Nat,
         NEW here, here = Matches(u, sub, over),
         NEW w, w = Cat(p, u), NEW start, start = Len(p) + over,
         NEW there, there = Matches(w, sub, start)
  PROVE  MatchesApart(p, u, sub, over, here, there)
<1>1. PICK l \in Nat : l = Len(p)
  OBVIOUS
<1>2. w \in Seq(Sign)
  BY CatIs
<1>3. here = {k \in Nat : over <= k /\ Occurs(u, sub, k)}
  BY MatchesAre
<1>4. there = {k \in Nat : l + over <= k /\ Occurs(w, sub, k)}
  <2>1. PICK q \in Nat : q = l + over
    BY <1>1
  <2>2. Matches(w, sub, q) = {k \in Nat : q <= k /\ Occurs(w, sub, k)}
    BY <1>2, MatchesAre
  <2> QED
    BY <1>1, <1>2, <2>1, <2>2
<1>5. \A k \in Nat : Occurs(w, sub, l + k) <=> Occurs(u, sub, k)
  BY <1>1, <1>2, OccursBehind
<1>6. ASSUME NEW k \in here PROVE l + k \in there
  <2>1. k \in Nat /\ over <= k /\ Occurs(u, sub, k)
    BY <1>3
  <2>2. l + k \in Nat /\ l + over <= l + k /\ Occurs(w, sub, l + k)
    BY <1>1, <1>5, <2>1
  <2> QED
    BY <1>4, <2>2
<1>7. ASSUME NEW k \in there PROVE k - l \in here /\ k \in Nat
  <2>1. k \in Nat /\ l + over <= k /\ Occurs(w, sub, k)
    BY <1>4
  <2>2. k - l \in Nat /\ over <= k - l /\ l + (k - l) = k
    BY <1>1, <2>1
  <2>3. Occurs(u, sub, k - l)
    BY <1>5, <2>1, <2>2
  <2> QED
    BY <1>3, <2>1, <2>2, <2>3
<1>8. here = {} <=> there = {}
  BY <1>6, <1>7
<1>9. ASSUME here # {}
      PROVE  /\ Min(here) \in Nat /\ over <= Min(here) /\ Occurs(u, sub, Min(here))
             /\ \A k \in Nat : over <= k /\ Occurs(u, sub, k) => Min(here) <= k
             /\ Min(there) = l + Min(here)
  <2>1. here \in SUBSET Nat /\ there \in SUBSET Nat /\ there # {}
    BY <1>3, <1>7, <1>8, <1>9
  <2>2. Min(here) \in here /\ \A y \in here : Min(here) <= y
    BY <1>9, <2>1, MinIsLeast
  <2>3. Min(there) \in there /\ \A y \in there : Min(there) <= y
    BY <2>1, MinIsLeast
  <2>4. PICK a \in Nat : a = Min(here)
    BY <2>1, <2>2
  <2>5. PICK b \in Nat : b = Min(there)
    BY <2>1, <2>3
  <2>6. b <= l + a
    BY <1>6, <2>2, <2>3, <2>4, <2>5
  <2>7. a <= b - l
    BY <1>7, <2>2, <2>3, <2>4, <2>5
  <2>8. b = l + a
    BY <1>1, <2>6, <2>7
  <2>9. over <= a /\ Occurs(u, sub, a)
    BY <1>3, <2>2, <2>4
  <2>10. \A k \in Nat : over <= k /\ Occurs(u, sub, k) => a <= k
    BY <1>3, <2>2, <2>4
  <2> QED
    BY <2>4, <2>5, <2>8, <2>9, <2>10
<1> QED
  BY <1>1, <1>8, <1>9 DEF FirstMatch, MatchesApart

\* Where u is cut for a turn, and what comes of it.
Parted(u, old, over, k, a, b) ==
  /\ FirstMatch(k, u, old, over)
  /\ a \in Seq(Sign) /\ Len(a) = k /\ b \in Seq(Sign)
  /\ Len(b) = Len(u) - (k + Len(old)) /\ u = Cat(a, Cat(old, b))

Turned(p, a, b, old, new, all) ==
  [res |-> Cat(Cat(p, Cat(a, new)), b),
   pos |-> Len(Cat(p, Cat(a, new))) + (IF old = <<>> THEN 1 ELSE 0),
   done |-> ~all]

Takes(r, r2, p, u, over, old, new, all, found, k, a, b) ==
  /\ found = {} => r2 = [r EXCEPT !.done = TRUE]
  /\ found # {} => Parted(u, old, over, k, a, b) /\ r2 = Turned(p, a, b, old, new, all)

\* What one turn makes of a text of which the part p has been dealt with: it is
\* over characters behind p that the search begins, and a text u behind p.
LEMMA TurnIs ==
  ASSUME NEW p \in Seq(Sign), NEW u \in Seq(Sign), NEW over \in Nat,
         NEW old \in Seq(Sign), NEW new \in Seq(Sign), NEW all,
         NEW r, r.res = Cat(p, u), r.pos = Len(p) + over, ~r.done,
         NEW r2, r2 = ReplaceNext(r, old, new, all),
         NEW found, found = Matches(u, old, over),
         NEW k, k = Min(found),
         NEW a, a = StartOf(u, k), NEW b, b = RemovePrefix(u, k + Len(old))
  PROVE  Takes(r, r2, p, u, over, old, new, all, found, k, a, b)
<1> DEFINE w == Cat(p, u)
           start == Len(p) + over
           there == Matches(w, old, start)
<1>1. w = Cat(p, u) /\ start = Len(p) + over /\ there = Matches(w, old, start)
  OBVIOUS
<1>3. there = Matches(r.res, old, r.pos)
  OBVIOUS
<1> HIDE DEF w, start, there
<1>2. /\ found = {} <=> there = {}
      /\ found # {} => FirstMatch(k, u, old, over) /\ Min(there) = Len(p) + k
  <2>1. MatchesApart(p, u, old, over, found, there)
    BY <1>1, MatchesBehind
  <2> QED
    BY <2>1 DEF MatchesApart
<1>4. found = {} => r2 = [r EXCEPT !.done = TRUE]
  BY <1>2, <1>3 DEF ReplaceNext
<1>5. ASSUME found # {}
      PROVE  /\ a \in Seq(Sign) /\ Len(a) = k /\ b \in Seq(Sign)
             /\ Len(b) = Len(u) - (k + Len(old)) /\ u = Cat(a, Cat(old, b))
             /\ r2 = [res |-> Cat(Cat(p, Cat(a, new)), b),
                      pos |-> Len(Cat(p, Cat(a, new))) + (IF old = <<>> THEN 1 ELSE 0),
                      done |-> ~all]
  <2>1. k \in Nat /\ Occurs(u, old, k) /\ Min(there) = Len(p) + k /\ there # {}
    BY <1>2, <1>5 DEF FirstMatch
  <2>2. /\ a \in Seq(Sign) /\ Len(a) = k /\ b \in Seq(Sign)
        /\ Len(b) = Len(u) - (k + Len(old)) /\ u = Cat(a, Cat(old, b))
    BY <2>1, MatchSplits
  <2>3. PICK l \in Nat, n \in Nat, j \in Nat, m \in Nat : l = Len(p) /\ n = Len(u) /\ j = Len(old) /\ m = Len(new)
    OBVIOUS
  <2>4. k \in 0 .. n /\ k + j \in 0 .. n
    BY <2>1, <2>3 DEF Occurs
  <2>5. StartOf(Cat(p, u), l + k) = Cat(p, a)
    BY <2>3, <2>4, CutCat
  <2>6. RemovePrefix(Cat(p, u), l + (k + j)) = b
    <3>1. PICK q \in 0 .. Len(u) : q = k + j
      BY <2>3, <2>4
    <3>2. RemovePrefix(Cat(p, u), Len(p) + q) = RemovePrefix(u, q)
      BY CutCat
    <3> QED
      BY <2>3, <3>1, <3>2
  <2>7. (l + k) + j = l + (k + j)
    BY <2>1, <2>3
  <2>8. PICK pa \in Seq(Sign) : pa = Cat(p, a) /\ Len(pa) = l + k
    <3>1. Cat(p, a) \in Seq(Sign) /\ Len(Cat(p, a)) = Len(p) + Len(a)
      BY <2>2, CatIs
    <3> QED
      BY <2>2, <2>3, <3>1
  <2>9. PICK t \in Seq(Sign) : t = Cat(pa, new) /\ Len(t) = (l + k) + m
    <3>1. Cat(pa, new) \in Seq(Sign) /\ Len(Cat(pa, new)) = Len(pa) + Len(new)
      BY CatIs
    <3> QED
      BY <2>3, <2>8, <3>1
  <2>10. t = Cat(p, Cat(a, new))
    <3>1. a \in Seq(Sign) /\ p \in Seq(Sign) /\ new \in Seq(Sign)
      BY <2>2
    <3>2. Cat(Cat(p, a), new) = Cat(p, Cat(a, new))
      BY ONLY <3>1, CatCat
    <3> QED
      BY <2>8, <2>9, <3>2
  <2>11. r2 = [res |-> SubSeq(r.res, 1, l + k) \o new \o RemovePrefix(r.res, (l + k) + Len(old)),
               pos |-> (l + k) + Len(new) + (IF old = <<>> THEN 1 ELSE 0), done |-> ~all]
    <3>1. Min(Matches(r.res, old, r.pos)) = l + k /\ Matches(r.res, old, r.pos) # {} /\ ~r.done
      BY <1>3, <2>1, <2>3
    <3> QED
      BY <3>1 DEF ReplaceNext
  <2>12. SubSeq(r.res, 1, l + k) = pa /\ RemovePrefix(r.res, (l + k) + Len(old)) = b
    BY <2>3, <2>5, <2>6, <2>7, <2>8 DEF StartOf
  <2>13. r2 = [res |-> Cat(Cat(pa, new), b), pos |-> Len(t) + (IF old = <<>> THEN 1 ELSE 0), done |-> ~all]
    <3>1. SubSeq(r.res, 1, l + k) \o new \o RemovePrefix(r.res, (l + k) + Len(old)) = Cat(Cat(pa, new), b)
      BY <2>12 DEF Cat
    <3> HIDE DEF Cat
    <3> QED
      BY <2>3, <2>9, <2>11, <3>1
  <2> QED
    BY <2>2, <2>9, <2>10, <2>13
<1> QED
  BY <1>2, <1>4, <1>5 DEF Parted, Turned, Takes

Stage == [res : Seq(Sign), pos : Nat, done : BOOLEAN]

\* The stages of a StringReplace: its function after.
Stages(s, old, new, all) ==
  CHOOSE f : f = [k \in 0 .. Len(s) + 2 |->
                    IF k = 0 THEN [res |-> s, pos |-> 0, done |-> FALSE]
                    ELSE ReplaceNext(f[k - 1], old, new, all)]

\* A turn leads from one stage to another.
LEMMA StageNext ==
  ASSUME NEW r \in Stage, NEW old \in Seq(Sign), NEW new \in Seq(Sign), NEW all \in BOOLEAN
  PROVE  ReplaceNext(r, old, new, all) \in Stage
<1>1. PICK found : found = Matches(r.res, old, r.pos)
  OBVIOUS
<1>2. PICK s \in Seq(Sign), q \in Nat : s = r.res /\ q = r.pos
  BY DEF Stage
<1>3. CASE r.done \/ found = {}
  <2>1. [r EXCEPT !.done = TRUE] \in Stage
    BY DEF Stage
  <2> QED
    BY <1>1, <1>3, <2>1 DEF ReplaceNext
<1>4. CASE ~(r.done \/ found = {})
  <2>1. found = {k \in Nat : q <= k /\ Occurs(s, old, k)}
    BY <1>1, <1>2, MatchesAre
  <2>2. Min(found) \in found
    BY <1>4, <2>1, MinIsLeast
  <2>3. PICK k \in Nat : k = Min(found) /\ Occurs(s, old, k)
    BY <2>1, <2>2
  <2>4. PICK a : a = StartOf(s, k)
    OBVIOUS
  <2>5. PICK b : b = RemovePrefix(s, k + Len(old))
    OBVIOUS
  <2>6. a \in Seq(Sign) /\ b \in Seq(Sign)
    BY <2>3, <2>4, <2>5, MatchSplits
  <2>7. PICK v \in Seq(Sign) : v = Cat(Cat(a, new), b)
    <3>1. Cat(a, new) \in Seq(Sign)
      BY <2>6, CatIs
    <3> QED
      BY <2>6, <3>1, CatIs
  <2>8. PICK p \in Nat : p = k + Len(new) + (IF old = <<>> THEN 1 ELSE 0)
    OBVIOUS
  <2>9. ReplaceNext(r, old, new, all) = [res |-> v, pos |-> p, done |-> ~all]
    <3>1. v = SubSeq(r.res, 1, k) \o new \o RemovePrefix(r.res, k + Len(old))
      BY <1>2, <2>4, <2>5, <2>7 DEF Cat, StartOf
    <3> QED
      BY <1>1, <1>4, <2>3, <2>8, <3>1 DEF ReplaceNext
  <2> QED
    BY <2>9 DEF Stage
<1> QED
  BY <1>3, <1>4

\* There are such stages, each made from the one before.
Turns(f, n, s, old, new, all) ==
  /\ f[0] = [res |-> s, pos |-> 0, done |-> FALSE]
  /\ \A k \in 0 .. n - 1 : f[k + 1] = ReplaceNext(f[k], old, new, all)
  /\ \A k \in 0 .. n : f[k] \in Stage

LEMMA StagesAre ==
  ASSUME NEW s \in Seq(Sign), NEW old \in Seq(Sign), NEW new \in Seq(Sign), NEW all \in BOOLEAN,
         NEW f, f = Stages(s, old, new, all), NEW n \in Nat, n = Len(s) + 2
  PROVE  /\ StringReplace(s, old, new, all) = f[n]
         /\ Turns(f, n, s, old, new, all)
<1>1. PICK start \in Stage : start = [res |-> s, pos |-> 0, done |-> FALSE]
  BY DEF Stage
<1> DEFINE Step == [k \in 1 .. n |-> [v \in Stage |-> ReplaceNext(v, old, new, all)]]
<1>2. Step \in [1 .. n -> [Stage -> Stage]]
  BY StageNext
<1>3. PICK g \in [0 .. n -> Stage] : g = [k \in 0 .. n |-> IF k = 0 THEN start ELSE Step[k][g[k - 1]]]
  <2> HIDE DEF Step
  <2>1. PICK step \in [1 .. n -> [Stage -> Stage]] : step = Step
    BY <1>2
  <2>2. \E g \in [0 .. n -> Stage] : Unfolds(g, n, start, step)
    BY Recursion
  <2> QED
    BY <2>1, <2>2 DEF Unfolds
<1>4. g = [k \in 0 .. n |-> IF k = 0 THEN start ELSE ReplaceNext(g[k - 1], old, new, all)]
  <2>1. ASSUME NEW k \in 0 .. n, k # 0 PROVE Step[k][g[k - 1]] = ReplaceNext(g[k - 1], old, new, all)
    <3>1. k \in 1 .. n /\ k - 1 \in 0 .. n
      BY <2>1
    <3>2. g[k - 1] \in Stage
      BY <3>1
    <3> QED
      BY <3>1, <3>2
  <2> HIDE DEF Step
  <2> QED
    BY <1>3, <2>1
<1> HIDE DEF Step
<1>5. f = [k \in 0 .. n |-> IF k = 0 THEN start ELSE ReplaceNext(f[k - 1], old, new, all)]
  BY <1>1, <1>4 DEF Stages
<1>6. f[0] = start
  <2>1. 0 \in 0 .. n
    OBVIOUS
  <2> QED
    BY <1>5, <2>1
<1>7. \A k \in 0 .. n - 1 : f[k + 1] = ReplaceNext(f[k], old, new, all)
  <2> SUFFICES ASSUME NEW k \in 0 .. n - 1 PROVE f[k + 1] = ReplaceNext(f[k], old, new, all)
    OBVIOUS
  <2>1. k + 1 \in 0 .. n /\ k + 1 # 0 /\ (k + 1) - 1 = k
    OBVIOUS
  <2>2. f[k + 1] = ReplaceNext(f[(k + 1) - 1], old, new, all)
    BY <1>5, <2>1
  <2> QED
    BY <2>1, <2>2
<1> DEFINE G == {k \in 0 .. n : f[k] \in Stage}
<1>8. 0 \in G
  BY <1>6
<1>9. ASSUME NEW k \in 0 .. n - 1, k \in G PROVE k + 1 \in G
  <2>1. k + 1 \in 0 .. n
    OBVIOUS
  <2>2. PICK v \in Stage : v = f[k]
    BY <1>9
  <2>3. f[k + 1] = ReplaceNext(v, old, new, all)
    BY <1>7, <2>2
  <2>4. f[k + 1] \in Stage
    BY <2>3, StageNext
  <2> QED
    BY <2>1, <2>4
<1>10. \A k \in 0 .. n : f[k] \in Stage
  <2> HIDE DEF G
  <2>1. \A k \in 0 .. n : k \in G
    BY <1>8, <1>9, UpTo
  <2> QED
    BY <2>1 DEF G
<1>11. StringReplace(s, old, new, all) = f[n]
  BY DEF StringReplace, Stages
<1> QED
  BY <1>1, <1>6, <1>7, <1>10, <1>11 DEF Turns

-----------------------------------------------------------------------------
(* StringReplace: a run that puts a mark and a run that puts y.              *)

\* A text that stands before or across the mark m has no m in it, so it stands
\* before it, whatever follows there.
LEMMA Unspanned ==
  ASSUME NEW h \in Seq(Sign), NEW b \in Seq(Sign), NEW c \in Seq(Sign), NEW m \in Sign,
         NEW old \in Seq(Sign), Unmarked(old, m), old # <<>>,
         NEW q \in Nat, q <= Len(h), Occurs(Cat(h, Cat(<<m>>, b)), old, q)
  PROVE  q + Len(old) <= Len(h) /\ Occurs(Cat(h, c), old, q)
<1>1. PICK one \in Seq(Sign) : one = <<m>> /\ Len(one) = 1 /\ one[1] = m
  BY OneSign
<1>2. PICK d \in Seq(Sign) : d = Cat(one, b)
  BY CatIs
<1>3. PICK l \in Nat, n \in Nat, z \in Nat : l = Len(h) /\ n = Len(old) /\ z = Len(d)
  OBVIOUS
<1>4. z > 0 /\ d[1] = m
  <2>1. /\ Len(d) = Len(one) + Len(b)
        /\ \A i \in 1 .. Len(one) + Len(b) : d[i] = IF i <= Len(one) THEN one[i] ELSE b[i - Len(one)]
    BY <1>2, CatIs
  <2>2. Len(b) \in Nat
    OBVIOUS
  <2>3. 1 \in 1 .. Len(one) + Len(b) /\ 1 <= Len(one)
    BY <1>1, <2>2
  <2> QED
    BY <1>1, <1>3, <2>1, <2>2, <2>3
<1>5. PICK w \in Seq(Sign) : w = Cat(h, d)
  BY CatIs
<1>6. Len(w) = l + z /\ \A i \in 1 .. l + z : w[i] = IF i <= l THEN h[i] ELSE d[i - l]
  BY <1>3, <1>5, CatIs
<1>7. q + n <= l + z /\ \A i \in 1 .. n : w[q + i] = old[i]
  BY <1>1, <1>2, <1>3, <1>5, <1>6 DEF Occurs
<1>8. n > 0
  BY <1>3
<1>9. q + n <= l
  <2> SUFFICES ASSUME ~(q + n <= l) PROVE FALSE
    OBVIOUS
  <2>1. PICK i \in 1 .. n : i = (l + 1) - q
    <3>1. q \in Nat /\ l \in Nat /\ n \in Nat /\ q <= l /\ ~(q + n <= l)
      BY <1>3
    <3>2. (l + 1) - q \in 1 .. n
      BY <3>1
    <3> QED
      BY <3>2
  <2>2. q + i = l + 1 /\ l + 1 \in 1 .. l + z /\ ~(l + 1 <= l) /\ (l + 1) - l = 1
    BY <1>3, <1>4, <2>1
  <2>3. w[q + i] = m
    BY <1>4, <1>6, <2>2
  <2>4. old[i] = m
    BY <1>7, <2>3
  <2>5. i \in DOMAIN old
    BY <1>3
  <2> QED
    BY <2>4, <2>5 DEF Unmarked
<1>10. PICK x \in Seq(Sign) : x = Cat(h, c)
  BY CatIs
<1>11. PICK k \in Nat : k = Len(c)
  OBVIOUS
<1>12. Len(x) = l + k /\ \A i \in 1 .. l + k : x[i] = IF i <= l THEN h[i] ELSE c[i - l]
  BY <1>3, <1>10, <1>11, CatIs
<1>13. ASSUME NEW i \in 1 .. n PROVE x[q + i] = old[i]
  <2>1. q + i \in 1 .. l + k /\ q + i \in 1 .. l + z /\ q + i <= l
    BY <1>3, <1>9, <1>11
  <2>2. x[q + i] = h[q + i] /\ w[q + i] = h[q + i]
    BY <1>6, <1>12, <2>1
  <2> QED
    BY <1>7, <2>2
<1>14. q + n <= l + k
  BY <1>3, <1>9, <1>11
<1> QED
  BY <1>3, <1>9, <1>10, <1>12, <1>13, <1>14 DEF Occurs

\* Behind j turns t has been dealt with, u has not, and the search is over
\* characters behind t; the same of both runs, f and g.
Apart(f, g, m, s, old, y, all, j, t, u, over) ==
  /\ t \in Seq(Sign) /\ u \in Seq(Sign) /\ over \in {0, 1} /\ (over = 1 => old = <<>>)
  /\ f \in Stage /\ f.res = Cat(t, u) /\ f.pos = Len(t) + over
  /\ g \in Stage /\ g.res = Cat(Filled(t, m, y), u) /\ g.pos = Len(Filled(t, m, y)) + over
  /\ g.done = f.done
  /\ Cat(Filled(t, m, old), u) = s /\ Unmarked(u, m)
  /\ f.done \/ Len(u) + j <= Len(s) + over
  /\ old # <<>> => \A k \in Nat : Occurs(f.res, old, k) => Len(t) <= k /\ ~(f.done /\ all)

\* Parts of a text without marks have none.
LEMMA PlainParts ==
  ASSUME NEW a \in Seq(Sign), NEW b \in Seq(Sign), NEW m, Unmarked(Cat(a, b), m)
  PROVE  Unmarked(a, m) /\ Unmarked(b, m)
<1>1. PICK u \in Seq(Sign) : u = Cat(a, b)
  BY CatIs
<1>2. PICK l \in Nat, n \in Nat : l = Len(a) /\ n = Len(b)
  OBVIOUS
<1>3. Len(u) = l + n /\ \A i \in 1 .. l + n : u[i] = IF i <= l THEN a[i] ELSE b[i - l]
  BY <1>1, <1>2, CatIs
<1>4. DOMAIN u = 1 .. l + n /\ DOMAIN a = 1 .. l /\ DOMAIN b = 1 .. n
  BY <1>2, <1>3
<1>5. ASSUME NEW i \in 1 .. l PROVE a[i] # m
  <2>1. i \in 1 .. l + n /\ i <= l
    BY <1>2
  <2> QED
    BY <1>1, <1>3, <1>4, <2>1 DEF Unmarked
<1>6. ASSUME NEW i \in 1 .. n PROVE b[i] # m
  <2>1. l + i \in 1 .. l + n /\ ~(l + i <= l) /\ (l + i) - l = i
    BY <1>2
  <2>2. u[l + i] = b[(l + i) - l]
    BY <1>3, <2>1
  <2>3. u[l + i] # m
    BY <1>1, <1>4, <2>1 DEF Unmarked
  <2> QED
    BY <2>1, <2>2, <2>3
<1> QED
  BY <1>4, <1>5, <1>6 DEF Unmarked

Lengthened(t, a, m, x, t2) ==
  /\ t2 \in Seq(Sign) /\ Len(t2) = Len(t) + Len(a) + 1
  /\ Filled(t2, m, x) = Cat(Filled(t, m, x), Cat(a, x))

\* What is dealt with grows by a, which has no marks, and what is put behind it.
LEMMA FilledGrows ==
  ASSUME NEW t \in Seq(Sign), NEW a \in Seq(Sign), NEW m \in Sign, Unmarked(a, m), NEW x \in Seq(Sign),
         NEW one \in Seq(Sign), one = <<m>>, NEW t2, t2 = Cat(t, Cat(a, one))
  PROVE  Lengthened(t, a, m, x, t2)
<1>1. Len(one) = 1
  OBVIOUS
<1>2. PICK v \in Seq(Sign) : v = Cat(a, one) /\ Len(v) = Len(a) + Len(one)
  BY CatIs
<1>3. t2 \in Seq(Sign) /\ Len(t2) = Len(t) + Len(v)
  BY <1>1, <1>2, CatIs
<1>4. Filled(one, m, x) = x
  BY <1>1, FilledOne DEF Image
<1>5. Filled(a, m, x) = a
  BY FilledPlain
<1>6. \A p, q \in Seq(Sign) : Filled(Cat(p, q), m, x) = Cat(Filled(p, m, x), Filled(q, m, x))
  BY FilledJoins
<1>7. Filled(v, m, x) = Cat(a, x)
  <2>1. a \in Seq(Sign) /\ one \in Seq(Sign)
    OBVIOUS
  <2>2. Filled(Cat(a, one), m, x) = Cat(Filled(a, m, x), Filled(one, m, x))
    BY ONLY <2>1, <1>6
  <2> QED
    BY ONLY <1>2, <1>4, <1>5, <2>2
<1>8. Filled(t2, m, x) = Cat(Filled(t, m, x), Filled(v, m, x))
  BY <1>1, <1>2, <1>6
<1>9. Len(t2) = Len(t) + Len(a) + 1
  <2>1. PICK i \in Nat, j \in Nat : i = Len(t) /\ j = Len(a)
    OBVIOUS
  <2>2. Len(t2) = i + (j + 1)
    BY <1>1, <1>2, <1>3, <2>1
  <2> QED
    BY <2>1, <2>2
<1> QED
  BY <1>1, <1>2, <1>3, <1>7, <1>8, <1>9 DEF Lengthened

\* Both runs take the same turn.
LEMMA ApartStep ==
  ASSUME NEW m \in Sign, NEW s \in Seq(Sign), NEW old \in Seq(Sign), Unmarked(old, m),
         NEW y \in Seq(Sign), NEW all \in BOOLEAN, NEW j \in Nat,
         NEW f, NEW g, NEW t, NEW u, NEW over, Apart(f, g, m, s, old, y, all, j, t, u, over),
         NEW f2, f2 = ReplaceNext(f, old, <<m>>, all),
         NEW g2, g2 = ReplaceNext(g, old, y, all)
  PROVE  \E t2, u2, over2 : Apart(f2, g2, m, s, old, y, all, j + 1, t2, u2, over2)
<1>1. /\ t \in Seq(Sign) /\ u \in Seq(Sign) /\ over \in Nat /\ over \in {0, 1} /\ (over = 1 => old = <<>>)
      /\ f \in Stage /\ f.res = Cat(t, u) /\ f.pos = Len(t) + over
      /\ g \in Stage /\ g.res = Cat(Filled(t, m, y), u) /\ g.pos = Len(Filled(t, m, y)) + over
      /\ g.done = f.done /\ f.done \in BOOLEAN
      /\ Cat(Filled(t, m, old), u) = s /\ Unmarked(u, m)
  BY DEF Apart, Stage
<1>2. f.done \/ Len(u) + j <= Len(s) + over
  BY DEF Apart
<1>3. old # <<>> => \A k \in Nat : Occurs(f.res, old, k) => Len(t) <= k /\ ~(f.done /\ all)
  BY DEF Apart
<1>4. PICK one \in Seq(Sign) : one = <<m>>
  BY OneSign
<1>5. f2 \in Stage /\ g2 \in Stage
  BY <1>1, <1>4, StageNext
<1>6. CASE f.done
  <2>1. f2 = [f EXCEPT !.done = TRUE] /\ g2 = [g EXCEPT !.done = TRUE]
    BY <1>1, <1>6 DEF ReplaceNext
  <2>2. f2.res = f.res /\ f2.pos = f.pos /\ f2.done /\ g2.res = g.res /\ g2.pos = g.pos /\ g2.done
    BY <1>1, <2>1 DEF Stage
  <2>3. Apart(f2, g2, m, s, old, y, all, j + 1, t, u, over)
    BY <1>1, <1>3, <1>5, <1>6, <2>2 DEF Apart
  <2> QED
    BY <2>3
<1>7. CASE ~f.done
  <2>1. PICK ft \in Seq(Sign) : ft = Filled(t, m, y)
    BY <1>1, FilledType
  <2>2. /\ f = [res |-> Cat(t, u), pos |-> Len(t) + over, done |-> FALSE]
        /\ g = [res |-> Cat(ft, u), pos |-> Len(ft) + over, done |-> FALSE]
    BY <1>1, <1>7, <2>1 DEF Stage
  <2>3. PICK found : found = Matches(u, old, over)
    OBVIOUS
  <2>4. PICK k : k = Min(found)
    OBVIOUS
  <2>5. PICK a : a = StartOf(u, k)
    OBVIOUS
  <2>6. PICK b : b = RemovePrefix(u, k + Len(old))
    OBVIOUS
  <2>7. Takes(f, f2, t, u, over, old, one, all, found, k, a, b)
    BY <1>1, <1>4, <1>7, <2>3, <2>4, <2>5, <2>6, TurnIs
  <2>8. Takes(g, g2, ft, u, over, old, y, all, found, k, a, b)
    BY <1>1, <1>7, <2>1, <2>3, <2>4, <2>5, <2>6, TurnIs
  <2>9. CASE found = {}
    <3>1. f2.res = f.res /\ f2.pos = f.pos /\ f2.done /\ g2.res = g.res /\ g2.pos = g.pos /\ g2.done
      BY <1>1, <2>7, <2>8, <2>9 DEF Stage, Takes
    <3>2. ASSUME old # <<>>, NEW q \in Nat, Occurs(f2.res, old, q) PROVE FALSE
      <4>1. Len(t) <= q /\ over = 0
        BY <1>1, <1>3, <3>1, <3>2
      <4>2. PICK i \in Nat : q = Len(t) + i
        <5>1. PICK lt \in Nat : lt = Len(t)
          BY <1>1
        <5>2. q - lt \in Nat /\ q = lt + (q - lt)
          BY <4>1, <5>1
        <5> QED
          BY <5>1, <5>2
      <4>3. Occurs(Cat(t, u), old, Len(t) + i)
        BY <1>1, <3>1, <3>2, <4>2
      <4>4. Occurs(u, old, i)
        BY <1>1, <4>3, OccursBehind
      <4>5. found = {n \in Nat : over <= n /\ Occurs(u, old, n)}
        BY <1>1, <2>3, MatchesAre
      <4>6. i \in found
        BY <4>1, <4>4, <4>5
      <4> QED
        BY <2>9, <4>6
    <3>3. Apart(f2, g2, m, s, old, y, all, j + 1, t, u, over)
      BY <1>1, <1>5, <3>1, <3>2 DEF Apart
    <3> QED
      BY <3>3
  <2>10. CASE found # {}
    <3>1. /\ k \in Nat /\ over <= k /\ a \in Seq(Sign) /\ Len(a) = k /\ b \in Seq(Sign)
          /\ Len(b) = Len(u) - (k + Len(old)) /\ u = Cat(a, Cat(old, b))
      BY <2>7, <2>10 DEF Parted, FirstMatch, Takes
    <3>2. Unmarked(a, m) /\ Unmarked(b, m)
      <4>1. PICK c \in Seq(Sign) : c = Cat(old, b)
        BY <3>1, CatIs
      <4>2. Unmarked(a, m) /\ Unmarked(c, m)
        BY <1>1, <3>1, <4>1, PlainParts
      <4> QED
        BY <3>1, <4>1, <4>2, PlainParts
    <3>3. PICK t2 : t2 = Cat(t, Cat(a, one))
      OBVIOUS
    <3>4. ASSUME NEW x \in Seq(Sign)
          PROVE  /\ t2 \in Seq(Sign) /\ Len(t2) = Len(t) + Len(a) + 1
                 /\ Filled(t2, m, x) = Cat(Filled(t, m, x), Cat(a, x))
      <4>1. Lengthened(t, a, m, x, t2)
        BY <1>1, <1>4, <3>1, <3>2, <3>3, FilledGrows
      <4> QED
        BY <4>1 DEF Lengthened
    <3>5. t2 \in Seq(Sign) /\ Len(t2) = Len(t) + k + 1
      BY <3>1, <3>4
    <3>6. PICK over2 \in {0, 1} : over2 = IF old = <<>> THEN 1 ELSE 0
      OBVIOUS
    <3>7. /\ f2.res = Cat(t2, b) /\ f2.pos = Len(t2) + over2 /\ f2.done = ~all
      BY <2>7, <2>10, <3>3, <3>6 DEF Turned, Takes
    <3>8. /\ g2.res = Cat(Filled(t2, m, y), b) /\ g2.pos = Len(Filled(t2, m, y)) + over2 /\ g2.done = ~all
      <4>1. Filled(t2, m, y) = Cat(ft, Cat(a, y))
        BY <2>1, <3>4
      <4> QED
        BY <2>8, <2>10, <3>6, <4>1 DEF Turned, Takes
    <3>9. Cat(Filled(t2, m, old), b) = s
      <4>1. PICK p \in Seq(Sign) : p = Filled(t, m, old)
        BY <1>1, FilledType
      <4>2. PICK ao \in Seq(Sign) : ao = Cat(a, old)
        BY <3>1, CatIs
      <4>3. PICK ob \in Seq(Sign) : ob = Cat(old, b)
        BY <3>1, CatIs
      <4>4. Filled(t2, m, old) = Cat(p, ao)
        BY <3>4, <4>1, <4>2
      <4>5. Cat(Cat(p, ao), b) = Cat(p, Cat(ao, b))
        BY <3>1, CatCat
      <4>6. Cat(ao, b) = Cat(a, ob)
        BY <3>1, <4>2, <4>3, CatCat
      <4> QED
        BY <1>1, <3>1, <4>1, <4>3, <4>4, <4>5, <4>6
    <3>10. Len(b) + (j + 1) <= Len(s) + over2
      <4>1. PICK lu \in Nat, lb \in Nat, lo \in Nat, ls \in Nat :
              lu = Len(u) /\ lb = Len(b) /\ lo = Len(old) /\ ls = Len(s)
        BY <1>1, <3>1
      <4>2. lu + j <= ls + over /\ lb = lu - (k + lo)
        BY <1>2, <1>7, <3>1, <4>1
      <4>3. CASE old = <<>>
        <5>1. lo = 0 /\ over2 = 1
          BY <3>6, <4>1, <4>3
        <5> QED
          BY <1>1, <3>1, <4>1, <4>2, <5>1
      <4>4. CASE old # <<>>
        <5>1. lo > 0 /\ over2 = 0 /\ over = 0
          BY <1>1, <3>6, <4>1, <4>4
        <5> QED
          BY <3>1, <4>1, <4>2, <5>1
      <4> QED
        BY <4>3, <4>4
    <3>11. ASSUME old # <<>>, NEW q \in Nat, Occurs(f2.res, old, q) PROVE Len(t2) <= q
      <4> SUFFICES ASSUME ~(Len(t2) <= q) PROVE FALSE
        OBVIOUS
      <4>1. PICK h \in Seq(Sign) : h = Cat(t, a) /\ Len(h) = Len(t) + k
        <5>1. Cat(t, a) \in Seq(Sign) /\ Len(Cat(t, a)) = Len(t) + Len(a)
          BY <1>1, <3>1, CatIs
        <5> QED
          BY <3>1, <5>1
      <4>2. q <= Len(h)
        BY <1>1, <3>1, <3>5, <4>1
      <4>3. f2.res = Cat(h, Cat(one, b))
        <5>1. Cat(h, one) = t2
          <6>1. t \in Seq(Sign) /\ a \in Seq(Sign) /\ one \in Seq(Sign)
            BY <1>1, <3>1
          <6>2. Cat(Cat(t, a), one) = Cat(t, Cat(a, one))
            BY ONLY <6>1, CatCat
          <6> QED
            BY <3>3, <4>1, <6>2
        <5>2. Cat(Cat(h, one), b) = Cat(h, Cat(one, b))
          BY <3>1, CatCat
        <5> QED
          BY <3>7, <5>1, <5>2
      <4>4. PICK c \in Seq(Sign) : c = Cat(old, b)
        BY <3>1, CatIs
      <4>5. q + Len(old) <= Len(h) /\ Occurs(Cat(h, c), old, q)
        BY <1>4, <3>1, <3>11, <4>2, <4>3, Unspanned
      <4>6. Cat(h, c) = Cat(t, u)
        BY <1>1, <3>1, <4>1, <4>4, CatCat
      <4>7. Len(t) <= q
        BY <1>1, <1>3, <3>11, <4>5, <4>6
      <4>8. PICK i \in Nat : q = Len(t) + i
        <5>1. PICK lt \in Nat : lt = Len(t)
          BY <1>1
        <5>2. q - lt \in Nat /\ q = lt + (q - lt)
          BY <4>7, <5>1
        <5> QED
          BY <5>1, <5>2
      <4>9. Occurs(u, old, i)
        <5>1. Occurs(Cat(t, u), old, Len(t) + i)
          BY <4>5, <4>6, <4>8
        <5> QED
          BY <1>1, <5>1, OccursBehind
      <4>10. over = 0
        BY <1>1, <3>11
      <4>11. k <= i
        BY <2>7, <2>10, <4>9, <4>10 DEF Parted, FirstMatch, Takes
      <4>12. PICK lt \in Nat, lo \in Nat : lt = Len(t) /\ lo = Len(old) /\ lo > 0
        BY <1>1, <3>11
      <4> QED
        BY <3>1, <4>1, <4>5, <4>8, <4>11, <4>12
    <3>12. Apart(f2, g2, m, s, old, y, all, j + 1, t2, b, over2)
      BY <1>5, <3>1, <3>2, <3>5, <3>6, <3>7, <3>8, <3>9, <3>10, <3>11 DEF Apart
    <3> QED
      BY <3>12
  <2> QED
    BY <2>9, <2>10
<1> QED
  BY <1>1, <1>6, <1>7

\* There is a way to tell f and g apart.
Together(f, g, m, s, old, y, all, j) == \E t, u, over : Apart(f, g, m, s, old, y, all, j, t, u, over)

\* What the two runs end with.
BothEnd(r, r2, m, s, old, y, all) ==
  /\ r.done /\ r2.done /\ r.res \in Seq(Sign) /\ r2.res \in Seq(Sign)
  /\ Filled(r.res, m, old) = s /\ Filled(r.res, m, y) = r2.res
  /\ all /\ old # <<>> => \A k \in Nat : ~Occurs(r.res, old, k)

LEMMA ReplacedApart ==
  ASSUME NEW m \in Sign, NEW s \in Seq(Sign), Unmarked(s, m), NEW old \in Seq(Sign), Unmarked(old, m),
         NEW y \in Seq(Sign), NEW all \in BOOLEAN,
         NEW r, r = StringReplace(s, old, <<m>>, all),
         NEW r2, r2 = StringReplace(s, old, y, all)
  PROVE  BothEnd(r, r2, m, s, old, y, all)
<1>1. PICK one \in Seq(Sign) : one = <<m>>
  BY OneSign
<1>2. PICK n \in Nat : n = Len(s) + 2
  OBVIOUS
<1>3. PICK f : f = Stages(s, old, one, all)
  OBVIOUS
<1>4. PICK g : g = Stages(s, old, y, all)
  OBVIOUS
<1>5. r = f[n] /\ Turns(f, n, s, old, one, all)
  <2>1. StringReplace(s, old, one, all) = f[n] /\ Turns(f, n, s, old, one, all)
    BY <1>2, <1>3, StagesAre
  <2> QED
    BY <1>1, <2>1
<1>6. r2 = g[n] /\ Turns(g, n, s, old, y, all)
  BY <1>2, <1>4, StagesAre
<1> DEFINE G == {j \in 0 .. n : Together(f[j], g[j], m, s, old, y, all, j)}
<1>7. 0 \in G
  <2>1. PICK t \in Seq(Sign) : t = <<>> /\ Len(t) = 0
    BY EmptySeq
  <2>2. /\ f[0] = [res |-> s, pos |-> 0, done |-> FALSE]
        /\ g[0] = [res |-> s, pos |-> 0, done |-> FALSE]
    BY <1>5, <1>6 DEF Turns
  <2>3. Filled(t, m, y) = t /\ Filled(t, m, old) = t
    BY <2>1, FilledEmpty
  <2>4. Cat(t, s) = s
    BY <2>1, CatIs
  <2>5. f[0] \in Stage /\ g[0] \in Stage
    BY <1>2, <1>5, <1>6 DEF Turns
  <2>6. Apart(f[0], g[0], m, s, old, y, all, 0, t, s, 0)
    <3>1. Len(s) + 0 <= Len(s) + 0
      OBVIOUS
    <3>2. 0 + 0 = 0 /\ 0 \in {0, 1}
      OBVIOUS
    <3>3. \A k \in Nat : Len(t) <= k
      BY <2>1
    <3> QED
      BY <2>1, <2>2, <2>3, <2>4, <2>5, <3>1, <3>2, <3>3 DEF Apart
  <2> QED
    BY <2>6 DEF Together
<1>8. ASSUME NEW j \in 0 .. n - 1, j \in G PROVE j + 1 \in G
  <2>1. PICK t, u, over : Apart(f[j], g[j], m, s, old, y, all, j, t, u, over)
    BY <1>8 DEF Together
  <2>2. f[j + 1] = ReplaceNext(f[j], old, <<m>>, all) /\ g[j + 1] = ReplaceNext(g[j], old, y, all)
    BY <1>1, <1>5, <1>6 DEF Turns
  <2>3. PICK p \in Nat : p = j
    OBVIOUS
  <2>4. PICK a : a = f[j]
    OBVIOUS
  <2>5. PICK b : b = g[j]
    OBVIOUS
  <2>6. PICK a2 : a2 = ReplaceNext(a, old, <<m>>, all)
    OBVIOUS
  <2>7. PICK b2 : b2 = ReplaceNext(b, old, y, all)
    OBVIOUS
  <2>8. Apart(a, b, m, s, old, y, all, p, t, u, over)
    BY <2>1, <2>3, <2>4, <2>5
  <2>9. \E t2, u2, over2 : Apart(a2, b2, m, s, old, y, all, p + 1, t2, u2, over2)
    BY <2>6, <2>7, <2>8, ApartStep
  <2>10. Together(a2, b2, m, s, old, y, all, p + 1)
    BY <2>9 DEF Together
  <2>11. j + 1 \in 0 .. n
    OBVIOUS
  <2> QED
    BY <2>2, <2>3, <2>4, <2>5, <2>6, <2>7, <2>10, <2>11
<1>9. Together(r, r2, m, s, old, y, all, n)
  <2> HIDE DEF G
  <2>1. \A j \in 0 .. n : j \in G
    BY <1>7, <1>8, UpTo
  <2>2. n \in 0 .. n
    OBVIOUS
  <2> QED
    BY <1>5, <1>6, <2>1, <2>2 DEF G
<1>10. PICK t, u, over : Apart(r, r2, m, s, old, y, all, n, t, u, over)
  BY <1>9 DEF Together
<1>11. /\ t \in Seq(Sign) /\ u \in Seq(Sign) /\ over \in {0, 1}
       /\ r \in Stage /\ r.res = Cat(t, u) /\ r2 \in Stage /\ r2.res = Cat(Filled(t, m, y), u)
       /\ r2.done = r.done /\ Cat(Filled(t, m, old), u) = s /\ Unmarked(u, m)
       /\ r.done \/ Len(u) + n <= Len(s) + over
       /\ old # <<>> => \A k \in Nat : Occurs(r.res, old, k) => ~(r.done /\ all)
  BY <1>10 DEF Apart
<1>12. r.done
  <2>1. PICK i \in Nat, j \in Nat : i = Len(u) /\ j = Len(s)
    BY <1>11
  <2>2. ~(i + (j + 2) <= j + over)
    BY <1>11, <2>1
  <2> QED
    BY <1>2, <1>11, <2>1, <2>2
<1>13. ASSUME NEW x \in Seq(Sign) PROVE Filled(r.res, m, x) = Cat(Filled(t, m, x), u)
  <2>1. Filled(Cat(t, u), m, x) = Cat(Filled(t, m, x), Filled(u, m, x))
    BY <1>11, FilledJoins
  <2>2. Filled(u, m, x) = u
    BY <1>11, FilledPlain
  <2> QED
    BY <1>11, <2>1, <2>2
<1>14. r.res \in Seq(Sign) /\ r2.res \in Seq(Sign)
  BY <1>11 DEF Stage
<1>15. Filled(r.res, m, old) = s /\ Filled(r.res, m, y) = r2.res
  BY <1>11, <1>13
<1> QED
  BY <1>11, <1>12, <1>14, <1>15 DEF BothEnd

\* To replace every mark is to fill it in: a run that puts another mark o for m
\* takes m away, so that filling in o is the same as filling in m.
LEMMA MarksReplaced ==
  ASSUME NEW m \in Sign, NEW o \in Sign, o # m, NEW t \in Seq(Sign), Unmarked(t, o), NEW x \in Seq(Sign)
  PROVE  StringReplace(t, <<m>>, x, TRUE).res = Filled(t, m, x)
<1>1. PICK one \in Seq(Sign) : one = <<m>> /\ Len(one) = 1 /\ one[1] = m /\ one # <<>>
  BY OneSign
<1>2. Unmarked(one, o)
  BY <1>1 DEF Unmarked
<1>3. PICK r : r = StringReplace(t, one, <<o>>, TRUE)
  OBVIOUS
<1>4. PICK r2 : r2 = StringReplace(t, one, x, TRUE)
  OBVIOUS
<1>5. PICK all \in BOOLEAN : all = TRUE
  OBVIOUS
<1>6. BothEnd(r, r2, o, t, one, x, all)
  BY <1>2, <1>3, <1>4, <1>5, ReplacedApart
<1>7. PICK v \in Seq(Sign) : v = r.res
  BY <1>6 DEF BothEnd
<1>8. Filled(v, o, one) = t /\ Filled(v, o, x) = r2.res /\ \A k \in Nat : ~Occurs(v, one, k)
  BY <1>1, <1>5, <1>6, <1>7 DEF BothEnd
<1>9. Unmarked(v, m)
  <2> SUFFICES ASSUME NEW i \in DOMAIN v, v[i] = m PROVE FALSE
    BY DEF Unmarked
  <2>1. PICK n \in Nat : n = Len(v) /\ i \in 1 .. n
    OBVIOUS
  <2>2. i - 1 \in Nat /\ (i - 1) + 1 <= n /\ (i - 1) + 1 = i
    BY <2>1
  <2>3. \A h \in 1 .. 1 : v[(i - 1) + h] = one[h]
    BY <1>1, <2>2
  <2>4. Occurs(v, one, i - 1)
    BY <1>1, <2>1, <2>2, <2>3 DEF Occurs
  <2> QED
    BY <1>8, <2>2, <2>4
<1>10. Filled(Filled(v, o, <<m>>), m, x) = Filled(v, o, x)
  BY <1>9, FilledAgain
<1> QED
  BY <1>1, <1>4, <1>8, <1>10

\* What is filled in does not take other marks away.
LEMMA PlainFilled ==
  ASSUME NEW t \in Seq(Sign), NEW m \in Sign, NEW o \in Sign, o # m, NEW x \in Seq(Sign),
         Unmarked(Filled(t, m, x), o)
  PROVE  Unmarked(t, o)
<1> DEFINE G == {v \in Seq(Sign) : Unmarked(Filled(v, m, x), o) => Unmarked(v, o)}
<1>1. <<>> \in G
  <2>1. Unmarked(<<>>, o)
    BY DEF Unmarked
  <2> QED
    BY <2>1, EmptySeq
<1>2. ASSUME NEW v \in Seq(Sign), NEW c \in Sign, v \in G PROVE Append(v, c) \in G
  <2>1. Append(v, c) \in Seq(Sign)
    BY AppendProperties
  <2>2. ASSUME Unmarked(Filled(Append(v, c), m, x), o) PROVE Unmarked(Append(v, c), o)
    <3>1. PICK fv \in Seq(Sign) : fv = Filled(v, m, x)
      BY FilledType
    <3>2. PICK i \in Seq(Sign) : i = Image(c, m, x)
      BY ImageType
    <3>3. Filled(Append(v, c), m, x) = Cat(fv, i)
      BY <3>1, <3>2, FilledMore
    <3>4. Unmarked(fv, o) /\ Unmarked(i, o)
      BY <2>2, <3>3, PlainParts
    <3>5. Unmarked(v, o)
      BY <1>2, <3>1, <3>4
    <3>6. c # o
      <4>1. CASE c = m
        BY <4>1
      <4>2. CASE c # m
        <5>1. i = <<c>>
          BY <3>2, <4>2 DEF Image
        <5>2. 1 \in DOMAIN i /\ i[1] = c
          BY <5>1
        <5> QED
          BY <3>4, <5>2 DEF Unmarked
      <4> QED
        BY <4>1, <4>2
    <3> QED
      BY <3>5, <3>6, PlainAppended
  <2> QED
    BY <2>1, <2>2
<1>3. t \in G
  <2> HIDE DEF G
  <2> QED
    BY <1>1, <1>2, TextInduction
<1> QED
  BY <1>3

\* The place of a mark between texts that have none.
LEMMA OneMark ==
  ASSUME NEW a \in Seq(Sign), NEW b \in Seq(Sign), NEW m \in Sign, Unmarked(a, m), Unmarked(b, m),
         NEW one \in Seq(Sign), Len(one) = 1, one[1] = m
  PROVE  Matches(Cat(a, Cat(one, b)), one, 0) = {Len(a)}
<1>1. PICK n \in Nat, l \in Nat : n = Len(a) /\ l = Len(b)
  OBVIOUS
<1>2. Len(one) = 1 /\ one[1] = m
  OBVIOUS
<1>3. PICK d \in Seq(Sign) : d = Cat(one, b)
  BY CatIs
<1>4. Len(d) = 1 + l /\ \A i \in 1 .. 1 + l : d[i] = IF i <= 1 THEN m ELSE b[i - 1]
  <2>1. /\ Len(d) = Len(one) + Len(b)
        /\ \A i \in 1 .. Len(one) + Len(b) : d[i] = IF i <= Len(one) THEN one[i] ELSE b[i - Len(one)]
    <3>1. one \in Seq(Sign) /\ b \in Seq(Sign)
      OBVIOUS
    <3> QED
      BY ONLY <1>3, <3>1, CatIs
  <2>2. \A i \in 1 .. 1 + l : i <= 1 => i = 1
    OBVIOUS
  <2> QED
    BY <1>1, <1>2, <2>1, <2>2
<1>5. PICK w \in Seq(Sign) : w = Cat(a, d)
  BY CatIs
<1>6. Len(w) = n + (1 + l) /\ \A i \in 1 .. n + (1 + l) : w[i] = IF i <= n THEN a[i] ELSE d[i - n]
  <2>1. /\ Len(w) = Len(a) + Len(d)
        /\ \A i \in 1 .. Len(a) + Len(d) : w[i] = IF i <= Len(a) THEN a[i] ELSE d[i - Len(a)]
    BY <1>5, CatIs
  <2> QED
    BY ONLY <1>1, <1>4, <2>1
<1>7. DOMAIN a = 1 .. n /\ DOMAIN b = 1 .. l
  BY <1>1
<1>8. ASSUME NEW i \in 1 .. n + (1 + l) PROVE w[i] = m <=> i = n + 1
  <2>1. CASE i <= n
    <3>1. i \in DOMAIN a /\ w[i] = a[i] /\ i # n + 1
      BY <1>1, <1>6, <1>7, <2>1
    <3> QED
      BY <3>1 DEF Unmarked
  <2>2. CASE i = n + 1
    <3>1. i - n = 1 /\ ~(i <= n) /\ 1 \in 1 .. 1 + l /\ 1 <= 1
      BY <1>1, <2>2
    <3>2. d[1] = m
      BY <1>4, <3>1
    <3> QED
      BY <1>6, <2>2, <3>1, <3>2
  <2>3. CASE n + 1 < i
    <3>1. i - n \in 1 .. 1 + l /\ ~(i - n <= 1) /\ (i - n) - 1 \in 1 .. l /\ ~(i <= n) /\ i # n + 1
      BY <1>1, <2>3
    <3>2. w[i] = b[(i - n) - 1]
      BY <1>4, <1>6, <3>1
    <3> QED
      BY <1>7, <3>1, <3>2 DEF Unmarked
  <2> QED
    BY <1>1, <2>1, <2>2, <2>3
<1>9. ASSUME NEW k \in Nat PROVE Occurs(w, one, k) <=> k = n
  <2>1. Occurs(w, one, k) <=> k + 1 <= n + (1 + l) /\ w[k + 1] = m
    <3>1. \A i \in 1 .. 1 : i = 1
      OBVIOUS
    <3> QED
      BY <1>2, <1>6, <3>1 DEF Occurs
  <2>2. k + 1 <= n + (1 + l) <=> k + 1 \in 1 .. n + (1 + l)
    BY <1>1
  <2>3. k + 1 = n + 1 <=> k = n
    BY <1>1
  <2>4. n + 1 <= n + (1 + l)
    BY <1>1
  <2> QED
    BY <1>8, <2>1, <2>2, <2>3, <2>4
<1>10. 0 \in Nat /\ \A k \in Nat : 0 <= k
  OBVIOUS
<1>11. Matches(w, one, 0) = {k \in Nat : 0 <= k /\ Occurs(w, one, k)}
  BY <1>10, MatchesAre
<1>12. Matches(w, one, 0) = {n}
  BY <1>1, <1>9, <1>10, <1>11
<1> QED
  BY <1>1, <1>3, <1>5, <1>12

\* The run puts one, a mark, for the first of the matches.
ReplacesFirst(m, s, old, found, k, one, w) ==
  /\ m \in Sign /\ s \in Seq(Sign) /\ Unmarked(s, m) /\ old \in Seq(Sign)
  /\ found = Matches(s, old, 0) /\ found # {} /\ k = Min(found)
  /\ one \in Seq(Sign) /\ Len(one) = 1 /\ one[1] = m
  /\ w = StringReplace(s, old, one, FALSE).res

\* A run that is to replace one match is left after its first turn.
LEMMA FirstReplaced ==
  ASSUME NEW m, NEW s, NEW old, NEW found, NEW k, NEW one, NEW w,
         ReplacesFirst(m, s, old, found, k, one, w)
  PROVE  Matches(w, one, 0) = {k}
<1>0. /\ m \in Sign /\ s \in Seq(Sign) /\ Unmarked(s, m) /\ old \in Seq(Sign)
      /\ found = Matches(s, old, 0) /\ found # {} /\ k = Min(found)
      /\ one \in Seq(Sign) /\ Len(one) = 1 /\ one[1] = m
      /\ w = StringReplace(s, old, one, FALSE).res
  BY DEF ReplacesFirst
<1>1. PICK all \in BOOLEAN : all = FALSE
  OBVIOUS
<1>2. PICK n \in Nat : n = Len(s) + 2
  BY <1>0
<1>4. PICK f : f = Stages(s, old, one, all)
  OBVIOUS
<1>5. w = f[n].res /\ Turns(f, n, s, old, one, all)
  <2>1. StringReplace(s, old, one, all) = f[n] /\ Turns(f, n, s, old, one, all)
    BY <1>0, <1>1, <1>2, <1>4, StagesAre
  <2> QED
    BY <1>0, <1>1, <2>1
<1>6. PICK t \in Seq(Sign) : t = <<>> /\ Len(t) = 0
  BY EmptySeq
<1>7. PICK o \in Nat : o = 0
  OBVIOUS
<1>8. PICK g : g = f[0]
  OBVIOUS
<1>9. g.res = Cat(t, s) /\ g.pos = Len(t) + o /\ ~g.done
  <2>1. Cat(t, s) = s
    BY <1>0, <1>6, CatIs
  <2>2. g = [res |-> s, pos |-> 0, done |-> FALSE]
    BY <1>5, <1>8 DEF Turns
  <2> QED
    BY <1>6, <1>7, <2>1, <2>2
<1>10. PICK g2 : g2 = ReplaceNext(g, old, one, all)
  OBVIOUS
<1>12. PICK a : a = StartOf(s, k)
  OBVIOUS
<1>13. PICK b : b = RemovePrefix(s, k + Len(old))
  OBVIOUS
<1>14. Takes(g, g2, t, s, o, old, one, all, found, k, a, b)
  BY <1>0, <1>1, <1>7, <1>9, <1>10, <1>12, <1>13, TurnIs
<1>15. /\ a \in Seq(Sign) /\ Len(a) = k /\ b \in Seq(Sign) /\ s = Cat(a, Cat(old, b))
       /\ g2.res = Cat(Cat(t, Cat(a, one)), b) /\ g2.done
  <2>1. Parted(s, old, o, k, a, b) /\ g2 = Turned(t, a, b, old, one, all)
    BY <1>0, <1>14 DEF Takes
  <2>2. a \in Seq(Sign) /\ Len(a) = k /\ b \in Seq(Sign) /\ s = Cat(a, Cat(old, b))
    BY <2>1 DEF Parted
  <2>3. g2.res = Cat(Cat(t, Cat(a, one)), b) /\ g2.done = ~all
    BY <2>1 DEF Turned
  <2> QED
    BY <1>0, <1>1, <2>2, <2>3
<1>16. Unmarked(a, m) /\ Unmarked(b, m)
  <2>1. PICK c \in Seq(Sign) : c = Cat(old, b)
    BY <1>0, <1>15, CatIs
  <2>2. Unmarked(a, m) /\ Unmarked(c, m)
    BY <1>0, <1>15, <2>1, PlainParts
  <2> QED
    BY <1>0, <1>15, <2>1, <2>2, PlainParts
<1>17. g2.res = Cat(a, Cat(one, b))
  <2>1. PICK c \in Seq(Sign) : c = Cat(a, one)
    BY <1>0, <1>15, CatIs
  <2>2. Cat(t, c) = c
    BY <1>6, <2>1, CatIs
  <2>3. Cat(Cat(a, one), b) = Cat(a, Cat(one, b))
    BY <1>0, <1>15, CatCat
  <2> QED
    BY <1>15, <2>1, <2>2, <2>3
<1> DEFINE G == {j \in 0 .. n : j >= 1 => f[j].res = g2.res /\ f[j].done}
<1>18. 0 \in G
  OBVIOUS
<1>19. ASSUME NEW j \in 0 .. n - 1, j \in G PROVE j + 1 \in G
  <2>1. f[j + 1] = ReplaceNext(f[j], old, one, all) /\ f[j] \in Stage
    BY <1>5 DEF Turns
  <2>2. CASE j = 0
    <3>1. f[j + 1] = g2 /\ j + 1 \in 0 .. n
      BY <1>8, <1>10, <2>1, <2>2
    <3> QED
      BY <1>15, <3>1
  <2>3. CASE j # 0
    <3>1. f[j].res = g2.res /\ f[j].done
      BY <1>19, <2>3
    <3>2. f[j + 1] = [f[j] EXCEPT !.done = TRUE]
      BY <2>1, <3>1 DEF ReplaceNext
    <3>3. f[j + 1].res = f[j].res /\ f[j + 1].done
      BY <2>1, <3>2 DEF Stage
    <3>4. j + 1 \in 0 .. n
      OBVIOUS
    <3> QED
      BY <3>1, <3>3, <3>4
  <2> QED
    BY <2>2, <2>3
<1>20. f[n].res = g2.res
  <2>1. n \in 0 .. n /\ n >= 1
    BY <1>2
  <2> HIDE DEF G
  <2>2. \A j \in 0 .. n : j \in G
    BY <1>18, <1>19, UpTo
  <2> QED
    BY <2>1, <2>2 DEF G
<1>21. Matches(Cat(a, Cat(one, b)), one, 0) = {Len(a)}
  BY <1>0, <1>15, <1>16, OneMark
<1> QED
  BY <1>5, <1>15, <1>17, <1>20, <1>21

-----------------------------------------------------------------------------
(* RewritesInv.                                                             *)

\* What the property says of a call.
ReplacedWell(s, old, new, all, val) ==
  LET marked == StringReplace(s, old, <<Fresh>>, all).res
  IN /\ val.done
     /\ StringReplace(marked, <<Fresh>>, old, TRUE).res = s
     /\ StringReplace(marked, <<Fresh>>, new, TRUE).res = val.res
     /\ all /\ old # <<>> => Matches(marked, old, 0) = {}
     /\ ~all /\ Matches(s, old, 0) # {} => Matches(marked, <<Fresh>>, 0) = {Min(Matches(s, old, 0))}

\* Characters are no marks.
LEMMA CharsArePlain ==
  ASSUME NEW s \in Seq(Char)
  PROVE  s \in Seq(Sign) /\ Unmarked(s, Fresh) /\ Unmarked(s, Other)
<1>1. Char \subseteq Sign /\ Fresh \notin Char /\ Other \notin Char
  <2>1. Char \subseteq Nat
    BY DEF Char
  <2>2. Fresh \notin Char
    BY AlphabetAssumption DEF Char
  <2>3. Other \notin Nat
    BY OtherIsNew
  <2> QED
    BY <2>1, <2>2, <2>3 DEF Sign
<1>2. \A i \in DOMAIN s : s[i] \in Char
  OBVIOUS
<1>3. s \in Seq(Sign)
  BY <1>1, SeqMonotonic
<1> QED
  BY <1>1, <1>2, <1>3 DEF Unmarked

LEMMA ReplacingIsWell ==
  ASSUME NEW s \in Seq(Char), NEW old \in Seq(Char), NEW new \in Seq(Char), NEW all \in BOOLEAN
  PROVE  ReplacedWell(s, old, new, all, StringReplace(s, old, new, all))
<1>1. PICK m \in Sign, o \in Sign : m = Fresh /\ o = Other /\ o # m
  BY OtherIsNew DEF Sign
<1>2. /\ s \in Seq(Sign) /\ old \in Seq(Sign) /\ new \in Seq(Sign)
      /\ Unmarked(s, m) /\ Unmarked(old, m) /\ Unmarked(s, o)
  BY <1>1, CharsArePlain
<1>3. PICK r : r = StringReplace(s, old, <<m>>, all)
  OBVIOUS
<1>4. PICK r2 : r2 = StringReplace(s, old, new, all)
  OBVIOUS
<1>5. BothEnd(r, r2, m, s, old, new, all)
  BY <1>2, <1>3, <1>4, ReplacedApart
<1>6. PICK t \in Seq(Sign) : t = r.res
  BY <1>5 DEF BothEnd
<1>7. Filled(t, m, old) = s /\ Filled(t, m, new) = r2.res
  BY <1>5, <1>6 DEF BothEnd
<1>8. Unmarked(t, o)
  <2>1. Unmarked(Filled(t, m, old), o)
    BY <1>2, <1>7
  <2> QED
    BY <1>1, <1>2, <2>1, PlainFilled
<1>9. StringReplace(t, <<m>>, old, TRUE).res = s /\ StringReplace(t, <<m>>, new, TRUE).res = r2.res
  <2>1. StringReplace(t, <<m>>, old, TRUE).res = Filled(t, m, old)
    BY <1>1, <1>2, <1>8, MarksReplaced
  <2>2. StringReplace(t, <<m>>, new, TRUE).res = Filled(t, m, new)
    BY <1>1, <1>2, <1>8, MarksReplaced
  <2> QED
    BY <1>7, <2>1, <2>2
<1>10. ASSUME all, old # <<>> PROVE Matches(t, old, 0) = {}
  <2>1. \A k \in Nat : ~Occurs(t, old, k)
    BY <1>5, <1>6, <1>10 DEF BothEnd
  <2>2. 0 \in Nat
    OBVIOUS
  <2>3. Matches(t, old, 0) = {k \in Nat : 0 <= k /\ Occurs(t, old, k)}
    BY <1>2, <2>2, MatchesAre
  <2> QED
    BY <2>1, <2>3
<1>11. ASSUME ~all, Matches(s, old, 0) # {} PROVE Matches(t, <<m>>, 0) = {Min(Matches(s, old, 0))}
  <2>1. PICK found : found = Matches(s, old, 0)
    OBVIOUS
  <2>2. PICK k : k = Min(found)
    OBVIOUS
  <2>3. PICK one \in Seq(Sign) : one = <<m>> /\ Len(one) = 1 /\ one[1] = m
    BY OneSign
  <2>4. t = StringReplace(s, old, one, FALSE).res
    BY <1>3, <1>6, <1>11, <2>3
  <2>5. Matches(t, one, 0) = {k}
    <3>1. found # {} /\ m \in Sign /\ s \in Seq(Sign) /\ Unmarked(s, m) /\ old \in Seq(Sign) /\ all \in BOOLEAN /\ all = FALSE
      BY <1>2, <1>11, <2>1
    <3>2. one \in Seq(Sign) /\ Len(one) = 1 /\ one[1] = m
      BY <2>3
    <3> QED
      <4>1. ReplacesFirst(m, s, old, found, k, one, t)
        BY ONLY <2>1, <2>2, <2>4, <3>1, <3>2 DEF ReplacesFirst
      <4> QED
        BY ONLY <4>1, FirstReplaced
  <2> QED
    BY <2>1, <2>2, <2>3, <2>5
<1>12. r2.done
  BY <1>5 DEF BothEnd
<1>13. t = StringReplace(s, old, <<Fresh>>, all).res
  BY <1>1, <1>3, <1>6
<1> QED
  BY <1>1, <1>4, <1>9, <1>10, <1>11, <1>12, <1>13 DEF ReplacedWell

\* What StringReplace was called on and what it returned.
ReplacedOnce ==
  call.op = "replace" =>
    \E s, old, new \in Seq(Char), all \in BOOLEAN :
      call.on = s /\ call.args = <<old, new, all>> /\ call.val = StringReplace(s, old, new, all)

LEMMA ReplacedStep == TextType /\ ReplacedOnce /\ [StrUtilNext]_strUtilVars => ReplacedOnce'
<1>1. CASE UNCHANGED strUtilVars
  BY <1>1 DEF ReplacedOnce, strUtilVars
<1>2. ASSUME TextType, StrUtilNext PROVE ReplacedOnce'
  <2>1. PICK op, args, ok, val : Recorded(op, args, ok, val)
    BY <1>2, CallIsRecorded
  <2>2. call'.op = op /\ call'.on = piece /\ call'.args = args /\ call'.val = val
    BY <2>1 DEF Recorded, Called
  <2>3. ASSUME op = "replace"
        PROVE  \E s, old, new \in Seq(Char), all \in BOOLEAN :
                 piece = s /\ args = <<old, new, all>> /\ val = StringReplace(s, old, new, all)
    <3>1. PICK old \in Subs, new \in Subs, all \in BOOLEAN :
            args = <<old, new, all>> /\ val = StringReplace(piece, old, new, all)
      BY <2>1, <2>3 DEF Recorded
    <3>2. old \in Seq(Char) /\ new \in Seq(Char) /\ piece \in Seq(Char)
      <4>1. old \in Seq(1 .. 127) /\ new \in Seq(1 .. 127) /\ 1 .. 127 \subseteq Char
        BY AlphabetAssumption DEF Char
      <4> QED
        BY <1>2, <4>1, SeqMonotonic DEF TextType
    <3> QED
      BY <3>1, <3>2
  <2> QED
    BY <2>2, <2>3 DEF ReplacedOnce
<1> QED
  BY <1>1, <1>2

LEMMA ReplacedOnceIsWell == ReplacedOnce => Replacements
<1> SUFFICES ASSUME ReplacedOnce, call.op = "replace"
             PROVE  ReplacedWell(call.on, call.args[1], call.args[2], call.args[3], call.val)
  BY DEF Replacements, ReplacedWell
<1>1. PICK s \in Seq(Char), old \in Seq(Char), new \in Seq(Char), all \in BOOLEAN :
        call.on = s /\ call.args = <<old, new, all>> /\ call.val = StringReplace(s, old, new, all)
  BY DEF ReplacedOnce
<1>2. call.args[1] = old /\ call.args[2] = new /\ call.args[3] = all
  BY <1>1
<1>3. ReplacedWell(s, old, new, all, StringReplace(s, old, new, all))
  BY ReplacingIsWell
<1> QED
  BY <1>1, <1>2, <1>3

\* StringReplace ends for all texts, and replaces either the first match or one
\* match after the other without looking at what it has put in; and Printf and
\* Appendf append all or nothing.
THEOREM RewritesInvariance == StrUtilSpec => []RewritesInv
<1>1. StrUtilInit => ReplacedOnce
  BY DEF StrUtilInit, Called, ReplacedOnce
<1>2. StrUtilSpec => []Replacements
  BY <1>1, TextTypeInit, TextTypeStep, ReplacedStep, ReplacedOnceIsWell, PTL DEF StrUtilSpec
<1>3. Replacements /\ WholeOutput => RewritesInv
  BY DEF RewritesInv
<1> QED
  BY <1>2, <1>3, OutputIsWhole, PTL

-----------------------------------------------------------------------------
(* Functions that read a text, or a list, from its first item to its last.   *)

\* f is such a function of s: what is known after so many items.
Reading(s, first, Step, f) ==
  f = [k \in 0 .. Len(s) |-> IF k = 0 THEN first ELSE Step[k][s[k]][f[k - 1]]]

\* There is one,
LEMMA ReadingExists ==
  ASSUME NEW S, NEW V, NEW first \in V, NEW Step \in [Nat -> [S -> [V -> V]]],
         NEW s \in Seq(S), NEW n \in Nat, n = Len(s)
  PROVE  \E f \in [0 .. n -> V] : Reading(s, first, Step, f)
<1> DEFINE Step2 == [k \in 1 .. n |-> Step[k][s[k]]]
<1>1. Step2 \in [1 .. n -> [V -> V]]
  <2> SUFFICES ASSUME NEW k \in 1 .. n PROVE Step[k][s[k]] \in [V -> V]
    OBVIOUS
  <2>1. k \in Nat /\ s[k] \in S
    OBVIOUS
  <2> QED
    BY <2>1
<1>2. PICK step2 \in [1 .. n -> [V -> V]] : step2 = Step2
  BY <1>1
<1>3. \A k \in 1 .. n : step2[k] = Step[k][s[k]]
  BY <1>2
<1> HIDE DEF Step2
<1>4. PICK f \in [0 .. n -> V] : Unfolds(f, n, first, step2)
  BY Recursion
<1>5. f = [k \in 0 .. n |-> IF k = 0 THEN first ELSE step2[k][f[k - 1]]]
  BY <1>4 DEF Unfolds
<1>6. \A k \in 0 .. n : k # 0 => k \in 1 .. n
  OBVIOUS
<1>7. f = [k \in 0 .. n |-> IF k = 0 THEN first ELSE Step[k][s[k]][f[k - 1]]]
  BY <1>3, <1>5, <1>6
<1> QED
  BY <1>7 DEF Reading

\* and with one item more it goes on from where it was.
OneMore(S, s, c, n, u) ==
  s \in Seq(S) /\ c \in S /\ n \in Nat /\ n = Len(s) /\ u = Append(s, c)

LEMMA ReadingMore ==
  ASSUME NEW S, NEW first, NEW Step, NEW s, NEW c, NEW n, NEW u, OneMore(S, s, c, n, u),
         NEW f, NEW g, Reading(s, first, Step, f), Reading(u, first, Step, g)
  PROVE  Len(u) = n + 1 /\ g[n + 1] = Step[n + 1][c][f[n]]
<1>0. s \in Seq(S) /\ c \in S /\ n \in Nat /\ n = Len(s) /\ u = Append(s, c)
  BY DEF OneMore
<1>1. Len(u) = n + 1 /\ u[n + 1] = c /\ \A k \in 1 .. n : u[k] = s[k]
  BY <1>0, AppendProperties
<1>2. f[0] = first /\ \A k \in 1 .. n : f[k] = Step[k][s[k]][f[k - 1]]
  <2>1. f = [k \in 0 .. n |-> IF k = 0 THEN first ELSE Step[k][s[k]][f[k - 1]]]
    BY <1>0 DEF Reading
  <2>2. ASSUME NEW k \in 1 .. n PROVE k \in 0 .. n /\ k # 0
    OBVIOUS
  <2>3. 0 \in 0 .. n
    BY <1>0
  <2> QED
    BY ONLY <2>1, <2>2, <2>3, Zenon
<1>3. g = [k \in 0 .. n + 1 |-> IF k = 0 THEN first ELSE Step[k][u[k]][g[k - 1]]]
  BY <1>0, <1>1 DEF Reading
<1>4. g[0] = first /\ \A k \in 1 .. n + 1 : g[k] = Step[k][u[k]][g[k - 1]]
  <2>1. ASSUME NEW k \in 1 .. n + 1 PROVE k \in 0 .. n + 1 /\ k # 0
    OBVIOUS
  <2>2. 0 \in 0 .. n + 1
    BY <1>0
  <2> QED
    BY ONLY <1>3, <2>1, <2>2, Zenon
<1> DEFINE G == {k \in 0 .. n : f[k] = g[k]}
<1>5. 0 \in G
  BY <1>0, <1>2, <1>4
<1>6. ASSUME NEW k \in 0 .. n - 1, k \in G PROVE k + 1 \in G
  <2>1. k + 1 \in 1 .. n /\ k + 1 \in 1 .. n + 1 /\ k + 1 \in 0 .. n /\ (k + 1) - 1 = k
    BY <1>0
  <2>2. f[k + 1] = Step[k + 1][s[k + 1]][f[k]]
    BY <1>2, <2>1
  <2>3. g[k + 1] = Step[k + 1][u[k + 1]][g[k]]
    BY <1>4, <2>1
  <2> QED
    BY <1>1, <1>6, <2>1, <2>2, <2>3
<1>7. f[n] = g[n]
  <2>1. n \in G
    <3> HIDE DEF G
    <3>1. \A k \in 0 .. n : k \in G
      BY <1>0, <1>5, <1>6, UpTo
    <3> QED
      BY <1>0, <3>1
  <2> QED
    BY <2>1
<1>8. g[n + 1] = Step[n + 1][c][g[n]]
  <2>1. n + 1 \in 1 .. n + 1 /\ (n + 1) - 1 = n
    BY <1>0
  <2>2. g[n + 1] = Step[n + 1][u[n + 1]][g[(n + 1) - 1]]
    BY <1>4, <2>1
  <2> QED
    BY <1>1, <2>1, <2>2
<1> QED
  BY <1>1, <1>7, <1>8

-----------------------------------------------------------------------------
(* Split.                                                                   *)

Line == Seq(Sign)
Lines == Seq(Line)
Parts == [texts : Lines, last : Line]
NoParts == [texts |-> <<>>, last |-> <<>>]

LEMMA NoPartsIs == NoParts \in Parts /\ NoParts.texts = <<>> /\ NoParts.last = <<>>
<1>1. <<>> \in Lines /\ <<>> \in Line
  BY EmptySeq DEF Line, Lines
<1> QED
  BY <1>1 DEF NoParts, Parts

LEMMA SplitNextIs ==
  ASSUME NEW t \in Parts, NEW c \in Sign, NEW D
  PROVE  /\ SplitNext(t, c, D) \in Parts
         /\ c \in D => /\ SplitNext(t, c, D).texts = Append(t.texts, t.last)
                       /\ SplitNext(t, c, D).last = <<>>
         /\ c \notin D => /\ SplitNext(t, c, D).texts = t.texts
                          /\ SplitNext(t, c, D).last = Append(t.last, c)
<1>1. t.texts \in Lines /\ t.last \in Line /\ t = [texts |-> t.texts, last |-> t.last]
  BY DEF Parts
<1>2. CASE c \in D
  <2>1. SplitNext(t, c, D) = [texts |-> Append(t.texts, t.last), last |-> <<>>]
    BY <1>2 DEF SplitNext
  <2>2. Append(t.texts, t.last) \in Lines
    BY <1>1, AppendProperties DEF Lines
  <2>3. <<>> \in Line
    BY EmptySeq DEF Line
  <2>4. PICK a \in Lines, b \in Line : a = Append(t.texts, t.last) /\ b = <<>>
    BY <2>2, <2>3
  <2> QED
    BY <1>2, <2>1, <2>4 DEF Parts
<1>3. CASE c \notin D
  <2>1. PICK b \in Line : b = Append(t.last, c)
    BY <1>1, AppendProperties DEF Line
  <2>2. SplitNext(t, c, D) = [texts |-> t.texts, last |-> b]
    BY <1>1, <1>3, <2>1 DEF SplitNext
  <2> QED
    BY <1>1, <1>3, <2>1, <2>2 DEF Parts
<1> QED
  BY <1>2, <1>3

SplitStep(D) == [k \in Nat |-> [c \in Sign |-> [t \in Parts |-> SplitNext(t, c, D)]]]

Splits(s, D) ==
  CHOOSE f : f = [k \in 0 .. Len(s) |-> IF k = 0 THEN NoParts ELSE SplitNext(f[k - 1], s[k], D)]

\* The parts are read one character after the other.
LEMMA SplitsIs ==
  ASSUME NEW s \in Line, NEW D, NEW n \in Nat, n = Len(s), NEW f, f = Splits(s, D)
  PROVE  Reading(s, NoParts, SplitStep(D), f) /\ f[n] \in Parts
<1>1. PICK Step \in [Nat -> [Sign -> [Parts -> Parts]]] :
        /\ Step = SplitStep(D)
        /\ \A k \in Nat, c \in Sign, t \in Parts : Step[k][c][t] = SplitNext(t, c, D)
  <2>1. SplitStep(D) \in [Nat -> [Sign -> [Parts -> Parts]]]
    BY SplitNextIs DEF SplitStep
  <2>2. \A k \in Nat, c \in Sign, t \in Parts : SplitStep(D)[k][c][t] = SplitNext(t, c, D)
    BY DEF SplitStep
  <2> QED
    BY <2>1, <2>2
<1>2. s \in Seq(Sign) /\ NoParts \in Parts
  BY NoPartsIs DEF Line
<1>3. PICK g \in [0 .. n -> Parts] : Reading(s, NoParts, Step, g)
  BY <1>2, ReadingExists
<1>4. ASSUME NEW k \in 1 .. n PROVE k \in Nat /\ k - 1 \in 0 .. n /\ s[k] \in Sign
  BY <1>2
<1>5. g = [k \in 0 .. n |-> IF k = 0 THEN NoParts ELSE SplitNext(g[k - 1], s[k], D)]
  <2>1. g = [k \in 0 .. n |-> IF k = 0 THEN NoParts ELSE Step[k][s[k]][g[k - 1]]]
    BY <1>3 DEF Reading
  <2>2. ASSUME NEW k \in 0 .. n, k # 0 PROVE Step[k][s[k]][g[k - 1]] = SplitNext(g[k - 1], s[k], D)
    <3>1. k \in 1 .. n
      BY <2>2
    <3>2. k \in Nat /\ s[k] \in Sign /\ g[k - 1] \in Parts
      BY <1>4, <3>1
    <3> QED
      BY ONLY <1>1, <3>2
  <2> QED
    BY <2>1, <2>2
<1>6. f = [k \in 0 .. n |-> IF k = 0 THEN NoParts ELSE SplitNext(f[k - 1], s[k], D)]
  BY <1>5 DEF Splits
<1> DEFINE G == {k \in 0 .. n : f[k] = g[k]}
<1>7. 0 \in G
  BY <1>5, <1>6
<1>8. ASSUME NEW k \in 0 .. n - 1, k \in G PROVE k + 1 \in G
  <2>1. k + 1 \in 0 .. n /\ k + 1 # 0 /\ (k + 1) - 1 = k
    OBVIOUS
  <2>2. f[k + 1] = SplitNext(f[k], s[k + 1], D) /\ g[k + 1] = SplitNext(g[k], s[k + 1], D)
    BY <1>5, <1>6, <2>1
  <2> QED
    BY <1>8, <2>1, <2>2
<1>9. \A k \in 0 .. n : f[k] = g[k]
  <2>1. \A k \in 0 .. n : k \in G
    <3> HIDE DEF G
    <3> QED
      BY <1>7, <1>8, UpTo
  <2> QED
    BY <2>1
<1>10. f = g
  BY <1>5, <1>6, <1>9
<1> QED
  BY <1>1, <1>3, <1>10

LEMMA SplittingIs ==
  ASSUME NEW s \in Line, NEW D
  PROVE  Splitting(s, D) \in Parts
<1>1. PICK n \in Nat : n = Len(s)
  BY DEF Line
<1>2. PICK f : f = Splits(s, D)
  OBVIOUS
<1>3. Splitting(s, D) = f[n]
  BY <1>1, <1>2 DEF Splitting, Splits, NoParts
<1> QED
  BY <1>1, <1>2, <1>3, SplitsIs

LEMMA SplittingNone ==
  ASSUME NEW D PROVE Splitting(<<>>, D) = NoParts
<1>1. PICK s \in Line : s = <<>> /\ Len(s) = 0
  BY EmptySeq DEF Line
<1>2. PICK f : f = Splits(s, D)
  OBVIOUS
<1>3. Splitting(s, D) = f[0]
  BY <1>1, <1>2 DEF Splitting, Splits, NoParts
<1>4. PICK n \in Nat : n = 0
  OBVIOUS
<1>5. Reading(s, NoParts, SplitStep(D), f)
  BY <1>1, <1>2, <1>4, SplitsIs
<1>6. f[0] = NoParts
  BY <1>1, <1>5 DEF Reading
<1> QED
  BY <1>1, <1>3, <1>6

LEMMA SplittingMore ==
  ASSUME NEW s \in Line, NEW c \in Sign, NEW D
  PROVE  Splitting(Append(s, c), D) = SplitNext(Splitting(s, D), c, D)
<1>1. PICK n \in Nat : n = Len(s)
  BY DEF Line
<1>2. PICK u \in Line : u = Append(s, c)
  BY AppendProperties DEF Line
<1>3. PICK f, g : f = Splits(s, D) /\ g = Splits(u, D)
  OBVIOUS
<1>4. Reading(s, NoParts, SplitStep(D), f) /\ f[n] \in Parts
  BY <1>1, <1>3, SplitsIs
<1>5. Reading(u, NoParts, SplitStep(D), g)
  <2>1. PICK m \in Nat : m = Len(u)
    BY DEF Line
  <2> QED
    BY <1>3, <2>1, SplitsIs
<1>6. Len(u) = n + 1 /\ g[n + 1] = SplitStep(D)[n + 1][c][f[n]]
  <2>1. s \in Seq(Sign)
    BY DEF Line
  <2>2. PICK Step, first : Step = SplitStep(D) /\ first = NoParts
    OBVIOUS
  <2>3. Reading(s, first, Step, f) /\ Reading(u, first, Step, g)
    BY <1>4, <1>5, <2>2
  <2>4. Len(u) = n + 1 /\ g[n + 1] = Step[n + 1][c][f[n]]
    <3>1. OneMore(Sign, s, c, n, u)
      BY <1>1, <1>2, <2>1 DEF OneMore
    <3> QED
      BY ONLY <2>3, <3>1, ReadingMore
  <2> QED
    BY <2>2, <2>4
<1>7. SplitStep(D)[n + 1][c][f[n]] = SplitNext(f[n], c, D)
  BY <1>4 DEF SplitStep
<1>8. Splitting(s, D) = f[n]
  BY <1>1, <1>3 DEF Splitting, Splits, NoParts
<1>9. Splitting(u, D) = g[n + 1]
  BY <1>3, <1>6 DEF Splitting, Splits, NoParts
<1> QED
  BY <1>2, <1>6, <1>7, <1>8, <1>9

-----------------------------------------------------------------------------
(* Filtered and Join.                                                       *)

\* One text more for a predicate to keep or not.
Kept(v, x, p) == IF Keeps(p, x) THEN Append(v, x) ELSE v

LEMMA KeptIs ==
  ASSUME NEW v \in Lines, NEW x \in Line, NEW p PROVE Kept(v, x, p) \in Lines
<1>1. Append(v, x) \in Lines
  BY AppendProperties DEF Lines
<1> QED
  BY <1>1 DEF Kept

LEMMA NoLines == <<>> \in Lines /\ <<>> \in Line
BY EmptySeq DEF Line, Lines

KeptStep(p) == [k \in Nat |-> [x \in Line |-> [v \in Lines |-> Kept(v, x, p)]]]

Keeping(s, p) ==
  CHOOSE f : f = [k \in 0 .. Len(s) |-> IF k = 0 THEN <<>> ELSE Kept(f[k - 1], s[k], p)]

LEMMA KeepingIs ==
  ASSUME NEW s \in Lines, NEW p, NEW n \in Nat, n = Len(s), NEW f, f = Keeping(s, p)
  PROVE  Reading(s, <<>>, KeptStep(p), f) /\ f[n] \in Lines
<1>1. PICK Step \in [Nat -> [Line -> [Lines -> Lines]]] :
        /\ Step = KeptStep(p)
        /\ \A k \in Nat, x \in Line, v \in Lines : Step[k][x][v] = Kept(v, x, p)
  <2>1. KeptStep(p) \in [Nat -> [Line -> [Lines -> Lines]]]
    BY KeptIs DEF KeptStep
  <2>2. \A k \in Nat, x \in Line, v \in Lines : KeptStep(p)[k][x][v] = Kept(v, x, p)
    BY DEF KeptStep
  <2> QED
    BY <2>1, <2>2
<1>2. s \in Seq(Line) /\ <<>> \in Lines
  BY NoLines DEF Lines
<1>3. PICK g \in [0 .. n -> Lines] : Reading(s, <<>>, Step, g)
  BY <1>2, ReadingExists
<1>4. ASSUME NEW k \in 1 .. n PROVE k \in Nat /\ k - 1 \in 0 .. n /\ s[k] \in Line
  BY <1>2
<1>5. g = [k \in 0 .. n |-> IF k = 0 THEN <<>> ELSE Kept(g[k - 1], s[k], p)]
  <2>1. g = [k \in 0 .. n |-> IF k = 0 THEN <<>> ELSE Step[k][s[k]][g[k - 1]]]
    BY <1>3 DEF Reading
  <2>2. ASSUME NEW k \in 0 .. n, k # 0 PROVE Step[k][s[k]][g[k - 1]] = Kept(g[k - 1], s[k], p)
    <3>1. k \in 1 .. n
      BY <2>2
    <3>2. k \in Nat /\ s[k] \in Line /\ g[k - 1] \in Lines
      BY <1>4, <3>1
    <3> QED
      BY ONLY <1>1, <3>2
  <2> QED
    BY <2>1, <2>2
<1>6. f = [k \in 0 .. n |-> IF k = 0 THEN <<>> ELSE Kept(f[k - 1], s[k], p)]
  BY <1>5 DEF Keeping
<1> DEFINE G == {k \in 0 .. n : f[k] = g[k]}
<1>7. 0 \in G
  BY <1>5, <1>6
<1>8. ASSUME NEW k \in 0 .. n - 1, k \in G PROVE k + 1 \in G
  <2>1. k + 1 \in 0 .. n /\ k + 1 # 0 /\ (k + 1) - 1 = k
    OBVIOUS
  <2>2. f[k + 1] = Kept(f[k], s[k + 1], p) /\ g[k + 1] = Kept(g[k], s[k + 1], p)
    BY <1>5, <1>6, <2>1
  <2> QED
    BY <1>8, <2>1, <2>2
<1>9. \A k \in 0 .. n : f[k] = g[k]
  <2>1. \A k \in 0 .. n : k \in G
    <3> HIDE DEF G
    <3> QED
      BY <1>7, <1>8, UpTo
  <2> QED
    BY <2>1
<1>10. f = g
  BY <1>5, <1>6, <1>9
<1>11. n \in 0 .. n
  OBVIOUS
<1>12. g[n] \in Lines
  BY ONLY <1>3, <1>11
<1>13. Reading(s, <<>>, KeptStep(p), f)
  BY ONLY <1>1, <1>3, <1>10
<1> QED
  BY ONLY <1>10, <1>12, <1>13

LEMMA FilteredIs ==
  ASSUME NEW s \in Lines, NEW p
  PROVE  Filtered(s, p) \in Lines
<1>1. PICK n \in Nat : n = Len(s)
  BY DEF Lines
<1>2. PICK f : f = Keeping(s, p)
  OBVIOUS
<1>3. Filtered(s, p) = f[n]
  BY <1>1, <1>2 DEF Filtered, Keeping, Kept
<1> QED
  BY <1>1, <1>2, <1>3, KeepingIs

LEMMA FilteredNone ==
  ASSUME NEW p PROVE Filtered(<<>>, p) = <<>>
<1>1. PICK s \in Lines : s = <<>> /\ Len(s) = 0
  BY EmptySeq DEF Lines
<1>2. PICK f : f = Keeping(s, p)
  OBVIOUS
<1>3. Filtered(s, p) = f[0]
  BY <1>1, <1>2 DEF Filtered, Keeping, Kept
<1>4. PICK n \in Nat : n = 0
  OBVIOUS
<1>5. Reading(s, <<>>, KeptStep(p), f)
  BY <1>1, <1>2, <1>4, KeepingIs
<1>6. f[0] = <<>>
  BY <1>1, <1>5 DEF Reading
<1> QED
  BY <1>1, <1>3, <1>6

LEMMA FilteredMore ==
  ASSUME NEW s \in Lines, NEW c \in Line, NEW p, NEW n \in Nat, n = Len(s)
  PROVE  Filtered(Append(s, c), p) = Kept(Filtered(s, p), c, p)
<1>2. PICK u \in Lines : u = Append(s, c)
  BY AppendProperties DEF Lines
<1>3. PICK f, g : f = Keeping(s, p) /\ g = Keeping(u, p)
  OBVIOUS
<1>4. Reading(s, <<>>, KeptStep(p), f) /\ f[n] \in Lines
  BY <1>3, KeepingIs
<1>5. Reading(u, <<>>, KeptStep(p), g)
  <2>1. PICK m \in Nat : m = Len(u)
    BY DEF Lines
  <2> QED
    BY <1>3, <2>1, KeepingIs
<1>6. Len(u) = n + 1 /\ g[n + 1] = KeptStep(p)[n + 1][c][f[n]]
  <2>1. s \in Seq(Line)
    BY DEF Lines
  <2>2. PICK Step, first : Step = KeptStep(p) /\ first = <<>>
    OBVIOUS
  <2>3. Reading(s, first, Step, f) /\ Reading(u, first, Step, g)
    BY <1>4, <1>5, <2>2
  <2>4. Len(u) = n + 1 /\ g[n + 1] = Step[n + 1][c][f[n]]
    <3>1. OneMore(Line, s, c, n, u)
      BY <1>2, <2>1 DEF OneMore
    <3> QED
      BY ONLY <2>3, <3>1, ReadingMore
  <2> QED
    BY <2>2, <2>4
<1>7. KeptStep(p)[n + 1][c][f[n]] = Kept(f[n], c, p)
  BY <1>4 DEF KeptStep
<1>8. Filtered(s, p) = f[n]
  BY <1>3 DEF Filtered, Keeping, Kept
<1>9. Filtered(u, p) = g[n + 1]
  BY <1>3, <1>6 DEF Filtered, Keeping, Kept
<1> QED
  BY <1>2, <1>6, <1>7, <1>8, <1>9

\* One text more to be joined, the k-th.
Linked(k, v, x, d) == v \o (IF k = 1 THEN <<>> ELSE <<d>>) \o x

LEMMA LinkedIs ==
  ASSUME NEW k, NEW v \in Line, NEW x \in Line, NEW d \in Sign PROVE Linked(k, v, x, d) \in Line
<1>1. PICK w \in Line : w = IF k = 1 THEN <<>> ELSE <<d>>
  <2>1. <<>> \in Line /\ <<d>> \in Line
    BY EmptySeq DEF Line
  <2> QED
    BY <2>1
<1>2. (v \o w) \o x \in Line
  BY ConcatProperties DEF Line
<1> QED
  BY <1>1, <1>2 DEF Linked

LinkStep(d) == [k \in Nat |-> [x \in Line |-> [v \in Line |-> Linked(k, v, x, d)]]]

Linking(s, d) ==
  CHOOSE f : f = [k \in 0 .. Len(s) |-> IF k = 0 THEN <<>> ELSE Linked(k, f[k - 1], s[k], d)]

LEMMA LinkingIs ==
  ASSUME NEW s \in Lines, NEW d \in Sign, NEW n \in Nat, n = Len(s), NEW f, f = Linking(s, d)
  PROVE  Reading(s, <<>>, LinkStep(d), f) /\ f[n] \in Line
<1>1. PICK Step \in [Nat -> [Line -> [Line -> Line]]] :
        /\ Step = LinkStep(d)
        /\ \A k \in Nat, x \in Line, v \in Line : Step[k][x][v] = Linked(k, v, x, d)
  <2>1. LinkStep(d) \in [Nat -> [Line -> [Line -> Line]]]
    BY LinkedIs DEF LinkStep
  <2>2. \A k \in Nat, x \in Line, v \in Line : LinkStep(d)[k][x][v] = Linked(k, v, x, d)
    BY DEF LinkStep
  <2> QED
    BY <2>1, <2>2
<1>2. s \in Seq(Line) /\ <<>> \in Line
  BY NoLines DEF Lines
<1>3. PICK g \in [0 .. n -> Line] : Reading(s, <<>>, Step, g)
  BY <1>2, ReadingExists
<1>4. ASSUME NEW k \in 1 .. n PROVE k \in Nat /\ k - 1 \in 0 .. n /\ s[k] \in Line
  BY <1>2
<1>5. g = [k \in 0 .. n |-> IF k = 0 THEN <<>> ELSE Linked(k, g[k - 1], s[k], d)]
  <2>1. g = [k \in 0 .. n |-> IF k = 0 THEN <<>> ELSE Step[k][s[k]][g[k - 1]]]
    BY <1>3 DEF Reading
  <2>2. ASSUME NEW k \in 0 .. n, k # 0 PROVE Step[k][s[k]][g[k - 1]] = Linked(k, g[k - 1], s[k], d)
    <3>1. k \in 1 .. n
      BY <2>2
    <3>2. k \in Nat /\ s[k] \in Line /\ g[k - 1] \in Line
      BY <1>4, <3>1
    <3> QED
      BY ONLY <1>1, <3>2
  <2> QED
    BY <2>1, <2>2
<1>6. f = [k \in 0 .. n |-> IF k = 0 THEN <<>> ELSE Linked(k, f[k - 1], s[k], d)]
  BY <1>5 DEF Linking
<1> DEFINE G == {k \in 0 .. n : f[k] = g[k]}
<1>7. 0 \in G
  BY <1>5, <1>6
<1>8. ASSUME NEW k \in 0 .. n - 1, k \in G PROVE k + 1 \in G
  <2>1. k + 1 \in 0 .. n /\ k + 1 # 0 /\ (k + 1) - 1 = k
    OBVIOUS
  <2>2. f[k + 1] = Linked(k + 1, f[k], s[k + 1], d) /\ g[k + 1] = Linked(k + 1, g[k], s[k + 1], d)
    BY <1>5, <1>6, <2>1
  <2> QED
    BY <1>8, <2>1, <2>2
<1>9. \A k \in 0 .. n : f[k] = g[k]
  <2>1. \A k \in 0 .. n : k \in G
    <3> HIDE DEF G
    <3> QED
      BY <1>7, <1>8, UpTo
  <2> QED
    BY <2>1
<1>10. f = g
  BY <1>5, <1>6, <1>9
<1>11. n \in 0 .. n
  OBVIOUS
<1>12. g[n] \in Line
  BY ONLY <1>3, <1>11
<1>13. Reading(s, <<>>, LinkStep(d), f)
  BY ONLY <1>1, <1>3, <1>10
<1> QED
  BY ONLY <1>10, <1>12, <1>13

LEMMA JoinIsLine ==
  ASSUME NEW s \in Lines, NEW d \in Sign
  PROVE  Join(s, d) \in Line
<1>1. PICK n \in Nat : n = Len(s)
  BY DEF Lines
<1>2. PICK f : f = Linking(s, d)
  OBVIOUS
<1>3. Join(s, d) = f[n]
  BY <1>1, <1>2 DEF Join, Linking, Linked
<1> QED
  BY <1>1, <1>2, <1>3, LinkingIs

LEMMA JoinNone ==
  ASSUME NEW d \in Sign PROVE Join(<<>>, d) = <<>>
<1>1. PICK s \in Lines : s = <<>> /\ Len(s) = 0
  BY EmptySeq DEF Lines
<1>2. PICK f : f = Linking(s, d)
  OBVIOUS
<1>3. Join(s, d) = f[0]
  BY <1>1, <1>2 DEF Join, Linking, Linked
<1>4. PICK n \in Nat : n = 0
  OBVIOUS
<1>5. Reading(s, <<>>, LinkStep(d), f)
  BY <1>1, <1>2, <1>4, LinkingIs
<1>6. f[0] = <<>>
  BY <1>1, <1>5 DEF Reading
<1> QED
  BY <1>1, <1>3, <1>6

LEMMA JoinMore ==
  ASSUME NEW s \in Lines, NEW c \in Line, NEW d \in Sign, NEW n \in Nat, n = Len(s)
  PROVE  Join(Append(s, c), d) = Linked(n + 1, Join(s, d), c, d)
<1>2. PICK u \in Lines : u = Append(s, c)
  BY AppendProperties DEF Lines
<1>3. PICK f, g : f = Linking(s, d) /\ g = Linking(u, d)
  OBVIOUS
<1>4. Reading(s, <<>>, LinkStep(d), f) /\ f[n] \in Line
  BY <1>3, LinkingIs
<1>5. Reading(u, <<>>, LinkStep(d), g)
  <2>1. PICK m \in Nat : m = Len(u)
    BY DEF Lines
  <2> QED
    BY <1>3, <2>1, LinkingIs
<1>6. Len(u) = n + 1 /\ g[n + 1] = LinkStep(d)[n + 1][c][f[n]]
  <2>1. s \in Seq(Line)
    BY DEF Lines
  <2>2. PICK Step, first : Step = LinkStep(d) /\ first = <<>>
    OBVIOUS
  <2>3. Reading(s, first, Step, f) /\ Reading(u, first, Step, g)
    BY <1>4, <1>5, <2>2
  <2>4. Len(u) = n + 1 /\ g[n + 1] = Step[n + 1][c][f[n]]
    <3>1. OneMore(Line, s, c, n, u)
      BY <1>2, <2>1 DEF OneMore
    <3> QED
      BY ONLY <2>3, <3>1, ReadingMore
  <2> QED
    BY <2>2, <2>4
<1>7. LinkStep(d)[n + 1][c][f[n]] = Linked(n + 1, f[n], c, d)
  BY <1>4 DEF LinkStep
<1>8. Join(s, d) = f[n]
  BY <1>3 DEF Join, Linking, Linked
<1>9. Join(u, d) = g[n + 1]
  BY <1>3, <1>6 DEF Join, Linking, Linked
<1> QED
  BY <1>2, <1>6, <1>7, <1>8, <1>9

-----------------------------------------------------------------------------
(* Words: what Split finds between white space.                             *)

NoneIn(t, C) == \A i \in DOMAIN t : t[i] \notin C
AllIn(t, C) == \A i \in DOMAIN t : t[i] \in C

LEMMA NoneInMore ==
  ASSUME NEW v \in Seq(Sign), NEW c \in Sign, NEW C
  PROVE  NoneIn(Append(v, c), C) <=> NoneIn(v, C) /\ c \notin C
<1>1. PICK u \in Seq(Sign) : u = Append(v, c)
  BY AppendProperties
<1>2. PICK n \in Nat : n = Len(v)
  OBVIOUS
<1>3. Len(u) = n + 1 /\ u[n + 1] = c /\ \A k \in 1 .. n : u[k] = v[k]
  BY <1>1, <1>2, AppendProperties
<1>4. DOMAIN u = 1 .. n + 1 /\ DOMAIN v = 1 .. n
  BY <1>2, <1>3
<1>5. n + 1 \in 1 .. n + 1 /\ \A k \in 1 .. n + 1 : k = n + 1 \/ k \in 1 .. n
  OBVIOUS
<1>6. \A k \in 1 .. n : k \in 1 .. n + 1
  OBVIOUS
<1> QED
  BY <1>1, <1>3, <1>4, <1>5, <1>6 DEF NoneIn

LEMMA AllInMore ==
  ASSUME NEW v \in Seq(Sign), NEW c \in Sign, NEW C
  PROVE  AllIn(Append(v, c), C) <=> AllIn(v, C) /\ c \in C
<1>1. PICK u \in Seq(Sign) : u = Append(v, c)
  BY AppendProperties
<1>2. PICK n \in Nat : n = Len(v)
  OBVIOUS
<1>3. Len(u) = n + 1 /\ u[n + 1] = c /\ \A k \in 1 .. n : u[k] = v[k]
  BY <1>1, <1>2, AppendProperties
<1>4. DOMAIN u = 1 .. n + 1 /\ DOMAIN v = 1 .. n
  BY <1>2, <1>3
<1>5. n + 1 \in 1 .. n + 1 /\ \A k \in 1 .. n + 1 : k = n + 1 \/ k \in 1 .. n
  OBVIOUS
<1>6. \A k \in 1 .. n : k \in 1 .. n + 1
  OBVIOUS
<1> QED
  BY <1>1, <1>3, <1>4, <1>5, <1>6 DEF AllIn

LEMMA NoneInNone == \A C : NoneIn(<<>>, C) /\ AllIn(<<>>, C)
BY DEF NoneIn, AllIn

\* SkipWhitespace keeps what has no white space in it, but "".
LEMMA KeepsWord ==
  ASSUME NEW t \in Seq(Sign), NoneIn(t, Spaces)
  PROVE  Keeps("SkipWhitespace", t) <=> t # <<>>
<1>1. PICK l \in Nat : l = Len(t)
  OBVIOUS
<1>2. PICK r : r = Reverse(t) /\ Len(r) = l /\ \A i \in 1 .. l : r[i] = t[(l - i) + 1]
  <2>1. Len(Reverse(t)) = l
    BY <1>1 DEF Reverse
  <2>2. Reverse(t) = [i \in 1 .. l |-> t[(l - i) + 1]]
    BY <1>1 DEF Reverse
  <2>3. \A i \in 1 .. l : Reverse(t)[i] = t[(l - i) + 1]
    BY ONLY <2>2
  <2> QED
    BY <2>1, <2>3
<1>3. PICK n : n = Leading(r, Spaces)
  OBVIOUS
<1>4. n \in 0 .. l /\ \A i \in 1 .. n : r[i] \in Spaces
  BY <1>2, <1>3, LeadingIs
<1>5. n = 0
  <2> SUFFICES ASSUME n # 0 PROVE FALSE
    OBVIOUS
  <2>1. 1 \in 1 .. n /\ 1 \in 1 .. l /\ (l - 1) + 1 = l /\ l \in 1 .. l
    BY <1>1, <1>4
  <2>2. r[1] = t[l]
    BY <1>2, <2>1
  <2>3. t[l] \in Spaces
    BY <1>4, <2>1, <2>2
  <2>4. l \in DOMAIN t
    BY <1>1, <2>1
  <2> QED
    BY <2>3, <2>4 DEF NoneIn
<1>6. Keeps("SkipWhitespace", t) <=> n # l
  BY <1>1, <1>2, <1>3 DEF Keeps, Trailing
<1>7. t = <<>> <=> l = 0
  BY <1>1, EmptySeq
<1> QED
  BY <1>5, <1>6, <1>7

\* The words that end in s, the one that does not, and all of them.
Ended(s) == Filtered(Splitting(s, Spaces).texts, "SkipWhitespace")
OpenWord(s) == Splitting(s, Spaces).last
WordsOf(s) == SplitIf(s, Spaces, "SkipWhitespace")

Taken(e, o) == IF o = <<>> THEN e ELSE Append(e, o)

LEMMA TakenIs ==
  ASSUME NEW e \in Lines, NEW o \in Line PROVE Taken(e, o) \in Lines
<1>1. Append(e, o) \in Lines
  BY AppendProperties DEF Lines
<1> QED
  BY <1>1 DEF Taken

LEMMA WordTypes ==
  ASSUME NEW s \in Line
  PROVE  Ended(s) \in Lines /\ OpenWord(s) \in Line
<1>1. PICK t \in Parts : t = Splitting(s, Spaces)
  BY SplittingIs
<1>2. t.texts \in Lines /\ t.last \in Line
  BY <1>1 DEF Parts
<1> QED
  BY <1>1, <1>2, FilteredIs DEF Ended, OpenWord

LEMMA FilteredOne ==
  ASSUME NEW t \in Lines, NEW x \in Line, NEW p
  PROVE  Filtered(Append(t, x), p) = Kept(Filtered(t, p), x, p)
<1>1. PICK n \in Nat : n = Len(t)
  BY DEF Lines
<1> QED
  BY <1>1, FilteredMore

LEMMA WordTurn ==
  ASSUME NEW s \in Line, NEW c \in Sign
  PROVE  /\ c \in Spaces => /\ Ended(Append(s, c)) = Kept(Ended(s), OpenWord(s), "SkipWhitespace")
                            /\ OpenWord(Append(s, c)) = <<>>
         /\ c \notin Spaces => /\ Ended(Append(s, c)) = Ended(s)
                               /\ OpenWord(Append(s, c)) = Append(OpenWord(s), c)
<1>1. PICK t \in Parts : t = Splitting(s, Spaces)
  BY SplittingIs
<1>2. PICK u \in Parts : u = SplitNext(t, c, Spaces)
  BY SplitNextIs
<1>3. u = Splitting(Append(s, c), Spaces)
  BY <1>1, <1>2, SplittingMore
<1>4. t.texts \in Lines /\ t.last \in Line
  BY DEF Parts
<1>5. CASE c \in Spaces
  <2>1. u.texts = Append(t.texts, t.last) /\ u.last = <<>>
    BY <1>2, <1>5, SplitNextIs
  <2>2. Filtered(u.texts, "SkipWhitespace") = Kept(Filtered(t.texts, "SkipWhitespace"), t.last, "SkipWhitespace")
    BY <1>4, <2>1, FilteredOne
  <2> QED
    BY <1>1, <1>3, <1>5, <2>1, <2>2 DEF Ended, OpenWord
<1>6. CASE c \notin Spaces
  <2>1. u.texts = t.texts /\ u.last = Append(t.last, c)
    BY <1>2, <1>6, SplitNextIs
  <2> QED
    BY <1>1, <1>3, <1>6, <2>1 DEF Ended, OpenWord
<1> QED
  BY <1>5, <1>6

LEMMA WordNone == Ended(<<>>) = <<>> /\ OpenWord(<<>>) = <<>> /\ WordsOf(<<>>) = <<>>
<1>1. Splitting(<<>>, Spaces).texts = <<>> /\ Splitting(<<>>, Spaces).last = <<>>
  BY SplittingNone, NoPartsIs
<1>2. Filtered(<<>>, "SkipWhitespace") = <<>>
  BY FilteredNone
<1> QED
  BY <1>1, <1>2 DEF Ended, OpenWord, WordsOf, SplitIf, Split

\* The open word is one.
LEMMA OpenIsWord ==
  ASSUME NEW s \in Seq(Sign) PROVE NoneIn(OpenWord(s), Spaces)
<1> DEFINE G == {v \in Seq(Sign) : NoneIn(OpenWord(v), Spaces)}
<1>1. <<>> \in G
  BY EmptySeq, WordNone, NoneInNone
<1>2. ASSUME NEW v \in Seq(Sign), NEW c \in Sign, v \in G PROVE Append(v, c) \in G
  <2>1. PICK u \in Seq(Sign) : u = Append(v, c)
    BY AppendProperties
  <2>2. v \in Line
    BY DEF Line
  <2>3. CASE c \in Spaces
    <3>1. OpenWord(u) = <<>>
      BY <2>1, <2>2, <2>3, WordTurn
    <3> QED
      BY <2>1, <3>1, NoneInNone
  <2>4. CASE c \notin Spaces
    <3>1. PICK o \in Seq(Sign) : o = OpenWord(v)
      BY <2>2, WordTypes DEF Line
    <3>2. OpenWord(u) = Append(o, c)
      BY <2>1, <2>2, <2>4, <3>1, WordTurn
    <3>3. NoneIn(o, Spaces)
      BY <1>2, <3>1
    <3>4. NoneIn(Append(o, c), Spaces)
      BY <2>4, <3>3, NoneInMore
    <3> QED
      BY <2>1, <3>2, <3>4
  <2> QED
    BY <2>3, <2>4
<1>3. s \in G
  <2> HIDE DEF G
  <2> QED
    BY <1>1, <1>2, TextInduction
<1> QED
  BY <1>3

LEMMA WordsAre ==
  ASSUME NEW s \in Line
  PROVE  /\ Kept(Ended(s), OpenWord(s), "SkipWhitespace") = Taken(Ended(s), OpenWord(s))
         /\ WordsOf(s) = Taken(Ended(s), OpenWord(s)) /\ WordsOf(s) \in Lines
<1>1. PICK o \in Line : o = OpenWord(s)
  BY WordTypes
<1>2. PICK e \in Lines : e = Ended(s)
  BY WordTypes
<1>3. Kept(e, o, "SkipWhitespace") = Taken(e, o)
  <2>1. Keeps("SkipWhitespace", o) <=> o # <<>>
    BY <1>1, OpenIsWord, KeepsWord DEF Line
  <2> QED
    BY <2>1 DEF Kept, Taken
<1>4. WordsOf(s) = Taken(e, o)
  <2>1. CASE s = <<>>
    <3>1. WordsOf(s) = <<>> /\ e = <<>> /\ o = <<>>
      BY <1>1, <1>2, <2>1, WordNone
    <3> QED
      BY <3>1 DEF Taken
  <2>2. CASE s # <<>>
    <3>1. PICK t \in Parts : t = Splitting(s, Spaces)
      BY SplittingIs
    <3>2. t.texts \in Lines /\ t.last \in Line
      BY DEF Parts
    <3>3. WordsOf(s) = Filtered(Append(t.texts, t.last), "SkipWhitespace")
      BY <2>2, <3>1 DEF WordsOf, SplitIf, Split
    <3>4. WordsOf(s) = Kept(Filtered(t.texts, "SkipWhitespace"), t.last, "SkipWhitespace")
      BY <3>2, <3>3, FilteredOne
    <3>5. e = Filtered(t.texts, "SkipWhitespace") /\ o = t.last
      BY <1>1, <1>2, <3>1 DEF Ended, OpenWord
    <3> QED
      BY <1>3, <3>4, <3>5
  <2> QED
    BY <2>1, <2>2
<1> QED
  BY <1>1, <1>2, <1>3, <1>4, TakenIs

\* One character more, as it is used below.
LEMMA WordsMore ==
  ASSUME NEW s \in Line, NEW c \in Sign, NEW u, u = Append(s, c)
  PROVE  /\ u \in Line
         /\ c \in Spaces => /\ Ended(u) = WordsOf(s) /\ OpenWord(u) = <<>>
                            /\ WordsOf(u) = WordsOf(s)
         /\ c \notin Spaces => Ended(u) = Ended(s) /\ OpenWord(u) = Append(OpenWord(s), c)
<1>1. u \in Line
  BY AppendProperties DEF Line
<1>2. ASSUME c \in Spaces PROVE Ended(u) = WordsOf(s) /\ OpenWord(u) = <<>>
  BY <1>2, WordTurn, WordsAre
<1>3. ASSUME c \in Spaces PROVE WordsOf(u) = WordsOf(s)
  BY <1>1, <1>2, <1>3, WordsAre DEF Taken
<1>4. ASSUME c \notin Spaces PROVE Ended(u) = Ended(s) /\ OpenWord(u) = Append(OpenWord(s), c)
  BY <1>4, WordTurn
<1> QED
  BY <1>1, <1>2, <1>3, <1>4

\* One list of texts behind another, one text behind a list, and one before it.
\* (As with Cat, the provers are not to take these apart.)
ListCat(a, b) == a \o b
Longer(s, x) == Append(s, x)
Led(x, b) == ListCat(Append(<<>>, x), b)

LEMMA ListCatIs ==
  ASSUME NEW a \in Lines, NEW b \in Lines
  PROVE  /\ ListCat(a, b) \in Lines /\ ListCat(<<>>, b) = b /\ ListCat(a, <<>>) = a
<1>1. a \in Seq(Line) /\ b \in Seq(Line)
  BY DEF Lines
<1>2. ListCat(a, b) \in Lines /\ ListCat(<<>>, b) = b /\ ListCat(a, <<>>) = a
  BY <1>1, ConcatProperties, ConcatEmptySeq DEF ListCat, Lines
<1> QED
  BY <1>2

LEMMA LongerCat ==
  ASSUME NEW a \in Lines, NEW b \in Lines, NEW x \in Line
  PROVE  /\ Longer(a, x) \in Lines
         /\ ListCat(Longer(a, x), b) = ListCat(a, Led(x, b))
<1>1. a \in Seq(Line) /\ b \in Seq(Line)
  BY DEF Lines
<1>2. Append(a, x) \in Seq(Line)
  BY <1>1, AppendProperties
<1>3. Append(a, x) \o b = a \o (Append(<<>>, x) \o b)
  BY <1>1
<1> QED
  BY <1>2, <1>3 DEF Longer, ListCat, Led, Lines

LEMMA TakenCat ==
  ASSUME NEW a \in Lines, NEW b \in Lines, NEW o \in Line
  PROVE  Taken(ListCat(a, b), o) = ListCat(a, Taken(b, o))
<1>1. CASE o = <<>>
  BY <1>1 DEF Taken
<1>2. CASE o # <<>>
  <2>1. ListCat(a, Append(b, o)) = Append(ListCat(a, b), o)
    <3>1. a \in Seq(Line) /\ b \in Seq(Line) /\ o \in Line
      BY DEF Lines
    <3> QED
      BY <3>1 DEF ListCat
  <2> QED
    BY <1>2, <2>1 DEF Taken
<1> QED
  BY <1>1, <1>2

Adds(a, b, c, u, w) ==
  a \in Seq(Sign) /\ b \in Seq(Sign) /\ c \in Sign /\ u = Append(b, c) /\ w = Cat(a, b)

LEMMA CatMore ==
  ASSUME NEW a, NEW b, NEW c, NEW u, NEW w, Adds(a, b, c, u, w)
  PROVE  Cat(a, u) \in Seq(Sign) /\ Cat(a, u) = Append(w, c)
<1>1. a \in Seq(Sign) /\ b \in Seq(Sign) /\ c \in Sign /\ u = Append(b, c) /\ w = Cat(a, b)
  BY DEF Adds
<1>2. w \in Seq(Sign)
  BY <1>1, CatIs
<1>3. Append(w, c) \in Seq(Sign)
  BY <1>1, <1>2, AppendProperties
<1>4. Cat(a, u) = Append(w, c)
  BY <1>1 DEF Cat
<1> QED
  BY <1>3, <1>4

\* Where a word cannot go on, two texts have the words of both.
LEMMA WordsJoin ==
  ASSUME NEW a \in Seq(Sign), OpenWord(a) = <<>>, NEW b \in Seq(Sign)
  PROVE  WordsOf(Cat(a, b)) = ListCat(WordsOf(a), WordsOf(b))
<1> DEFINE G == {v \in Seq(Sign) : /\ Ended(Cat(a, v)) = ListCat(Ended(a), Ended(v))
                                   /\ OpenWord(Cat(a, v)) = OpenWord(v)}
<1>0. a \in Line /\ b \in Line
  BY DEF Line
<1>1. PICK e \in Lines : e = Ended(a)
  BY <1>0, WordTypes
<1>2. WordsOf(a) = e
  BY <1>0, <1>1, WordsAre DEF Taken
<1>3. <<>> \in G
  <2>1. PICK v \in Seq(Sign) : v = <<>>
    BY EmptySeq
  <2>2. Cat(a, v) = a /\ Ended(v) = <<>> /\ OpenWord(v) = <<>>
    BY <2>1, CatIs, WordNone
  <2>3. ListCat(e, <<>>) = e
    BY ListCatIs
  <2> QED
    BY <1>1, <2>1, <2>2, <2>3
<1>4. ASSUME NEW v \in Seq(Sign), NEW c \in Sign, v \in G PROVE Append(v, c) \in G
  <2>1. PICK u \in Seq(Sign) : u = Append(v, c)
    BY AppendProperties
  <2>2. PICK w \in Seq(Sign) : w = Cat(a, v)
    BY CatIs
  <2>3. PICK x \in Seq(Sign) : x = Append(w, c) /\ x = Cat(a, u)
    <3>1. Adds(a, v, c, u, w)
      BY <2>1, <2>2 DEF Adds
    <3> QED
      BY <3>1, CatMore
  <2>4. Ended(w) = ListCat(e, Ended(v)) /\ OpenWord(w) = OpenWord(v)
    BY <1>1, <1>4, <2>2
  <2>5. v \in Line /\ w \in Line
    BY DEF Line
  <2>6. PICK f \in Lines, o \in Line : f = Ended(v) /\ o = OpenWord(v)
    BY <2>5, WordTypes
  <2>7. CASE c \in Spaces
    <3>1. Ended(u) = WordsOf(v) /\ OpenWord(u) = <<>>
      BY <2>1, <2>5, <2>7, WordsMore
    <3>2. Ended(x) = WordsOf(w) /\ OpenWord(x) = <<>>
      <4>1. x = Append(w, c)
        BY <2>3
      <4> QED
        BY ONLY <2>5, <2>7, <4>1, WordsMore, c \in Sign
    <3>3. WordsOf(v) = Taken(f, o) /\ WordsOf(w) = Taken(ListCat(e, f), o)
      BY <2>4, <2>5, <2>6, WordsAre
    <3>4. WordsOf(w) = ListCat(e, WordsOf(v))
      BY <3>3, TakenCat
    <3> QED
      BY <1>1, <2>1, <2>3, <3>1, <3>2, <3>4
  <2>8. CASE c \notin Spaces
    <3>1. Ended(u) = Ended(v) /\ OpenWord(u) = Append(o, c)
      BY <2>1, <2>5, <2>6, <2>8, WordsMore
    <3>2. Ended(x) = Ended(w) /\ OpenWord(x) = Append(o, c)
      <4>1. x = Append(w, c)
        BY <2>3
      <4>2. Ended(x) = Ended(w) /\ OpenWord(x) = Append(OpenWord(w), c)
        BY ONLY <2>5, <2>8, <4>1, WordsMore, c \in Sign
      <4> QED
        BY <2>4, <2>6, <4>2
    <3> QED
      BY <1>1, <2>1, <2>3, <2>4, <3>1, <3>2
  <2> QED
    BY <2>7, <2>8
<1>5. b \in G
  <2> HIDE DEF G
  <2> QED
    BY <1>3, <1>4, TextInduction
<1>6. PICK w \in Line : w = Cat(a, b)
  BY CatIs DEF Line
<1>7. PICK f \in Lines, o \in Line : f = Ended(b) /\ o = OpenWord(b)
  BY <1>0, WordTypes
<1>8. WordsOf(w) = Taken(ListCat(e, f), o) /\ WordsOf(b) = Taken(f, o)
  BY <1>0, <1>1, <1>5, <1>6, <1>7, WordsAre
<1> QED
  BY <1>2, <1>6, <1>8, TakenCat

\* White space at the end changes no word,
LEMMA WordsBefore ==
  ASSUME NEW s \in Seq(Sign), NEW sp \in Seq(Sign), AllIn(sp, Spaces)
  PROVE  WordsOf(Cat(s, sp)) = WordsOf(s)
<1> DEFINE G == {v \in Seq(Sign) : AllIn(v, Spaces) => WordsOf(Cat(s, v)) = WordsOf(s)}
<1>1. <<>> \in G
  BY CatIs, EmptySeq
<1>2. ASSUME NEW v \in Seq(Sign), NEW c \in Sign, v \in G PROVE Append(v, c) \in G
  <2>1. PICK u \in Seq(Sign) : u = Append(v, c)
    BY AppendProperties
  <2>2. ASSUME AllIn(u, Spaces) PROVE WordsOf(Cat(s, u)) = WordsOf(s)
    <3>1. AllIn(v, Spaces) /\ c \in Spaces
      BY <2>1, <2>2, AllInMore
    <3>2. PICK w \in Line : w = Cat(s, v)
      BY CatIs DEF Line
    <3>3. PICK x : x = Append(w, c) /\ x = Cat(s, u)
      <4>1. Adds(s, v, c, u, w)
        BY <2>1, <3>2 DEF Adds, Line
      <4> QED
        BY <4>1, CatMore
    <3>4. WordsOf(x) = WordsOf(w)
      BY <3>1, <3>3, WordsMore
    <3> QED
      BY <1>2, <3>1, <3>2, <3>3, <3>4
  <2> QED
    BY <2>1, <2>2
<1>3. sp \in G
  <2> HIDE DEF G
  <2> QED
    BY <1>1, <1>2, TextInduction
<1> QED
  BY <1>3

\* nor does it at the beginning,
LEMMA WordsBehind ==
  ASSUME NEW sp \in Seq(Sign), AllIn(sp, Spaces), NEW s \in Seq(Sign)
  PROVE  WordsOf(Cat(sp, s)) = WordsOf(s)
<1>1. WordsOf(sp) = <<>>
  <2>1. PICK v \in Seq(Sign) : v = <<>>
    BY EmptySeq
  <2>2. Cat(v, sp) = sp
    BY <2>1, CatIs
  <2>3. WordsOf(Cat(v, sp)) = WordsOf(v)
    BY WordsBefore
  <2> QED
    BY <2>1, <2>2, <2>3, WordNone
<1>2. OpenWord(sp) = <<>>
  <2>1. CASE sp = <<>>
    BY <2>1, WordNone
  <2>2. CASE sp # <<>>
    <3>1. PICK v \in Seq(Sign), c \in Sign : sp = Append(v, c)
      BY <2>2, SequenceEmptyOrAppend
    <3>2. c \in Spaces
      BY <3>1, AllInMore
    <3>3. v \in Line
      BY DEF Line
    <3> QED
      BY <3>1, <3>2, <3>3, WordsMore
  <2> QED
    BY <2>1, <2>2
<1>3. WordsOf(Cat(sp, s)) = ListCat(WordsOf(sp), WordsOf(s))
  BY <1>2, WordsJoin
<1>4. PICK w \in Lines : w = WordsOf(s)
  BY WordsAre DEF Line
<1>5. ListCat(<<>>, w) = w
  BY ListCatIs
<1> QED
  BY <1>1, <1>3, <1>4, <1>5

\* and a text without white space is one word.
LEMMA OneWord ==
  ASSUME NEW v \in Seq(Sign), NoneIn(v, Spaces)
  PROVE  Ended(v) = <<>> /\ OpenWord(v) = v
<1> DEFINE G == {u \in Seq(Sign) : NoneIn(u, Spaces) => Ended(u) = <<>> /\ OpenWord(u) = u}
<1>1. <<>> \in G
  BY EmptySeq, WordNone
<1>2. ASSUME NEW u \in Seq(Sign), NEW c \in Sign, u \in G PROVE Append(u, c) \in G
  <2>1. PICK x \in Seq(Sign) : x = Append(u, c)
    BY AppendProperties
  <2>2. ASSUME NoneIn(x, Spaces) PROVE Ended(x) = <<>> /\ OpenWord(x) = x
    <3>1. NoneIn(u, Spaces) /\ c \notin Spaces
      BY <2>1, <2>2, NoneInMore
    <3>2. u \in Line
      BY DEF Line
    <3>3. Ended(x) = Ended(u) /\ OpenWord(x) = Append(OpenWord(u), c)
      BY <2>1, <3>1, <3>2, WordsMore
    <3> QED
      BY <1>2, <2>1, <3>1, <3>3
  <2> QED
    BY <2>1, <2>2
<1>3. v \in G
  <2> HIDE DEF G
  <2> QED
    BY <1>1, <1>2, TextInduction
<1> QED
  BY <1>3

\* The first word, taken from a text.
LEMMA FirstWord ==
  ASSUME NEW v \in Seq(Sign), NoneIn(v, Spaces), v # <<>>,
         NEW r \in Seq(Sign), r = <<>> \/ r[1] \in Spaces
  PROVE  WordsOf(Cat(v, r)) = Led(v, WordsOf(r))
<1>1. v \in Line /\ r \in Line
  BY DEF Line
<1>2. PICK e \in Lines : e = Append(<<>>, v) /\ WordsOf(v) = e
  <2>1. WordsOf(v) = Taken(<<>>, v)
    BY <1>1, OneWord, WordsAre
  <2>2. WordsOf(v) \in Lines
    BY <1>1, WordsAre
  <2> QED
    BY <2>1, <2>2 DEF Taken
<1>3. \A w : Led(v, w) = ListCat(e, w)
  BY <1>2 DEF Led
<1>4. CASE r = <<>>
  <2>1. Cat(v, r) = v /\ WordsOf(r) = <<>>
    BY <1>4, CatIs, WordNone
  <2>2. ListCat(e, <<>>) = e
    BY NoLines, ListCatIs
  <2> QED
    BY <1>2, <1>3, <2>1, <2>2
<1>5. CASE r # <<>>
  <2>1. PICK n \in Nat : n = Len(r) /\ n >= 1
    BY <1>5, EmptySeq
  <2>2. PICK c \in Spaces : c = r[1] /\ c \in Sign
    BY <1>5, <2>1
  <2>3. PICK one \in Seq(Sign) : one = <<c>> /\ Len(one) = 1 /\ one[1] = c
    BY <2>2, OneSign
  <2>4. PICK b \in Seq(Sign) : b = RemovePrefix(r, 1) /\ Len(b) = n - 1 /\ \A i \in 1 .. n - 1 : b[i] = r[1 + i]
    <3>1. 1 \in 0 .. Len(r)
      BY <2>1
    <3> QED
      BY <2>1, <3>1, CutTextIs
  <2>5. r = Cat(one, b)
    <3>1. PICK d \in Seq(Sign) : /\ d = Cat(one, b) /\ Len(d) = Len(one) + Len(b)
                                 /\ \A i \in 1 .. Len(one) + Len(b) :
                                      d[i] = IF i <= Len(one) THEN one[i] ELSE b[i - Len(one)]
      BY CatIs
    <3>2. Len(d) = n /\ \A i \in 1 .. n : d[i] = IF i <= 1 THEN one[i] ELSE b[i - 1]
      BY ONLY <2>1, <2>3, <2>4, <3>1
    <3>3. ASSUME NEW i \in 1 .. n PROVE d[i] = r[i]
      <4>1. CASE i = 1
        BY <2>2, <2>3, <3>2, <4>1
      <4>2. CASE i # 1
        <5>1. i - 1 \in 1 .. n - 1 /\ 1 + (i - 1) = i /\ ~(i <= 1)
          BY <4>2
        <5> QED
          BY <2>4, <3>2, <5>1
      <4> QED
        BY <4>1, <4>2
    <3> QED
      BY <2>1, <3>1, <3>2, <3>3, SeqEqual
  <2>6. PICK x \in Seq(Sign) : x = Append(v, c) /\ x = Cat(v, one)
    <3>1. PICK x : x = Append(v, c)
      OBVIOUS
    <3>2. x \in Seq(Sign)
      BY <2>2, <3>1, AppendProperties
    <3>3. x = Cat(v, one)
      BY <2>2, <2>3, <3>1, CatOne
    <3> QED
      BY <3>1, <3>2, <3>3
  <2>7. OpenWord(x) = <<>> /\ WordsOf(x) = WordsOf(v)
    BY <1>1, <2>2, <2>6, WordsMore
  <2>8. Cat(v, r) = Cat(x, b)
    BY <2>5, <2>6, CatCat
  <2>9. WordsOf(Cat(x, b)) = ListCat(WordsOf(x), WordsOf(b))
    BY <2>7, WordsJoin
  <2>10. AllIn(one, Spaces)
    <3>1. \A i \in DOMAIN one : i = 1
      BY <2>3
    <3> QED
      BY <2>2, <2>3, <3>1 DEF AllIn
  <2>11. WordsOf(r) = WordsOf(b)
    BY <2>5, <2>10, WordsBehind
  <2> QED
    BY <1>2, <1>3, <2>7, <2>8, <2>9, <2>11
<1> QED
  BY <1>4, <1>5

\* A text is what is cut off and what is left.
LEMMA CutsJoin ==
  ASSUME NEW u \in Seq(Sign), NEW k \in 0 .. Len(u)
  PROVE  u = Cat(StartOf(u, k), RemovePrefix(u, k))
<1>1. PICK n \in Nat : n = Len(u)
  OBVIOUS
<1>2. PICK a \in Seq(Sign) : a = StartOf(u, k) /\ Len(a) = k /\ \A i \in 1 .. k : a[i] = u[i]
  BY CutTextIs DEF StartOf
<1>3. PICK b \in Seq(Sign) : b = RemovePrefix(u, k) /\ Len(b) = n - k /\ \A i \in 1 .. n - k : b[i] = u[k + i]
  BY <1>1, CutTextIs
<1>4. PICK d \in Seq(Sign) : /\ d = Cat(a, b) /\ Len(d) = Len(a) + Len(b)
                             /\ \A i \in 1 .. Len(a) + Len(b) :
                                  d[i] = IF i <= Len(a) THEN a[i] ELSE b[i - Len(a)]
  BY CatIs
<1>5. k \in Nat /\ k <= n /\ k + (n - k) = n
  BY <1>1
<1>6. Len(d) = n /\ \A i \in 1 .. n : d[i] = IF i <= k THEN a[i] ELSE b[i - k]
  BY ONLY <1>1, <1>2, <1>3, <1>4, <1>5
<1>7. ASSUME NEW i \in 1 .. n PROVE d[i] = u[i]
  <2>1. CASE i <= k
    BY <1>2, <1>5, <1>6, <2>1
  <2>2. CASE ~(i <= k)
    <3>1. i - k \in 1 .. n - k /\ k + (i - k) = i
      BY <1>5, <2>2
    <3> QED
      BY <1>3, <1>6, <2>2, <3>1
  <2> QED
    BY <2>1, <2>2
<1> QED
  BY <1>1, <1>2, <1>3, <1>4, <1>6, <1>7, SeqEqual

LEMMA CharsAreSigns ==
  ASSUME NEW s \in Seq(Char) PROVE s \in Seq(Sign)
BY CharsArePlain

\* ConsumeNonWhitespace takes the first word,
LEMMA TokenTaken ==
  ASSUME NEW s \in Seq(Char), NEW C, C = (0 .. 127) \ Spaces, NEW n, n = Leading(s, C),
         NEW v, v = StartOf(s, n), NEW r, r = RemovePrefix(s, n)
  PROVE  /\ n \in Nat /\ v \in Line
         /\ n = 0 => WordsOf(r) = WordsOf(s)
         /\ n > 0 => WordsOf(s) = Led(v, WordsOf(r))
<1>1. PICK l \in Nat : l = Len(s) /\ s \in Seq(Sign)
  BY CharsAreSigns
<1>2. n \in 0 .. l /\ (n = l \/ s[n + 1] \notin (0 .. 127) \ Spaces) /\ \A i \in 1 .. n : s[i] \notin Spaces
  <2>1. n \in 0 .. l /\ (n = l \/ s[n + 1] \notin C) /\ \A i \in 1 .. n : s[i] \in C
    <3>1. n = Leading(s, C)
      OBVIOUS
    <3> QED
      BY ONLY <1>1, <3>1, LeadingIs
  <2>2. C = (0 .. 127) \ Spaces
    OBVIOUS
  <2> QED
    BY ONLY <2>1, <2>2
<1>3. v \in Seq(Sign) /\ Len(v) = n /\ v = StartOf(s, n) /\ \A i \in 1 .. n : v[i] = s[i]
  <2>1. v = StartOf(s, n)
    OBVIOUS
  <2>2. n \in 0 .. Len(s) /\ s \in Seq(Sign)
    BY <1>1, <1>2
  <2>3. /\ StartOf(s, n) \in Seq(Sign) /\ Len(StartOf(s, n)) = n
        /\ \A i \in 1 .. n : StartOf(s, n)[i] = s[i]
    BY ONLY <2>2, CutTextIs DEF StartOf
  <2> QED
    BY <2>1, <2>3
<1>4. r \in Seq(Sign) /\ Len(r) = l - n /\ \A i \in 1 .. l - n : r[i] = s[n + i]
  <2>1. n \in 0 .. Len(s) /\ s \in Seq(Sign)
    BY <1>1, <1>2
  <2>2. /\ RemovePrefix(s, n) \in Seq(Sign) /\ Len(RemovePrefix(s, n)) = Len(s) - n
        /\ \A i \in 1 .. Len(s) - n : RemovePrefix(s, n)[i] = s[n + i]
    BY ONLY <2>1, CutTextIs
  <2> QED
    BY <1>1, <2>2
<1>5. s = Cat(v, r)
  BY <1>1, <1>2, <1>3, CutsJoin
<1>6. n \in Nat /\ v \in Line
  <2>1. l \in Nat /\ n \in 0 .. l
    BY <1>1, <1>2
  <2>2. n \in Nat
    BY ONLY <2>1
  <2>3. v \in Line
    BY <1>3 DEF Line
  <2> QED
    BY <2>2, <2>3
<1>7. ASSUME n = 0 PROVE WordsOf(r) = WordsOf(s)
  <2>1. v = <<>>
    BY <1>3, <1>7, EmptySeq
  <2>2. Cat(v, r) = r
    BY <1>4, <2>1, CatIs
  <2> QED
    BY <1>5, <2>2
<1>8. ASSUME n > 0 PROVE WordsOf(s) = Led(v, WordsOf(r))
  <2>1. v # <<>>
    <3>1. Len(v) # 0 /\ v \in Seq(Sign)
      BY ONLY <1>3, <1>6, <1>8
    <3> QED
      BY ONLY <3>1, EmptySeq
  <2>2. NoneIn(v, Spaces)
    <3>1. DOMAIN v = 1 .. n
      BY <1>3
    <3> QED
      BY <1>2, <1>3, <3>1 DEF NoneIn
  <2>3. r = <<>> \/ r[1] \in Spaces
    <3>1. CASE n = l
      BY <1>1, <1>4, <3>1, EmptySeq
    <3>2. CASE n # l
      <4>1. 1 \in 1 .. l - n /\ n + 1 \in 1 .. l
        <5>1. l \in Nat /\ n \in 0 .. l
          BY <1>1, <1>2
        <5> QED
          BY ONLY <3>2, <5>1
      <4>2. r[1] = s[n + 1] /\ s[n + 1] \in 0 .. 127
        <5>1. s[n + 1] \in Char
          BY <1>1, <4>1
        <5> QED
          BY <1>4, <4>1, <5>1 DEF Char
      <4> QED
        BY <1>2, <3>2, <4>2
    <3> QED
      BY <3>1, <3>2
  <2>4. WordsOf(Cat(v, r)) = Led(v, WordsOf(r))
    BY <1>3, <1>4, <2>1, <2>2, <2>3, FirstWord
  <2> QED
    BY <1>5, <2>4
<1> QED
  BY <1>6, <1>7, <1>8

\* and the removals of white space none.
LEMMA StartStripped ==
  ASSUME NEW s \in Seq(Char)
  PROVE  WordsOf(RemovePrefix(s, Leading(s, Spaces))) = WordsOf(s)
<1>1. PICK l \in Nat : l = Len(s) /\ s \in Seq(Sign)
  BY CharsAreSigns
<1>2. PICK n : n = Leading(s, Spaces)
  OBVIOUS
<1>3. n \in 0 .. l /\ \A i \in 1 .. n : s[i] \in Spaces
  BY <1>1, <1>2, LeadingIs
<1>4. PICK v \in Seq(Sign) : v = StartOf(s, n) /\ Len(v) = n /\ \A i \in 1 .. n : v[i] = s[i]
  BY <1>1, <1>3, CutTextIs DEF StartOf
<1>5. PICK r \in Seq(Sign) : r = RemovePrefix(s, n)
  BY <1>1, <1>3, CutTextIs
<1>6. s = Cat(v, r)
  BY <1>1, <1>3, <1>4, <1>5, CutsJoin
<1>7. AllIn(v, Spaces)
  <2>1. DOMAIN v = 1 .. n
    BY <1>4
  <2> QED
    BY <1>3, <1>4, <2>1 DEF AllIn
<1>8. WordsOf(Cat(v, r)) = WordsOf(r)
  BY <1>7, WordsBehind
<1> QED
  BY <1>2, <1>5, <1>6, <1>8

LEMMA EndStripped ==
  ASSUME NEW s \in Seq(Char)
  PROVE  WordsOf(RemoveSuffix(s, Trailing(s, Spaces))) = WordsOf(s)
<1>1. PICK l \in Nat : l = Len(s) /\ s \in Seq(Sign)
  BY CharsAreSigns
<1>2. PICK t : t = Reverse(s) /\ Len(t) = l /\ \A i \in 1 .. l : t[i] = s[(l - i) + 1]
  <2>1. Len(Reverse(s)) = l
    BY <1>1 DEF Reverse
  <2>2. Reverse(s) = [i \in 1 .. l |-> s[(l - i) + 1]]
    BY <1>1 DEF Reverse
  <2>3. \A i \in 1 .. l : Reverse(s)[i] = s[(l - i) + 1]
    BY ONLY <2>2
  <2> QED
    BY <2>1, <2>3
<1>3. PICK n : n = Leading(t, Spaces)
  OBVIOUS
<1>4. n \in 0 .. l /\ \A i \in 1 .. n : t[i] \in Spaces
  BY <1>1, <1>2, <1>3, LeadingIs
<1>5. PICK k \in 0 .. l : k = l - n
  BY <1>1, <1>4
<1>6. PICK v \in Seq(Sign) : v = StartOf(s, k)
  BY <1>1, CutTextIs DEF StartOf
<1>7. PICK r \in Seq(Sign) : r = RemovePrefix(s, k) /\ Len(r) = n /\ \A i \in 1 .. n : r[i] = s[k + i]
  <2>1. l - k = n
    BY <1>1, <1>4, <1>5
  <2> QED
    BY <1>1, <2>1, CutTextIs
<1>8. s = Cat(v, r)
  BY <1>1, <1>6, <1>7, CutsJoin
<1>9. AllIn(r, Spaces)
  <2>1. DOMAIN r = 1 .. n
    BY <1>4, <1>7
  <2>2. ASSUME NEW i \in 1 .. n PROVE r[i] \in Spaces
    <3>1. (n - i) + 1 \in 1 .. n /\ (n - i) + 1 \in 1 .. l /\ (l - ((n - i) + 1)) + 1 = k + i
      BY <1>1, <1>4, <1>5
    <3>2. t[(n - i) + 1] = s[k + i]
      BY <1>2, <3>1
    <3>3. t[(n - i) + 1] \in Spaces
      BY <1>4, <3>1
    <3> QED
      BY <1>7, <3>2, <3>3
  <2> QED
    BY <2>1, <2>2 DEF AllIn
<1>10. WordsOf(Cat(v, r)) = WordsOf(v)
  BY <1>9, WordsBefore
<1>11. RemoveSuffix(s, Trailing(s, Spaces)) = v
  BY <1>1, <1>2, <1>3, <1>5, <1>6 DEF RemoveSuffix, Trailing, StartOf
<1> QED
  BY <1>8, <1>10, <1>11

\* The tokens taken so far, and those still to be taken.
WordsSoFar == tokens \in Lines /\ ListCat(tokens, WordsOf(piece)) = WordsOf(whole)

LEMMA WordsInit == StrUtilInit => WordsSoFar
<1> SUFFICES ASSUME StrUtilInit PROVE WordsSoFar
  OBVIOUS
<1>1. piece \in Seq(Char)
  BY TextTypeInit DEF TextType
<1>2. PICK w \in Lines : w = WordsOf(piece)
  BY <1>1, CharsAreSigns, WordsAre DEF Line
<1>3. tokens = <<>> /\ whole = piece
  BY DEF StrUtilInit
<1>4. ListCat(<<>>, w) = w
  BY NoLines, ListCatIs
<1> QED
  BY <1>2, <1>3, <1>4, NoLines DEF WordsSoFar

LEMMA WordsStep == TextType /\ TextType' /\ WordsSoFar /\ [StrUtilNext]_strUtilVars => WordsSoFar'
<1> SUFFICES ASSUME TextType, TextType', WordsSoFar, [StrUtilNext]_strUtilVars PROVE WordsSoFar'
  OBVIOUS
<1>1. piece \in Seq(Char) /\ piece' \in Seq(Char)
  BY DEF TextType
<1>2. ASSUME tokens' = <<>>, whole' = piece' PROVE WordsSoFar'
  <2>1. PICK w \in Lines : w = WordsOf(piece')
    BY <1>1, CharsAreSigns, WordsAre DEF Line
  <2>2. ListCat(<<>>, w) = w
    BY NoLines, ListCatIs
  <2>3. tokens' \in Lines /\ ListCat(tokens', WordsOf(piece')) = WordsOf(whole')
    BY <1>2, <2>1, <2>2, NoLines
  <2> QED
    BY <2>3 DEF WordsSoFar, WordsOf
<1>3. ASSUME tokens' = tokens, whole' = whole, WordsOf(piece') = WordsOf(piece) PROVE WordsSoFar'
  <2>1. tokens' \in Lines /\ ListCat(tokens', WordsOf(piece')) = WordsOf(whole')
    BY <1>3 DEF WordsSoFar
  <2> QED
    BY <2>1 DEF WordsSoFar, WordsOf
<1>4. ASSUME UNCHANGED <<piece, whole, tokens>> PROVE WordsSoFar'
  BY <1>3, <1>4
<1>5. CASE ConsumeLeadingDigits
  BY <1>2, <1>4, <1>5 DEF ConsumeLeadingDigits, Renew
<1>6. CASE ConsumeNonWhitespace
  <2>1. PICK C, n : C = (0 .. 127) \ Spaces /\ n = Leading(piece, C)
    OBVIOUS
  <2>2. PICK v, r : v = StartOf(piece, n) /\ r = RemovePrefix(piece, n)
    OBVIOUS
  <2>3. /\ piece' = r /\ whole' = whole
        /\ tokens' = IF n > 0 THEN Longer(tokens, v) ELSE tokens
    BY <1>6, <2>1, <2>2 DEF ConsumeNonWhitespace, TokenEnd, StartOf, Longer
  <2>4. /\ n \in Nat /\ v \in Line
        /\ n = 0 => WordsOf(r) = WordsOf(piece)
        /\ n > 0 => WordsOf(piece) = Led(v, WordsOf(r))
    BY <1>1, <2>1, <2>2, TokenTaken
  <2>5. CASE n = 0
    <3>1. tokens' = tokens
      BY <2>3, <2>5
    <3> QED
      BY <1>3, <2>3, <2>4, <2>5, <3>1
  <2>6. CASE n # 0
    <3>1. n > 0
      BY <2>4, <2>6
    <3>2. PICK w \in Lines : w = WordsOf(r)
      BY <1>1, <2>3, CharsAreSigns, WordsAre DEF Line
    <3>3. PICK t \in Lines : t = tokens /\ ListCat(t, WordsOf(piece)) = WordsOf(whole)
      BY DEF WordsSoFar
    <3>4. Longer(t, v) \in Lines /\ ListCat(Longer(t, v), w) = ListCat(t, Led(v, w))
      BY <2>4, LongerCat
    <3>5. tokens' = Longer(t, v)
      BY <2>3, <3>1, <3>3
    <3>6. tokens' \in Lines /\ ListCat(tokens', WordsOf(piece')) = WordsOf(whole')
      BY <2>3, <2>4, <3>1, <3>2, <3>3, <3>4, <3>5
    <3> QED
      BY <3>6 DEF WordsSoFar, WordsOf
  <2> QED
    BY <2>5, <2>6
<1>7. CASE RemoveLeadingWhitespace
  <2>1. WordsOf(piece') = WordsOf(piece) /\ whole' = whole /\ tokens' = tokens
    BY <1>1, <1>7, StartStripped DEF RemoveLeadingWhitespace, Strip
  <2> QED
    BY <1>3, <2>1
<1>8. CASE RemoveTrailingWhitespace
  <2>1. WordsOf(piece') = WordsOf(piece) /\ whole' = whole /\ tokens' = tokens
    BY <1>1, <1>8, EndStripped DEF RemoveTrailingWhitespace, Strip
  <2> QED
    BY <1>3, <2>1
<1>9. CASE RemoveWhitespaceContext
  <2>1. PICK s \in Seq(Char) : s = RemovePrefix(piece, Leading(piece, Spaces))
    BY <1>1, Stripped
  <2>2. piece' = RemoveSuffix(s, Trailing(s, Spaces)) /\ whole' = whole /\ tokens' = tokens
    BY <1>9, <2>1 DEF RemoveWhitespaceContext, Strip
  <2>3. WordsOf(piece') = WordsOf(s) /\ WordsOf(s) = WordsOf(piece)
    BY <1>1, <2>1, <2>2, StartStripped, EndStripped
  <2> QED
    BY <1>3, <2>2, <2>3
<1>10. ASSUME NEW delims \in Delims, Titlecase(delims) PROVE WordsSoFar'
  BY <1>2, <1>10 DEF Titlecase, Renew
<1>11. ASSUME NEW delims \in Delims, SplitText(delims) PROVE WordsSoFar'
  BY <1>4, <1>11 DEF SplitText, Returns
<1>12. ASSUME NEW oldsub \in Subs, NEW newsub \in Subs, NEW all \in BOOLEAN,
              Replace(oldsub, newsub, all)
       PROVE  WordsSoFar'
  BY <1>4, <1>12 DEF Replace, Returns
<1>13. CASE CaseArgDef
  BY <1>4, <1>13 DEF CaseArgDef, Returns
<1>14. ASSUME NEW dst \in Subs, Printf(dst) PROVE WordsSoFar'
  BY <1>4, <1>14 DEF Printf, Returns
<1>15. CASE UNCHANGED strUtilVars
  BY <1>4, <1>15 DEF strUtilVars
<1> QED
  BY <1>5, <1>6, <1>7, <1>8, <1>9, <1>10, <1>11, <1>12, <1>13, <1>14, <1>15 DEF StrUtilNext

-----------------------------------------------------------------------------
(* Nothing is lost by Split.                                                *)

\* What is not yet joined: the parts as Split would return them.
LinesOf(t) == Append(t.texts, t.last)

LEMMA LinesOfIs == \A t \in Parts : LinesOf(t) \in Lines
<1> SUFFICES ASSUME NEW t \in Parts PROVE LinesOf(t) \in Lines
  OBVIOUS
<1>1. t.texts \in Lines /\ t.last \in Line
  BY DEF Parts
<1> QED
  BY <1>1, AppendProperties DEF LinesOf, Lines

\* Joined at a delimiter, at the last text, and when there is none.
LEMMA LinkedMore ==
  ASSUME NEW k \in Nat, NEW v \in Line, NEW x \in Line, NEW d \in Sign, NEW c \in Sign
  PROVE  Linked(k, v, Longer(x, c), d) = Longer(Linked(k, v, x, d), c)
<1>1. v \in Seq(Sign) /\ x \in Seq(Sign)
  BY DEF Line
<1>2. PICK w \in Seq(Sign) : w = v \o (IF k = 1 THEN <<>> ELSE <<d>>)
  <2>1. PICK e \in Seq(Sign) : e = IF k = 1 THEN <<>> ELSE <<d>>
    <3>1. <<>> \in Seq(Sign) /\ <<d>> \in Seq(Sign)
      BY EmptySeq
    <3> QED
      BY <3>1
  <2>2. v \o e \in Seq(Sign)
    BY <1>1, ConcatProperties
  <2> QED
    BY <2>1, <2>2
<1>3. w \o Append(x, c) = Append(w \o x, c)
  BY <1>1
<1> QED
  BY <1>2, <1>3 DEF Linked, Longer

LEMMA LinkedEnd ==
  ASSUME NEW k \in Nat, k # 1, NEW v \in Line, NEW e, e = <<>>, NEW d \in Sign
  PROVE  Linked(k, v, e, d) = Longer(v, d)
<1>1. v \in Seq(Sign)
  BY DEF Line
<1>2. (v \o <<d>>) \o <<>> = Append(v, d)
  BY <1>1
<1> QED
  BY <1>2 DEF Linked, Longer

LEMMA LinkedNone ==
  ASSUME NEW d PROVE Linked(1, <<>>, <<>>, d) = <<>>
<1>1. (<<>> \o <<>>) \o <<>> = <<>>
  OBVIOUS
<1> QED
  BY <1>1 DEF Linked

LEMMA JoinOne ==
  ASSUME NEW t \in Lines, NEW x \in Line, NEW d \in Sign, NEW n \in Nat, n = Len(t)
  PROVE  Join(Append(t, x), d) = Linked(n + 1, Join(t, d), x, d)
BY JoinMore

\* Joined with the one delimiter, the parts of s are s.
LEMMA PartsJoin ==
  ASSUME NEW s \in Seq(Sign), NEW d \in Sign
  PROVE  Join(LinesOf(Splitting(s, {d})), d) = s
<1> DEFINE G == {v \in Seq(Sign) : Join(LinesOf(Splitting(v, {d})), d) = v}
<1>1. <<>> \in G
  <2>1. PICK t \in Parts : t = Splitting(<<>>, {d}) /\ t.texts = <<>> /\ t.last = <<>>
    BY SplittingNone, NoPartsIs
  <2>2. PICK e \in Lines, x \in Line : e = <<>> /\ Len(e) = 0 /\ x = <<>>
    BY NoLines, EmptySeq
  <2>3. PICK n \in Nat : n = 0
    OBVIOUS
  <2>4. Join(Append(e, x), d) = Linked(n + 1, Join(e, d), x, d)
    BY <2>2, <2>3, JoinOne
  <2>5. Join(e, d) = <<>>
    BY <2>2, JoinNone
  <2>6. Linked(1, <<>>, <<>>, d) = <<>>
    BY LinkedNone
  <2>7. Join(LinesOf(t), d) = <<>>
    <3>1. LinesOf(t) = Append(e, x)
      BY <2>1, <2>2 DEF LinesOf
    <3>2. n + 1 = 1
      BY <2>3
    <3> QED
      BY ONLY <2>2, <2>4, <2>5, <2>6, <3>1, <3>2
  <2> QED
    BY <2>1, <2>7, EmptySeq
<1>2. ASSUME NEW v \in Seq(Sign), NEW c \in Sign, v \in G PROVE Append(v, c) \in G
  <2>1. PICK u \in Seq(Sign) : u = Append(v, c)
    BY AppendProperties
  <2>2. v \in Line
    BY DEF Line
  <2>3. PICK t \in Parts : t = Splitting(v, {d})
    BY <2>2, SplittingIs
  <2>4. PICK z \in Parts : z = SplitNext(t, c, {d})
    BY SplitNextIs
  <2>5. z = Splitting(u, {d})
    BY <2>1, <2>2, <2>3, <2>4, SplittingMore
  <2>6. PICK e \in Lines, x \in Line, n \in Nat : e = t.texts /\ x = t.last /\ n = Len(e)
    BY DEF Parts, Lines
  <2>7. Join(Append(e, x), d) = v /\ Join(Append(e, x), d) = Linked(n + 1, Join(e, d), x, d)
    BY <1>2, <2>3, <2>6, JoinOne DEF LinesOf
  <2>8. CASE c = d
    <3>1. PICK f \in Lines, m \in Nat : f = Append(e, x) /\ Len(f) = m /\ m = n + 1
      <4>1. e \in Seq(Line)
        BY DEF Lines
      <4>2. PICK f : f = Append(e, x)
        OBVIOUS
      <4>3. f \in Seq(Line) /\ Len(f) = Len(e) + 1
        BY <4>1, <4>2, AppendProperties
      <4>4. PICK m \in Nat : m = n + 1
        OBVIOUS
      <4>5. f \in Lines /\ Len(f) = m
        BY <2>6, <4>3, <4>4 DEF Lines
      <4> QED
        BY <4>2, <4>4, <4>5
    <3>2. z.texts = f /\ z.last = <<>>
      <4>1. c \in {d}
        BY <2>8
      <4> QED
        BY <2>4, <2>6, <3>1, <4>1, SplitNextIs
    <3>3. PICK y \in Line : y = <<>>
      BY NoLines
    <3>4. Join(Append(f, y), d) = Linked(m + 1, Join(f, d), y, d)
      BY <3>1, JoinOne
    <3>5. m + 1 \in Nat /\ m + 1 # 1
      BY <3>1
    <3>6. Linked(m + 1, v, y, d) = Longer(v, d)
      BY <2>2, <3>3, <3>5, LinkedEnd
    <3>7. Join(LinesOf(z), d) = Append(v, c)
      BY <2>7, <2>8, <3>1, <3>2, <3>3, <3>4, <3>6 DEF LinesOf, Longer
    <3> QED
      BY <2>1, <2>5, <3>7
  <2>9. CASE c # d
    <3>1. PICK y \in Line : y = Append(x, c)
      BY AppendProperties DEF Line
    <3>2. z.texts = e /\ z.last = y
      <4>0. PICK D : D = {d}
        OBVIOUS
      <4>1. D = {d} /\ c \notin D
        BY <2>9, <4>0
      <4>2. z = SplitNext(t, c, D)
        BY <2>4, <4>1
      <4>3. z.texts = t.texts /\ z.last = Append(t.last, c)
        BY ONLY <4>1, <4>2, SplitNextIs, t \in Parts, c \in Sign
      <4> QED
        BY <2>6, <3>1, <4>3
    <3>3. Join(Append(e, y), d) = Linked(n + 1, Join(e, d), y, d)
      BY <2>6, JoinOne
    <3>4. Join(e, d) \in Line /\ n + 1 \in Nat
      BY JoinIsLine
    <3>5. Linked(n + 1, Join(e, d), Longer(x, c), d) = Longer(Linked(n + 1, Join(e, d), x, d), c)
      BY <3>4, LinkedMore
    <3>6. Join(LinesOf(z), d) = Append(v, c)
      BY <2>7, <3>1, <3>2, <3>3, <3>5 DEF LinesOf, Longer
    <3> QED
      BY <2>1, <2>5, <3>6
  <2> QED
    BY <2>8, <2>9
<1>3. s \in G
  <2> HIDE DEF G
  <2> QED
    BY <1>1, <1>2, TextInduction
<1> QED
  BY <1>3

\* None of the parts has a delimiter in it.
AllApart(ls, D) == \A i \in DOMAIN ls : NoneIn(ls[i], D)

LEMMA ApartMore ==
  ASSUME NEW ls \in Lines, NEW x \in Line, NEW D, NEW ks, ks = Longer(ls, x)
  PROVE  AllApart(ks, D) <=> AllApart(ls, D) /\ NoneIn(x, D)
<1>1. ls \in Seq(Line) /\ ks = Append(ls, x)
  BY DEF Lines, Longer
<1>2. PICK n \in Nat : n = Len(ls)
  BY <1>1
<1>3. ks \in Seq(Line) /\ Len(ks) = n + 1 /\ ks[n + 1] = x /\ \A k \in 1 .. n : ks[k] = ls[k]
  BY <1>1, <1>2, AppendProperties
<1>4. DOMAIN ks = 1 .. n + 1 /\ DOMAIN ls = 1 .. n
  BY <1>1, <1>2, <1>3
<1>5. n + 1 \in 1 .. n + 1 /\ \A k \in 1 .. n + 1 : k = n + 1 \/ k \in 1 .. n
  OBVIOUS
<1>6. \A k \in 1 .. n : k \in 1 .. n + 1
  OBVIOUS
<1> QED
  BY <1>3, <1>4, <1>5, <1>6 DEF AllApart

LEMMA PartsApart ==
  ASSUME NEW s \in Seq(Sign), NEW D
  PROVE  AllApart(LinesOf(Splitting(s, D)), D)
<1> DEFINE Fine(t) == AllApart(t.texts, D) /\ NoneIn(t.last, D)
           G == {v \in Seq(Sign) : Fine(Splitting(v, D))}
<1>1. <<>> \in G
  <2>1. PICK t \in Parts : t = Splitting(<<>>, D) /\ t.texts = <<>> /\ t.last = <<>>
    BY SplittingNone, NoPartsIs
  <2>2. AllApart(<<>>, D) /\ NoneIn(<<>>, D)
    BY DEF AllApart, NoneIn
  <2> QED
    BY <2>1, <2>2, EmptySeq
<1>2. ASSUME NEW v \in Seq(Sign), NEW c \in Sign, v \in G PROVE Append(v, c) \in G
  <2>1. PICK u \in Seq(Sign) : u = Append(v, c)
    BY AppendProperties
  <2>2. v \in Line
    BY DEF Line
  <2>3. PICK t \in Parts : t = Splitting(v, D)
    BY <2>2, SplittingIs
  <2>4. PICK z \in Parts : z = SplitNext(t, c, D)
    BY SplitNextIs
  <2>5. z = Splitting(u, D)
    BY <2>1, <2>2, <2>3, <2>4, SplittingMore
  <2>6. PICK e \in Lines, x \in Line : e = t.texts /\ x = t.last
    BY DEF Parts
  <2>7. AllApart(e, D) /\ NoneIn(x, D)
    BY <1>2, <2>3, <2>6
  <2>8. CASE c \in D
    <3>1. z.texts = Longer(e, x) /\ z.last = <<>>
      BY <2>4, <2>6, <2>8, SplitNextIs DEF Longer
    <3>2. AllApart(z.texts, D)
      BY <2>7, <3>1, ApartMore
    <3>3. NoneIn(z.last, D)
      BY <3>1, NoneInNone
    <3> QED
      BY <2>1, <2>5, <3>2, <3>3
  <2>9. CASE c \notin D
    <3>1. z.texts = e /\ z.last = Append(x, c)
      BY <2>4, <2>6, <2>9, SplitNextIs
    <3>2. NoneIn(Append(x, c), D)
      BY <2>7, <2>9, NoneInMore DEF Line
    <3> QED
      BY <2>1, <2>5, <2>7, <3>1, <3>2
  <2> QED
    BY <2>8, <2>9
<1>3. s \in G
  <2> HIDE DEF G
  <2> QED
    BY <1>1, <1>2, TextInduction
<1>4. PICK t \in Parts : t = Splitting(s, D)
  BY SplittingIs DEF Line
<1>5. PICK e \in Lines, x \in Line : e = t.texts /\ x = t.last
  BY DEF Parts
<1>6. AllApart(e, D) /\ NoneIn(x, D)
  BY <1>3, <1>4, <1>5
<1>7. LinesOf(t) = Longer(e, x)
  BY <1>5 DEF LinesOf, Longer
<1> QED
  BY <1>4, <1>6, <1>7, ApartMore

\* What the property says of a call.
SplitWell(s, D, val) ==
  /\ \A d \in D : D = {d} => Join(val, d) = s
  /\ \A i \in DOMAIN val : Range(val[i]) \cap D = {}

LEMMA SplittingIsWell ==
  ASSUME NEW s \in Seq(Sign), NEW D, D \subseteq Sign
  PROVE  SplitWell(s, D, Split(s, D))
<1>1. CASE s = <<>>
  <2>1. Split(s, D) = <<>>
    BY <1>1 DEF Split
  <2>2. \A d \in D : Join(<<>>, d) = <<>>
    BY JoinNone
  <2>3. DOMAIN <<>> = {}
    OBVIOUS
  <2> QED
    BY <1>1, <2>1, <2>2, <2>3 DEF SplitWell
<1>2. CASE s # <<>>
  <2>1. PICK val : val = Split(s, D) /\ val = LinesOf(Splitting(s, D))
    BY <1>2 DEF Split, LinesOf
  <2>2. ASSUME NEW d \in D, D = {d} PROVE Join(val, d) = s
    <3>1. Join(LinesOf(Splitting(s, {d})), d) = s
      BY PartsJoin
    <3> QED
      BY <2>1, <2>2, <3>1
  <2>3. ASSUME NEW i \in DOMAIN val PROVE Range(val[i]) \cap D = {}
    <3>1. NoneIn(val[i], D)
      BY <2>1, PartsApart DEF AllApart
    <3> QED
      BY <3>1 DEF NoneIn, Range
  <2> QED
    BY <2>1, <2>2, <2>3 DEF SplitWell
<1> QED
  BY <1>1, <1>2

\* What Split was called on and what it returned.
SplitOnce ==
  call.op = "split" =>
    \E s \in Seq(Sign), D \in SUBSET Sign : call.on = s /\ call.args = D /\ call.val = Split(s, D)

LEMMA SplitOnceStep == TextType /\ SplitOnce /\ [StrUtilNext]_strUtilVars => SplitOnce'
<1>1. CASE UNCHANGED strUtilVars
  BY <1>1 DEF SplitOnce, strUtilVars
<1>2. ASSUME TextType, StrUtilNext PROVE SplitOnce'
  <2>1. PICK op, args, ok, val : Recorded(op, args, ok, val)
    BY <1>2, CallIsRecorded
  <2>2. call'.op = op /\ call'.on = piece /\ call'.args = args /\ call'.val = val
    BY <2>1 DEF Recorded, Called
  <2>3. ASSUME op = "split"
        PROVE  piece \in Seq(Sign) /\ args \subseteq Sign /\ val = Split(piece, args)
    <3>1. args \in Delims /\ val = Split(piece, args)
      BY <2>1, <2>3 DEF Recorded
    <3>2. args \subseteq 0 .. 127
      BY <3>1, AlphabetAssumption
    <3>3. args \subseteq Sign
      BY <3>2 DEF Sign
    <3> QED
      BY <1>2, <3>1, <3>3, CharsAreSigns DEF TextType
  <2> QED
    BY <2>2, <2>3 DEF SplitOnce
<1> QED
  BY <1>1, <1>2

LEMMA SplitOnceIsWell == SplitOnce => SplitJoins
<1> SUFFICES ASSUME SplitOnce, call.op = "split" PROVE SplitWell(call.on, call.args, call.val)
  BY DEF SplitJoins, SplitWell
<1>1. PICK s \in Seq(Sign), D \in SUBSET Sign : call.on = s /\ call.args = D /\ call.val = Split(s, D)
  BY DEF SplitOnce
<1> QED
  BY <1>1, SplittingIsWell

\* For all texts: Split loses nothing but the delimiters and leaves none of them
\* in what it returns; and whoever takes a text apart with ConsumeNonWhitespace
\* and the removals of white space, in whatever order, gets the words that Split
\* finds in it.
THEOREM WordsInvariance == StrUtilSpec => []WordsInv
<1>1. StrUtilInit => SplitOnce
  BY DEF StrUtilInit, Called, SplitOnce
<1>2. StrUtilSpec => []SplitJoins
  BY <1>1, TextTypeInit, TextTypeStep, SplitOnceStep, SplitOnceIsWell, PTL DEF StrUtilSpec
<1>3. StrUtilSpec => []WordsSoFar
  BY WordsInit, WordsStep, TextTypeInit, TextTypeStep, PTL DEF StrUtilSpec
<1>4. WordsSoFar => TokensAreTheWords
  BY DEF WordsSoFar, TokensAreTheWords, ListCat, WordsOf
<1>5. TokensAreTheWords /\ SplitJoins => WordsInv
  BY DEF WordsInv
<1> QED
  BY <1>2, <1>3, <1>4, <1>5, PTL

-----------------------------------------------------------------------------
(* tstring: the inductive invariant.                                        *)

All == Objects \cup {Temporary}
Marks == Chars \cup {Nul, Wild}
Pointers == Buffers \cup All \cup Texts

Smalls == [type : {"small"}, size : 0 .. SmallCapacity, str : [1 .. SmallCapacity + 1 -> Marks]]
Larges == [type : {"large"}, size : Nat, cap : Nat, ptr : Buffers]
Views == [type : {"view"}, size : Nat, ptr : Pointers]
Offsets == {Offset(t) : t \in Texts}
Representations == {Gone} \cup Smalls \cup Larges \cup Views \cup Offsets

IsLarge(m, o) == m.obj[o].type = "large"
Own(m, o) == m.obj[o].type \in {"small", "large"}

\* Memory is of its types,
MemoryType(m) ==
  /\ m = [obj |-> m.obj, heap |-> m.heap]
  /\ m.obj \in [All -> Representations] /\ m.heap \in [Buffers -> Seq(Marks)]

\* every owned text ends behind its characters and within its capacity,
Ends(m) ==
  /\ \A o \in All : m.obj[o].type = "small" => m.obj[o].str[m.obj[o].size + 1] = Nul
  /\ \A o \in All : IsLarge(m, o) =>
       /\ m.obj[o].size <= m.obj[o].cap /\ Len(m.heap[m.obj[o].ptr]) = m.obj[o].cap + 1
       /\ m.heap[m.obj[o].ptr][m.obj[o].size + 1] = Nul

\* and every buffer that is not free has one owner.
Owned(m) ==
  /\ \A o, p \in All : IsLarge(m, o) /\ IsLarge(m, p) /\ m.obj[o].ptr = m.obj[p].ptr => o = p
  /\ \A b \in Buffers : m.heap[b] # <<>> => \E o \in All : IsLarge(m, o) /\ m.obj[o].ptr = b

Sound(m) == MemoryType(m) /\ Ends(m) /\ Owned(m)

\* What a view of b points to.
Base(m, b) == IF m.obj[b].type = "small" THEN b ELSE m.obj[b].ptr

\* o shows t, as a view of b if it is a view.
Shows(m, o, b, t) ==
  /\ Data(m, o) = t
  /\ m.obj[o].type = "view" =>
       \/ b = NoObject /\ m.obj[o].ptr \in Texts
       \/ b \in Objects \ {o} /\ Own(m, b) /\ m.obj[o].ptr = Base(m, b)

\* A readable object shows its text, and the others know whether they exist.
Known(m, texts, bases) ==
  \A o \in Objects :
    /\ texts[o] = Dead <=> m.obj[o].type = "dead"
    /\ bases[o] # NoObject => m.obj[o].type = "view"
    /\ texts[o] \notin {Dead, Lost} => Shows(m, o, bases[o], texts[o])

TheTexts == [Objects -> Seq(Chars) \cup {Dead, Lost}]
TheBases == [Objects -> Objects \cup {NoObject}]

\* The inductive invariant.
Strings(m, texts, bases) ==
  /\ Sound(m) /\ m.obj[Temporary] = Gone
  /\ texts \in TheTexts /\ bases \in TheBases /\ Known(m, texts, bases)

StringsInv == Strings(memory, text, from)

\* What is in memory at a pointer, n characters from position i on.
LEMMA AllIs ==
  /\ Buffers \cap All = {} /\ Texts \cap All = {} /\ Texts \cap Buffers = {}
  /\ Objects \subseteq All /\ Temporary \in All
BY PointersAssumption DEF All

LEMMA CharsAre == Chars \subseteq Marks /\ Nul \in Marks /\ Wild \in Marks
BY DEF Marks

LEMMA MarksDiffer ==
  /\ Dead # Lost /\ NoObject \notin Objects /\ NoObject # Temporary
  /\ \A t \in Seq(Chars) : t \notin {Dead, Lost} /\ t \in Seq(Marks)
BY PointersAssumption, CharsAre

LEMMA Sizes16 == SmallCapacity \in Nat \ {0} /\ Alignment \in Nat \ {0} /\ MaxLen \in Nat
BY SizesAssumption

\* The fields of each representation.
LEMMA Fields ==
  ASSUME NEW p \in Representations
  PROVE  /\ p.type \in {"dead", "small", "large", "view", "offset"}
         /\ p.type = "dead" => p = Gone
         /\ p.type = "small" => p \in Smalls
         /\ p.type = "large" => p \in Larges
         /\ p.type = "view" => p \in Views
         /\ p.type = "offset" => \E t \in Texts : p = Offset(t)
<1>1. CASE p = Gone
  BY <1>1 DEF Gone
<1>2. CASE p \in Smalls
  BY <1>2 DEF Smalls
<1>3. CASE p \in Larges
  BY <1>3 DEF Larges
<1>4. CASE p \in Views
  BY <1>4 DEF Views
<1>5. CASE p \in Offsets
  BY <1>5 DEF Offsets, Offset
<1> QED
  BY <1>1, <1>2, <1>3, <1>4, <1>5 DEF Representations

LEMMA Made ==
  /\ Gone \in Representations /\ Gone.type = "dead"
  /\ \A t \in Texts : Offset(t) \in Representations
  /\ \A n \in Nat, ptr \in Pointers : View(n, ptr) \in Representations
  /\ \A n, cap \in Nat, b \in Buffers : Large(n, cap, b) \in Larges /\ Large(n, cap, b) \in Representations
<1>1. Gone \in Representations /\ Gone.type = "dead"
  BY DEF Representations, Gone
<1>2. \A t \in Texts : Offset(t) \in Representations
  BY DEF Representations, Offsets
<1>3. \A n \in Nat, ptr \in Pointers : View(n, ptr) \in Representations
  BY DEF Representations, Views, View
<1>4. \A n, cap \in Nat, b \in Buffers : Large(n, cap, b) \in Larges /\ Large(n, cap, b) \in Representations
  BY DEF Representations, Larges, Large
<1> QED
  BY <1>1, <1>2, <1>3, <1>4

\* Grown makes a text of n characters from any text.
Grows(g, t, n) == \A i \in 1 .. n : g[i] = IF i <= Len(t) THEN t[i] ELSE Wild

LEMMA GrownIs ==
  ASSUME NEW t \in Seq(Marks), NEW n \in Nat, NEW g, g = Grown(t, n)
  PROVE  g \in Seq(Marks) /\ Len(g) = n /\ g \in [1 .. n -> Marks] /\ Grows(g, t, n)
<1>1. DOMAIN t = 1 .. Len(t) /\ Len(t) \in Nat /\ \A i \in 1 .. Len(t) : t[i] \in Marks
  OBVIOUS
<1>2. \A i \in 1 .. n : (IF i \in DOMAIN t THEN t[i] ELSE Wild) \in Marks
  BY <1>1, CharsAre
<1>3. g \in [1 .. n -> Marks]
  BY <1>2 DEF Grown
<1>4. g \in Seq(Marks) /\ Len(g) = n
  BY <1>3, IsASeq
<1>5. \A i \in 1 .. n : i \in DOMAIN t <=> i <= Len(t)
  BY <1>1
<1> QED
  BY <1>3, <1>4, <1>5 DEF Grown, Grows

\* A region that was written has the text, the terminator behind it and room for
\* as many characters as was asked for.
LEMMA TerminatedIs ==
  ASSUME NEW t \in Seq(Marks), NEW cap \in Nat, Len(t) <= cap
  PROVE  /\ Terminated(t, cap) \in Seq(Marks) /\ Len(Terminated(t, cap)) = cap + 1
         /\ Terminated(t, cap) \in [1 .. cap + 1 -> Marks]
         /\ Terminated(t, cap)[Len(t) + 1] = Nul
         /\ \A i \in 1 .. Len(t) : Terminated(t, cap)[i] = t[i]
<1>1. Append(t, Nul) \in Seq(Marks) /\ Len(Append(t, Nul)) = Len(t) + 1
      /\ Append(t, Nul)[Len(t) + 1] = Nul /\ \A i \in 1 .. Len(t) : Append(t, Nul)[i] = t[i]
  BY CharsAre
<1>2. PICK a \in Seq(Marks) : a = Append(t, Nul)
  BY <1>1
<1>3. cap + 1 \in Nat
  OBVIOUS
<1>9. PICK g : g = Grown(a, cap + 1)
  OBVIOUS
<1>4. /\ g \in Seq(Marks) /\ Len(g) = cap + 1
      /\ g \in [1 .. cap + 1 -> Marks]
      /\ Grows(g, a, cap + 1)
  BY <1>3, <1>9, GrownIs
<1>5. Len(t) \in Nat
  OBVIOUS
<1>6. \A i \in 1 .. Len(t) + 1 : g[i] = a[i]
  BY <1>1, <1>2, <1>4, <1>5 DEF Grows
<1>7. g[Len(t) + 1] = Nul /\ \A i \in 1 .. Len(t) : g[i] = t[i]
  BY <1>1, <1>2, <1>5, <1>6
<1> QED
  BY <1>2, <1>4, <1>7, <1>9 DEF Terminated

\* A SMALL object with the text t.
LEMMA SmallIs ==
  ASSUME NEW t \in Seq(Marks), Len(t) <= SmallCapacity
  PROVE  /\ Small(t) \in Smalls /\ Small(t) \in Representations
         /\ Small(t).type = "small" /\ Small(t).size = Len(t)
         /\ Small(t).str = Terminated(t, SmallCapacity)
         /\ Small(t).str[Len(t) + 1] = Nul
<1>1. SmallCapacity \in Nat
  BY Sizes16
<1>2. /\ Terminated(t, SmallCapacity) \in [1 .. SmallCapacity + 1 -> Marks]
      /\ Terminated(t, SmallCapacity)[Len(t) + 1] = Nul
  BY <1>1, TerminatedIs
<1>3. Len(t) \in 0 .. SmallCapacity
  BY <1>1
<1>4. /\ Small(t).type = "small" /\ Small(t).size = Len(t)
      /\ Small(t).str = Terminated(t, SmallCapacity)
  BY DEF Small
<1>5. Small(t) \in Smalls
  BY <1>2, <1>3 DEF Small, Smalls
<1> QED
  BY <1>2, <1>4, <1>5 DEF Representations

\* An object and a buffer are written one at a time.
LEMMA PutObject ==
  ASSUME NEW m, m = [obj |-> m.obj, heap |-> m.heap], NEW o, NEW p
  PROVE  [m EXCEPT !.obj[o] = p] = [obj |-> [m.obj EXCEPT ![o] = p], heap |-> m.heap]
<1> DEFINE ob == m.obj  h == m.heap
<1>1. m = [obj |-> ob, heap |-> h]
  OBVIOUS
<1>2. [m EXCEPT !.obj[o] = p] = [m EXCEPT !.obj = [ob EXCEPT ![o] = p]]
  OBVIOUS
<1> HIDE DEF ob, h
<1>3. [[obj |-> ob, heap |-> h] EXCEPT !.obj = [ob EXCEPT ![o] = p]]
      = [obj |-> [ob EXCEPT ![o] = p], heap |-> h]
  OBVIOUS
<1> QED
  BY <1>1, <1>2, <1>3 DEF ob, h

LEMMA PutBuffer ==
  ASSUME NEW m, m = [obj |-> m.obj, heap |-> m.heap], NEW b, NEW r
  PROVE  [m EXCEPT !.heap[b] = r] = [obj |-> m.obj, heap |-> [m.heap EXCEPT ![b] = r]]
<1> DEFINE ob == m.obj  h == m.heap
<1>1. m = [obj |-> ob, heap |-> h]
  OBVIOUS
<1>2. [m EXCEPT !.heap[b] = r] = [m EXCEPT !.heap = [h EXCEPT ![b] = r]]
  OBVIOUS
<1> HIDE DEF ob, h
<1>3. [[obj |-> ob, heap |-> h] EXCEPT !.heap = [h EXCEPT ![b] = r]]
      = [obj |-> ob, heap |-> [h EXCEPT ![b] = r]]
  OBVIOUS
<1> QED
  BY <1>1, <1>2, <1>3 DEF ob, h

\* TF_le32toh makes a number of a number.
Halves == [rest : Nat, swapped : Nat]

NextHalves(v) ==
  [rest |-> v.rest \div ByteValues, swapped |-> v.swapped * ByteValues + (v.rest % ByteValues)]

LEMMA NextHalvesAre ==
  ASSUME NEW v \in Halves PROVE NextHalves(v) \in Halves
<1>1. PICK r \in Nat : r = v.rest
  BY DEF Halves
<1>2. PICK w \in Nat : w = v.swapped
  BY DEF Halves
<1>3. PICK B \in Nat \ {0} : B = ByteValues
  BY SizesAssumption
<1>4. r \div B \in Nat /\ r % B \in 0 .. B - 1
  OBVIOUS
<1>5. w * B \in Nat
  OBVIOUS
<1>6. w * B + (r % B) \in Nat
  BY <1>4, <1>5
<1> QED
  BY <1>1, <1>2, <1>3, <1>4, <1>6 DEF NextHalves, Halves

Swaps(x) ==
  CHOOSE f : f = [k \in 0 .. SizeBytes |->
                    IF k = 0 THEN [rest |-> x, swapped |-> 0]
                    ELSE [rest |-> f[k - 1].rest \div ByteValues,
                          swapped |-> f[k - 1].swapped * ByteValues + (f[k - 1].rest % ByteValues)]]

LEMMA SwappedIs ==
  ASSUME NEW x \in Nat PROVE TF_le32toh(x) \in Nat
<1>1. PICK n \in Nat : n = SizeBytes
  BY SizesAssumption
<1>2. PICK start \in Halves : start = [rest |-> x, swapped |-> 0]
  BY DEF Halves
<1> DEFINE Step == [k \in 1 .. n |-> [v \in Halves |-> NextHalves(v)]]
<1>3. Step \in [1 .. n -> [Halves -> Halves]]
  BY NextHalvesAre
<1>4. PICK f \in [0 .. n -> Halves] :
        f = [k \in 0 .. n |-> IF k = 0 THEN start ELSE Step[k][f[k - 1]]]
  <2> HIDE DEF Step
  <2>1. PICK step \in [1 .. n -> [Halves -> Halves]] : step = Step
    BY <1>3
  <2>2. \E f \in [0 .. n -> Halves] : Unfolds(f, n, start, step)
    BY Recursion
  <2> QED
    BY <2>1, <2>2 DEF Unfolds
<1>5. f = [k \in 0 .. n |-> IF k = 0 THEN start ELSE NextHalves(f[k - 1])]
  <2>1. ASSUME NEW k \in 0 .. n, k # 0 PROVE Step[k][f[k - 1]] = NextHalves(f[k - 1])
    <3>1. k \in 1 .. n /\ k - 1 \in 0 .. n
      BY <2>1
    <3> QED
      BY <3>1
  <2> HIDE DEF Step
  <2> QED
    BY <1>4, <2>1
<1> HIDE DEF Step
<1>6. PICK t : t = Swaps(x)
  OBVIOUS
<1>7. t = [k \in 0 .. n |-> IF k = 0 THEN start ELSE NextHalves(t[k - 1])]
  BY <1>1, <1>2, <1>5, <1>6 DEF Swaps, NextHalves
<1> DEFINE G == {k \in 0 .. n : t[k] \in Halves}
<1>8. 0 \in G
  BY <1>7
<1>9. ASSUME NEW k \in 0 .. n - 1, k \in G PROVE k + 1 \in G
  <2>1. k + 1 \in 0 .. n /\ (k + 1) - 1 = k /\ k + 1 # 0
    OBVIOUS
  <2>2. t[k + 1] = NextHalves(t[k])
    BY <1>7, <2>1
  <2>3. t[k + 1] \in Halves
    BY <1>9, <2>2, NextHalvesAre
  <2> QED
    BY <2>1, <2>3
<1>10. n \in G
  <2> HIDE DEF G
  <2>1. \A k \in 0 .. n : k \in G
    BY <1>8, <1>9, UpTo
  <2> QED
    BY <2>1
<1>11. TF_le32toh(x) = Swaps(x)[SizeBytes].swapped
  BY DEF TF_le32toh, Swaps
<1>12. t[n] \in Halves
  BY <1>10
<1>13. t[n].swapped \in Nat
  BY <1>12 DEF Halves
<1> QED
  BY <1>1, <1>6, <1>11, <1>13

\* Objects, pointers and regions are of their types.
LEMMA PointerIs ==
  ASSUME NEW m, MemoryType(m), NEW o \in All, m.obj[o].type # "dead"
  PROVE  GetDataPointer(m, o) \in Pointers /\ GetSize(m, o) \in Nat
<1>1. PICK p \in Representations : p = m.obj[o]
  BY DEF MemoryType
<1>2. CASE p.type = "small"
  <2>1. p \in Smalls
    BY <1>2, Fields
  <2>2. p.size \in Nat
    BY <2>1, Sizes16 DEF Smalls
  <2> QED
    BY <1>1, <1>2, <2>2 DEF GetDataPointer, GetSize, Pointers
<1>3. CASE p.type = "large"
  <2>1. p \in Larges
    BY <1>3, Fields
  <2> QED
    BY <1>1, <1>3, <2>1 DEF GetDataPointer, GetSize, Pointers, Larges
<1>4. CASE p.type = "view"
  <2>1. p \in Views
    BY <1>4, Fields
  <2> QED
    BY <1>1, <1>4, <2>1 DEF GetDataPointer, GetSize, Views
<1>5. CASE p.type = "offset"
  <2>1. PICK t \in Texts : p = Offset(t)
    BY <1>5, Fields
  <2>2. Len(t) \in Nat
    BY PointersAssumption
  <2>3. PICK x \in Nat : x = 4 * Len(t) + 2
    BY <2>2
  <2>4. PICK y \in Nat : y = TF_le32toh(x)
    BY SwappedIs
  <2>5. y \div 4 \in Nat
    OBVIOUS
  <2>6. p.type = "offset" /\ p.size = x /\ p.ptr = t
    BY <2>1, <2>3 DEF Offset
  <2> QED
    BY <1>1, <2>4, <2>5, <2>6 DEF GetDataPointer, GetSize, Pointers
<1> QED
  BY <1>1, <1>2, <1>3, <1>4, <1>5, Fields

LEMMA RegionIs ==
  ASSUME NEW m, MemoryType(m), NEW ptr \in Pointers
  PROVE  Region(m, ptr) \in Seq(Marks)
<1>1. CASE ptr \in Buffers
  BY <1>1 DEF Region, MemoryType
<1>2. CASE ptr \in All /\ m.obj[ptr].type = "small"
  <2>1. PICK p \in Representations : p = m.obj[ptr]
    BY <1>2 DEF MemoryType
  <2>2. p \in Smalls
    BY <1>2, <2>1, Fields
  <2>3. p.str \in [1 .. SmallCapacity + 1 -> Marks] /\ SmallCapacity + 1 \in Nat
    BY <2>2, Sizes16 DEF Smalls
  <2>4. p.str \in Seq(Marks)
    BY <2>3, IsASeq
  <2>5. DOMAIN m.obj = All
    BY DEF MemoryType
  <2> QED
    BY <1>2, <2>1, <2>4, <2>5, AllIs DEF Region
<1>3. CASE ptr \in All /\ m.obj[ptr].type # "small"
  <2>5. DOMAIN m.obj = All
    BY DEF MemoryType
  <2> QED
    BY <1>3, <2>5, AllIs DEF Region
<1>4. CASE ptr \in Texts
  <2>1. ptr \in Seq(Marks)
    BY <1>4, PointersAssumption, CharsAre
  <2>2. DOMAIN m.obj = All
    BY DEF MemoryType
  <2> QED
    BY <1>4, <2>1, <2>2, AllIs, CharsAre DEF Region
<1> QED
  BY <1>1, <1>2, <1>3, <1>4 DEF Pointers

\* Bytes with the region r spelled out.
Piece(r, i, n) == [k \in 1 .. n |-> IF i + k \in DOMAIN r THEN r[i + k] ELSE Wild]

Reads(v, r, i, n) == \A k \in 1 .. n : v[k] = IF i + k <= Len(r) THEN r[i + k] ELSE Wild

LEMMA PieceIs ==
  ASSUME NEW r \in Seq(Marks), NEW i \in Nat, NEW n \in Nat, NEW v, v = Piece(r, i, n)
  PROVE  v \in Seq(Marks) /\ Len(v) = n /\ Reads(v, r, i, n)
<1>1. DOMAIN r = 1 .. Len(r) /\ \A k \in 1 .. Len(r) : r[k] \in Marks
  OBVIOUS
<1>2. \A k \in 1 .. n : i + k \in DOMAIN r <=> i + k <= Len(r)
  BY <1>1
<1>3. \A k \in 1 .. n : (IF i + k \in DOMAIN r THEN r[i + k] ELSE Wild) \in Marks
  BY <1>1, CharsAre
<1>4. v \in [1 .. n -> Marks]
  BY <1>3 DEF Piece
<1>5. v \in Seq(Marks) /\ Len(v) = n
  BY <1>4, IsASeq
<1> QED
  BY <1>2, <1>5 DEF Piece, Reads

LEMMA BytesAre ==
  ASSUME NEW m, NEW ptr, NEW i, NEW n
  PROVE  Bytes(m, ptr, i, n) = Piece(Region(m, ptr), i, n)
BY DEF Bytes, Piece

LEMMA BytesType ==
  ASSUME NEW m, MemoryType(m), NEW ptr \in Pointers, NEW i \in Nat, NEW n \in Nat
  PROVE  Bytes(m, ptr, i, n) \in Seq(Marks) /\ Len(Bytes(m, ptr, i, n)) = n
<1>1. Region(m, ptr) \in Seq(Marks)
  BY RegionIs
<1> QED
  BY <1>1, PieceIs, BytesAre

LEMMA DataType ==
  ASSUME NEW m, MemoryType(m), NEW o \in All, m.obj[o].type # "dead"
  PROVE  Data(m, o) \in Seq(Marks) /\ Len(Data(m, o)) = GetSize(m, o) /\ GetSize(m, o) \in Nat
BY PointerIs, BytesType DEF Data

\* An object that owns its text has it in its region, followed by the terminator
\* and as much room as its capacity says.
LEMMA OwnIs ==
  ASSUME NEW m, Sound(m), NEW o \in All, Own(m, o),
         NEW r, r = Region(m, GetDataPointer(m, o))
  PROVE  /\ r \in Seq(Marks) /\ GetSize(m, o) \in Nat /\ GetCapacity(m, o) \in Nat
         /\ Len(r) = GetCapacity(m, o) + 1 /\ GetSize(m, o) <= GetCapacity(m, o)
         /\ r[GetSize(m, o) + 1] = Nul
         /\ \A k \in 1 .. GetSize(m, o) : Data(m, o)[k] = r[k]
<1>1. PICK p \in Representations : p = m.obj[o]
  BY DEF Sound, MemoryType
<1>2. GetDataPointer(m, o) \in Pointers /\ GetSize(m, o) \in Nat
  BY PointerIs DEF Sound, Own
<1>3. r \in Seq(Marks)
  BY <1>2, RegionIs DEF Sound
<1>4. DOMAIN m.obj = All
  BY DEF Sound, MemoryType
<1>5. /\ Len(r) = GetCapacity(m, o) + 1 /\ GetSize(m, o) <= GetCapacity(m, o)
      /\ GetCapacity(m, o) \in Nat /\ r[GetSize(m, o) + 1] = Nul
  <2>1. CASE p.type = "small"
    <3>1. p \in Smalls
      BY <2>1, Fields
    <3>2. /\ p.str \in [1 .. SmallCapacity + 1 -> Marks] /\ SmallCapacity \in Nat /\ p.size <= SmallCapacity
          /\ SmallCapacity + 1 \in Nat
      BY <3>1, Sizes16 DEF Smalls
    <3>3. r = p.str
      BY <1>1, <1>4, <2>1, AllIs DEF Region, GetDataPointer
    <3>4. Len(r) = SmallCapacity + 1
      BY <3>2, <3>3, <1>3
    <3>5. GetCapacity(m, o) = SmallCapacity /\ GetSize(m, o) = p.size
      BY <1>1, <2>1 DEF GetCapacity, GetSize
    <3> QED
      BY <1>1, <2>1, <3>2, <3>3, <3>4, <3>5 DEF Sound, Ends
  <2>2. CASE p.type = "large"
    <3>1. p \in Larges
      BY <2>2, Fields
    <3>2. r = m.heap[p.ptr]
      BY <1>1, <2>2, <3>1 DEF Region, GetDataPointer, Larges
    <3>3. GetCapacity(m, o) = p.cap /\ GetSize(m, o) = p.size /\ p.cap \in Nat
      BY <1>1, <2>2, <3>1 DEF GetCapacity, GetSize, Larges
    <3>4. p.size <= p.cap /\ Len(r) = p.cap + 1 /\ r[p.size + 1] = Nul
      BY <1>1, <2>2, <3>2 DEF Sound, Ends, IsLarge
    <3> QED
      BY <3>3, <3>4
  <2> QED
    BY <1>1, <2>1, <2>2 DEF Own
<1>6. \A k \in 1 .. GetSize(m, o) : Data(m, o)[k] = r[k]
  <2>1. PICK d : d = Piece(r, 0, GetSize(m, o))
    OBVIOUS
  <2>2. 0 \in Nat
    OBVIOUS
  <2>3. Reads(d, r, 0, GetSize(m, o))
    BY <1>2, <1>3, <2>1, <2>2, PieceIs
  <2>4. d = Data(m, o)
    BY <2>1, BytesAre DEF Data
  <2>5. \A k \in 1 .. GetSize(m, o) : 0 + k <= Len(r) /\ 0 + k = k
    BY <1>2, <1>5
  <2> QED
    BY <2>3, <2>4, <2>5 DEF Reads
<1> QED
  BY <1>2, <1>3, <1>5, <1>6

-----------------------------------------------------------------------------
(* tstring: one object changes.                                             *)

\* From m to m2 the objects not in C and their buffers stay as they are.
Others(m, m2, C) ==
  \A p \in All \ C :
    /\ m2.obj[p] = m.obj[p]
    /\ IsLarge(m, p) => m2.heap[m.obj[p].ptr] = m.heap[m.obj[p].ptr]

Effect(m, m2, o) == Sound(m2) /\ Others(m, m2, {o})

\* The pointer leads to nothing that o owns.
Away(m, o, ptr) ==
  \/ ptr \in Texts
  \/ ptr \in All \ {o}
  \/ \E p \in All \ {o} : IsLarge(m, p) /\ ptr = m.obj[p].ptr

LEMMA LargePointer ==
  ASSUME NEW m, MemoryType(m), NEW p \in All, IsLarge(m, p)
  PROVE  /\ m.obj[p] \in Larges /\ m.obj[p].ptr \in Buffers
         /\ m.obj[p].size \in Nat /\ m.obj[p].cap \in Nat
<1>1. PICK r \in Representations : r = m.obj[p]
  BY DEF MemoryType
<1>2. r \in Larges
  BY <1>1, Fields DEF IsLarge
<1> QED
  BY <1>1, <1>2 DEF Larges

LEMMA EffectStays == \A m, o : Sound(m) => Effect(m, m, o)
BY DEF Effect, Others

LEMMA EffectsAdd ==
  ASSUME NEW m, NEW m2, NEW m3, NEW o, Effect(m, m2, o), Effect(m2, m3, o)
  PROVE  Effect(m, m3, o)
BY DEF Effect, Others, IsLarge

\* What is away from o is not changed by what is done to o.
LEMMA AwayStays ==
  ASSUME NEW m, Sound(m), NEW m2, NEW o, Effect(m, m2, o), NEW ptr, Away(m, o, ptr)
  PROVE  /\ ptr \in Pointers /\ Away(m2, o, ptr)
         /\ Region(m2, ptr) = Region(m, ptr)
         /\ \A i, n : Bytes(m2, ptr, i, n) = Bytes(m, ptr, i, n)
<1>1. DOMAIN m.obj = All /\ DOMAIN m2.obj = All
  BY DEF Effect, Sound, MemoryType
<1>2. ptr \in Pointers /\ Away(m2, o, ptr) /\ Region(m2, ptr) = Region(m, ptr)
  <2>1. CASE ptr \in Texts
    BY <1>1, <2>1, AllIs DEF Away, Region, Pointers
  <2>2. CASE ptr \in All \ {o}
    BY <1>1, <2>2, AllIs DEF Away, Region, Pointers, Effect, Others
  <2>3. ASSUME NEW p \in All \ {o}, IsLarge(m, p), ptr = m.obj[p].ptr
        PROVE  ptr \in Pointers /\ Away(m2, o, ptr) /\ Region(m2, ptr) = Region(m, ptr)
    <3>1. ptr \in Buffers
      BY <2>3, LargePointer DEF Sound
    <3>2. m2.obj[p] = m.obj[p] /\ m2.heap[ptr] = m.heap[ptr]
      BY <2>3 DEF Effect, Others
    <3> QED
      BY <2>3, <3>1, <3>2 DEF Away, Region, Pointers, IsLarge
  <2> QED
    BY <2>1, <2>2, <2>3 DEF Away
<1>3. \A i, n : Bytes(m2, ptr, i, n) = Bytes(m, ptr, i, n)
  BY <1>2 DEF Bytes
<1> QED
  BY <1>2, <1>3

\* The pointer of another object is away, unless that is a view of o.
LEMMA OtherIsAway ==
  ASSUME NEW m, Sound(m), NEW o \in All, NEW s \in All \ {o}, Own(m, s)
  PROVE  Away(m, o, GetDataPointer(m, s)) /\ GetDataPointer(m, s) = Base(m, s)
BY DEF Away, GetDataPointer, Own, IsLarge, Base

\* o may become p and the heap h, the buffer of o being all that changes.
Installable(m, o, p, h) ==
  /\ p \in Representations /\ h \in [Buffers -> Seq(Marks)]
  /\ p.type = "small" => p.str[p.size + 1] = Nul
  /\ p.type = "large" =>
       /\ p.size <= p.cap /\ Len(h[p.ptr]) = p.cap + 1 /\ h[p.ptr][p.size + 1] = Nul
       /\ \A q \in All \ {o} : IsLarge(m, q) => m.obj[q].ptr # p.ptr
  /\ \A q \in All \ {o} : IsLarge(m, q) => h[m.obj[q].ptr] = m.heap[m.obj[q].ptr]
  /\ \A b \in Buffers : h[b] # <<>> =>
       \/ p.type = "large" /\ p.ptr = b
       \/ \E q \in All \ {o} : IsLarge(m, q) /\ m.obj[q].ptr = b

Put(m, o, p, h) == [obj |-> [m.obj EXCEPT ![o] = p], heap |-> h]

LEMMA Installed ==
  ASSUME NEW m, Sound(m), NEW o \in All, NEW p, NEW h, Installable(m, o, p, h),
         NEW m2, m2 = Put(m, o, p, h)
  PROVE  Effect(m, m2, o) /\ m2.obj[o] = p /\ m2.heap = h
<1>0. /\ p \in Representations /\ h \in [Buffers -> Seq(Marks)]
      /\ p.type = "small" => p.str[p.size + 1] = Nul
      /\ p.type = "large" =>
           /\ p.size <= p.cap /\ Len(h[p.ptr]) = p.cap + 1 /\ h[p.ptr][p.size + 1] = Nul
           /\ \A q \in All \ {o} : IsLarge(m, q) => m.obj[q].ptr # p.ptr
      /\ \A q \in All \ {o} : IsLarge(m, q) => h[m.obj[q].ptr] = m.heap[m.obj[q].ptr]
      /\ \A b \in Buffers : h[b] # <<>> =>
           \/ p.type = "large" /\ p.ptr = b
           \/ \E q \in All \ {o} : IsLarge(m, q) /\ m.obj[q].ptr = b
  BY DEF Installable
<1>1. m.obj \in [All -> Representations]
  BY DEF Sound, MemoryType
<1>2. m2.obj = [m.obj EXCEPT ![o] = p] /\ m2.heap = h
  BY DEF Put
<1>3. m2.obj \in [All -> Representations] /\ m2.obj[o] = p /\ \A q \in All \ {o} : m2.obj[q] = m.obj[q]
  BY <1>0, <1>1, <1>2
<1>4. MemoryType(m2)
  BY <1>0, <1>2, <1>3 DEF MemoryType, Put
<1>5. \A q \in All \ {o} : IsLarge(m2, q) <=> IsLarge(m, q)
  BY <1>3 DEF IsLarge
<1>6. Ends(m2)
  <2>1. \A q \in All : m2.obj[q].type = "small" => m2.obj[q].str[m2.obj[q].size + 1] = Nul
    BY <1>0, <1>3 DEF Sound, Ends
  <2>2. ASSUME NEW q \in All, IsLarge(m2, q)
        PROVE  /\ m2.obj[q].size <= m2.obj[q].cap
               /\ Len(m2.heap[m2.obj[q].ptr]) = m2.obj[q].cap + 1
               /\ m2.heap[m2.obj[q].ptr][m2.obj[q].size + 1] = Nul
    <3>1. CASE q = o
      BY <1>0, <1>2, <1>3, <2>2, <3>1 DEF IsLarge
    <3>2. CASE q # o
      BY <1>0, <1>2, <1>3, <1>5, <2>2, <3>2 DEF Sound, Ends
    <3> QED
      BY <3>1, <3>2
  <2> QED
    BY <2>1, <2>2 DEF Ends
<1>7. Owned(m2)
  <2>1. ASSUME NEW q \in All, NEW s \in All, IsLarge(m2, q), IsLarge(m2, s),
               m2.obj[q].ptr = m2.obj[s].ptr
        PROVE  q = s
    <3>1. CASE q # o /\ s # o
      BY <1>3, <1>5, <2>1, <3>1 DEF Sound, Owned
    <3>2. CASE q = o \/ s = o
      BY <1>0, <1>3, <1>5, <2>1, <3>2 DEF IsLarge
    <3> QED
      BY <3>1, <3>2
  <2>2. ASSUME NEW b \in Buffers, m2.heap[b] # <<>>
        PROVE  \E q \in All : IsLarge(m2, q) /\ m2.obj[q].ptr = b
    BY <1>0, <1>2, <1>3, <1>5, <2>2 DEF IsLarge
  <2> QED
    BY <2>1, <2>2 DEF Owned
<1>8. Others(m, m2, {o})
  BY <1>0, <1>2, <1>3 DEF Others
<1> QED
  BY <1>2, <1>3, <1>4, <1>6, <1>7, <1>8 DEF Effect, Sound

\* The heap without the buffer of o.
FreedHeap(m, o) == IF IsLarge(m, o) THEN [m.heap EXCEPT ![m.obj[o].ptr] = <<>>] ELSE m.heap

LEMMA FreedIs ==
  ASSUME NEW m, Sound(m), NEW o \in All
  PROVE  /\ Free(m, o) = [obj |-> m.obj, heap |-> FreedHeap(m, o)]
         /\ FreedHeap(m, o) \in [Buffers -> Seq(Marks)]
         /\ \A q \in All \ {o} : IsLarge(m, q) => FreedHeap(m, o)[m.obj[q].ptr] = m.heap[m.obj[q].ptr]
         /\ \A b \in Buffers : FreedHeap(m, o)[b] # <<>> =>
              \E q \in All \ {o} : IsLarge(m, q) /\ m.obj[q].ptr = b
         /\ \A b \in Buffers : m.heap[b] = <<>> => FreedHeap(m, o)[b] = <<>>
<1>0. m = [obj |-> m.obj, heap |-> m.heap] /\ m.heap \in [Buffers -> Seq(Marks)]
  BY DEF Sound, MemoryType
<1>1. CASE IsLarge(m, o)
  <2>1. m.obj[o].ptr \in Buffers
    BY <1>1, LargePointer DEF Sound
  <2>2. FreedHeap(m, o) = [m.heap EXCEPT ![m.obj[o].ptr] = <<>>]
    BY <1>1 DEF FreedHeap
  <2>3. Free(m, o) = [obj |-> m.obj, heap |-> FreedHeap(m, o)]
    <3>1. Free(m, o) = [m EXCEPT !.heap[m.obj[o].ptr] = <<>>]
      BY <1>1 DEF Free, IsLarge
    <3> QED
      BY <1>0, <2>2, <3>1, PutBuffer
  <2>4. FreedHeap(m, o) \in [Buffers -> Seq(Marks)]
    <3>1. <<>> \in Seq(Marks)
      OBVIOUS
    <3> QED
      BY <1>0, <2>2, <3>1
  <2>5. /\ FreedHeap(m, o)[m.obj[o].ptr] = <<>>
        /\ \A b \in Buffers : b # m.obj[o].ptr => FreedHeap(m, o)[b] = m.heap[b]
    BY <1>0, <2>1, <2>2
  <2>6. \A q \in All \ {o} : IsLarge(m, q) => m.obj[q].ptr \in Buffers /\ m.obj[q].ptr # m.obj[o].ptr
    BY <1>1, LargePointer DEF Sound, Owned
  <2> QED
    BY <2>3, <2>4, <2>5, <2>6 DEF Sound, Owned
<1>2. CASE ~IsLarge(m, o)
  <2>1. Free(m, o) = m /\ FreedHeap(m, o) = m.heap
    BY <1>2 DEF Free, IsLarge, FreedHeap
  <2> QED
    BY <1>0, <1>2, <2>1 DEF Sound, Owned
<1> QED
  BY <1>1, <1>2

\* o gives back what it owns and becomes p, which owns no buffer.
Dropped(m, o, p) == Put(m, o, p, FreedHeap(m, o))

LEMMA DroppedIs ==
  ASSUME NEW m, Sound(m), NEW o \in All, NEW p \in Representations, p.type # "large",
         p.type = "small" => p.str[p.size + 1] = Nul,
         NEW m2, m2 = Dropped(m, o, p)
  PROVE  Effect(m, m2, o) /\ m2.obj[o] = p
<1>1. PICK h \in [Buffers -> Seq(Marks)] : h = FreedHeap(m, o)
  BY FreedIs
<1>2. /\ \A q \in All \ {o} : IsLarge(m, q) => h[m.obj[q].ptr] = m.heap[m.obj[q].ptr]
      /\ \A b \in Buffers : h[b] # <<>> => \E q \in All \ {o} : IsLarge(m, q) /\ m.obj[q].ptr = b
  BY <1>1, FreedIs
<1>3. m2 = Put(m, o, p, h)
  BY <1>1 DEF Dropped
<1>4. Installable(m, o, p, h)
  BY <1>2 DEF Installable
<1> QED
  BY <1>3, <1>4, Installed

\* o owns its text, which is t.
Holds(m, o, t) == Own(m, o) /\ Data(m, o) = t /\ GetSize(m, o) = Len(t)

\* Two texts are the same if their characters are.
LEMMA SameText ==
  ASSUME NEW S, NEW T, NEW s \in Seq(S), NEW t \in Seq(T), Len(s) = Len(t),
         \A k \in 1 .. Len(t) : s[k] = t[k]
  PROVE  s = t
<1>1. s = [k \in 1 .. Len(s) |-> s[k]] /\ t = [k \in 1 .. Len(t) |-> t[k]]
  OBVIOUS
<1> QED
  BY <1>1

LEMMA HoldsIs ==
  ASSUME NEW m, Sound(m), NEW o \in All, Own(m, o), NEW t \in Seq(Marks),
         GetSize(m, o) = Len(t),
         NEW r, r = Region(m, GetDataPointer(m, o)),
         \A k \in 1 .. Len(t) : r[k] = t[k]
  PROVE  Holds(m, o, t)
<1>0. \A k \in 1 .. GetSize(m, o) : Data(m, o)[k] = r[k]
  BY OwnIs
<1>1. \A k \in 1 .. Len(t) : Data(m, o)[k] = t[k]
  BY <1>0
<1>2. Data(m, o) \in Seq(Marks) /\ Len(Data(m, o)) = GetSize(m, o)
  BY DataType DEF Sound, Own
<1>3. Data(m, o) = t
  BY <1>1, <1>2, SameText
<1> QED
  BY <1>3 DEF Holds

\* Dropped with a SMALL text.
LEMMA DroppedSmall ==
  ASSUME NEW m, Sound(m), NEW o \in All, NEW t \in Seq(Marks), Len(t) <= SmallCapacity,
         NEW m2, m2 = Dropped(m, o, Small(t))
  PROVE  Effect(m, m2, o) /\ Holds(m2, o, t) /\ m2.obj[o].type = "small"
<1>1. /\ Small(t) \in Representations
      /\ Small(t).type = "small" /\ Small(t).size = Len(t)
      /\ Small(t).str = Terminated(t, SmallCapacity)
      /\ Small(t).str[Len(t) + 1] = Nul
  BY SmallIs
<1>2. PICK p \in Representations : p = Small(t)
  BY <1>1
<1>3. Effect(m, m2, o) /\ m2.obj[o] = p
  BY <1>1, <1>2, DroppedIs
<1>4. DOMAIN m2.obj = All
  BY <1>3 DEF Effect, Sound, MemoryType
<1>5. Own(m2, o) /\ GetSize(m2, o) = Len(t) /\ GetDataPointer(m2, o) = o
  BY <1>1, <1>2, <1>3 DEF Own, GetSize, GetDataPointer
<1>6. Region(m2, o) = Terminated(t, SmallCapacity)
  BY <1>1, <1>2, <1>3, <1>4, AllIs DEF Region
<1>7. \A k \in 1 .. Len(t) : Terminated(t, SmallCapacity)[k] = t[k]
  BY Sizes16, TerminatedIs
<1>8. Holds(m2, o, t)
  BY <1>3, <1>5, <1>6, <1>7, HoldsIs DEF Effect
<1> QED
  BY <1>1, <1>2, <1>3, <1>8

\* There is always a free buffer.
LEMMA FreeBuffer ==
  ASSUME NEW m, Sound(m)
  PROVE  \E b \in Buffers : m.heap[b] = <<>>
<1>1. PICK b0 \in Buffers : TRUE
  BY BuffersAssumption
<1>2. PICK f : f = [o \in All |-> IF IsLarge(m, o) THEN m.obj[o].ptr ELSE b0]
  OBVIOUS
<1>3. f \in [All -> Buffers]
  BY <1>2, LargePointer DEF Sound
<1>4. PICK b \in Buffers : b \notin Range(f)
  BY <1>3, BuffersAssumption DEF All
<1>5. \A o \in All : IsLarge(m, o) => m.obj[o].ptr # b
  BY <1>2, <1>4 DEF Range
<1> QED
  BY <1>5 DEF Sound, Owned

\* o moves to a new buffer.
LEMMA MoveToIs ==
  ASSUME NEW m, Sound(m), NEW o \in All, NEW t \in Seq(Marks), NEW cap \in Nat, Len(t) <= cap,
         NEW m2, m2 = MoveTo(m, o, t, cap)
  PROVE  /\ Effect(m, m2, o) /\ Holds(m2, o, t) /\ IsLarge(m2, o) /\ GetCapacity(m2, o) = cap
         /\ m.heap[m2.obj[o].ptr] = <<>>
<1>1. PICK b \in Buffers : b = (CHOOSE c \in Buffers : m.heap[c] = <<>>) /\ m.heap[b] = <<>>
  BY FreeBuffer
<1>2. PICK r : r = Terminated(t, cap)
  OBVIOUS
<1>3. r \in Seq(Marks) /\ Len(r) = cap + 1 /\ r[Len(t) + 1] = Nul /\ \A k \in 1 .. Len(t) : r[k] = t[k]
  BY <1>2, TerminatedIs
<1>4. PICK p \in Representations : p = Large(Len(t), cap, b)
  BY Made
<1>5. p.type = "large" /\ p.size = Len(t) /\ p.cap = cap /\ p.ptr = b
  BY <1>4 DEF Large
<1>6. PICK g \in [Buffers -> Seq(Marks)] : g = FreedHeap(m, o)
  BY FreedIs
<1>7. PICK h : h = [g EXCEPT ![b] = r]
  OBVIOUS
<1>8. h \in [Buffers -> Seq(Marks)] /\ h[b] = r /\ \A c \in Buffers : c # b => h[c] = g[c]
  BY <1>3, <1>7
<1>9. \A q \in All : IsLarge(m, q) => m.obj[q].ptr \in Buffers /\ m.obj[q].ptr # b
  <2> SUFFICES ASSUME NEW q \in All, IsLarge(m, q) PROVE m.obj[q].ptr \in Buffers /\ m.obj[q].ptr # b
    OBVIOUS
  <2>1. m.obj[q].ptr \in Buffers /\ m.obj[q].cap \in Nat
    BY LargePointer DEF Sound
  <2>2. Len(m.heap[m.obj[q].ptr]) = m.obj[q].cap + 1
    BY DEF Sound, Ends
  <2>3. Len(m.heap[b]) = 0
    BY <1>1
  <2> QED
    BY <2>1, <2>2, <2>3
<1>10. Installable(m, o, p, h)
  <2>1. /\ \A q \in All \ {o} : IsLarge(m, q) => g[m.obj[q].ptr] = m.heap[m.obj[q].ptr]
        /\ \A c \in Buffers : g[c] # <<>> => \E q \in All \ {o} : IsLarge(m, q) /\ m.obj[q].ptr = c
    BY <1>6, FreedIs
  <2>2. \A q \in All \ {o} : IsLarge(m, q) => h[m.obj[q].ptr] = m.heap[m.obj[q].ptr]
    BY <1>8, <1>9, <2>1
  <2>3. \A c \in Buffers : h[c] # <<>> =>
          \/ p.type = "large" /\ p.ptr = c
          \/ \E q \in All \ {o} : IsLarge(m, q) /\ m.obj[q].ptr = c
    BY <1>5, <1>8, <2>1
  <2>4. /\ p.size <= p.cap /\ Len(h[p.ptr]) = p.cap + 1 /\ h[p.ptr][p.size + 1] = Nul
        /\ \A q \in All \ {o} : IsLarge(m, q) => m.obj[q].ptr # p.ptr
    BY <1>3, <1>5, <1>8, <1>9
  <2> QED
    BY <1>5, <1>8, <2>2, <2>3, <2>4 DEF Installable
<1>11. m2 = Put(m, o, p, h)
  <2>1. PICK m1 : m1 = Free(m, o)
    OBVIOUS
  <2>2. m1 = [obj |-> m.obj, heap |-> g]
    BY <1>6, <2>1, FreedIs
  <2>3. m2 = [m1 EXCEPT !.heap[b] = r, !.obj[o] = p]
    BY <1>1, <1>2, <1>4, <2>1 DEF MoveTo
  <2>4. m1 = [obj |-> m1.obj, heap |-> m1.heap] /\ m1.obj = m.obj /\ m1.heap = g
    BY <2>2
  <2>5. PICK m3 : m3 = [m1 EXCEPT !.heap[b] = r]
    OBVIOUS
  <2>6. m3 = [obj |-> m.obj, heap |-> h]
    BY <1>7, <2>4, <2>5, PutBuffer
  <2>7. m2 = [m3 EXCEPT !.obj[o] = p]
    BY <2>3, <2>5
  <2>8. m3 = [obj |-> m3.obj, heap |-> m3.heap] /\ m3.obj = m.obj /\ m3.heap = h
    BY <2>6
  <2> QED
    BY <2>7, <2>8, PutObject, ZenonT(40) DEF Put
<1>12. Effect(m, m2, o) /\ m2.obj[o] = p /\ m2.heap = h
  BY <1>10, <1>11, Installed
<1>13. /\ Own(m2, o) /\ GetSize(m2, o) = Len(t) /\ GetDataPointer(m2, o) = b
       /\ IsLarge(m2, o) /\ GetCapacity(m2, o) = cap
  BY <1>5, <1>12 DEF Own, GetSize, GetDataPointer, IsLarge, GetCapacity
<1>14. Region(m2, b) = r
  BY <1>8, <1>12 DEF Region
<1>15. Holds(m2, o, t)
  BY <1>3, <1>12, <1>13, <1>14, HoldsIs DEF Effect
<1> QED
  BY <1>1, <1>5, <1>12, <1>13, <1>15

\* o stays in its buffer and is given the text t.
LEMMA InPlaceIs ==
  ASSUME NEW m, Sound(m), NEW o \in All, IsLarge(m, o), NEW t \in Seq(Marks),
         Len(t) <= GetCapacity(m, o),
         NEW m2, m2 = [m EXCEPT !.heap[m.obj[o].ptr] = Terminated(t, GetCapacity(m, o)),
                                !.obj[o].size = Len(t)]
  PROVE  /\ Effect(m, m2, o) /\ Holds(m2, o, t) /\ IsLarge(m2, o)
         /\ m2.obj[o].ptr = m.obj[o].ptr
<1>1. PICK p0 \in Larges : p0 = m.obj[o]
  BY LargePointer DEF Sound
<1>2. PICK b \in Buffers : b = p0.ptr
  BY <1>1 DEF Larges
<1>3. PICK cap \in Nat : cap = p0.cap
  BY <1>1 DEF Larges
<1>4. GetCapacity(m, o) = cap
  BY <1>1, <1>3 DEF GetCapacity, IsLarge
<1>5. PICK r : r = Terminated(t, cap)
  OBVIOUS
<1>6. r \in Seq(Marks) /\ Len(r) = cap + 1 /\ r[Len(t) + 1] = Nul /\ \A k \in 1 .. Len(t) : r[k] = t[k]
  BY <1>4, <1>5, TerminatedIs
<1>7. PICK p : p = [p0 EXCEPT !.size = Len(t)]
  OBVIOUS
<1>8. /\ p \in Representations /\ p.type = "large" /\ p.size = Len(t)
      /\ p.cap = cap /\ p.ptr = b
  <2>1. p0 = [type |-> "large", size |-> p0.size, cap |-> cap, ptr |-> b]
    BY <1>1, <1>2, <1>3 DEF Larges
  <2>2. p = Large(Len(t), cap, b)
    BY <1>7, <2>1 DEF Large
  <2>3. Len(t) \in Nat
    OBVIOUS
  <2> QED
    BY <2>2, <2>3, Made DEF Large
<1>9. m = [obj |-> m.obj, heap |-> m.heap] /\ m.obj \in [All -> Representations]
      /\ m.heap \in [Buffers -> Seq(Marks)]
  BY DEF Sound, MemoryType
<1>10. PICK h : h = [m.heap EXCEPT ![b] = r]
  OBVIOUS
<1>11. h \in [Buffers -> Seq(Marks)] /\ h[b] = r /\ \A c \in Buffers : c # b => h[c] = m.heap[c]
  BY <1>6, <1>9, <1>10
<1>12. \A q \in All \ {o} : IsLarge(m, q) => m.obj[q].ptr \in Buffers /\ m.obj[q].ptr # b
  BY <1>1, <1>2, LargePointer DEF Sound, Owned
<1>13. Installable(m, o, p, h)
  <2>2. \A q \in All \ {o} : IsLarge(m, q) => h[m.obj[q].ptr] = m.heap[m.obj[q].ptr]
    BY <1>11, <1>12
  <2>3. \A c \in Buffers : h[c] # <<>> =>
          \/ p.type = "large" /\ p.ptr = c
          \/ \E q \in All \ {o} : IsLarge(m, q) /\ m.obj[q].ptr = c
    BY <1>1, <1>2, <1>8, <1>11 DEF Sound, Owned
  <2>4. /\ p.size <= p.cap /\ Len(h[p.ptr]) = p.cap + 1 /\ h[p.ptr][p.size + 1] = Nul
        /\ \A q \in All \ {o} : IsLarge(m, q) => m.obj[q].ptr # p.ptr
    BY <1>4, <1>6, <1>8, <1>11, <1>12
  <2> QED
    BY <1>8, <1>11, <2>2, <2>3, <2>4 DEF Installable
<1>14. m2 = Put(m, o, p, h)
  <2>1. m2 = [m EXCEPT !.heap[b] = r, !.obj[o] = p]
    BY <1>1, <1>2, <1>4, <1>5, <1>7, <1>9
  <2>5. PICK m3 : m3 = [m EXCEPT !.heap[b] = r]
    OBVIOUS
  <2>6. m3 = [obj |-> m.obj, heap |-> h]
    BY <1>9, <1>10, <2>5, PutBuffer
  <2>7. m2 = [m3 EXCEPT !.obj[o] = p]
    BY <2>1, <2>5
  <2>8. m3 = [obj |-> m3.obj, heap |-> m3.heap] /\ m3.obj = m.obj /\ m3.heap = h
    BY <2>6
  <2> QED
    BY <2>7, <2>8, PutObject DEF Put
<1>15. Effect(m, m2, o) /\ m2.obj[o] = p /\ m2.heap = h
  BY ONLY Sound(m), o \in All, <1>13, <1>14, Installed
<1>16. Own(m2, o) /\ GetSize(m2, o) = Len(t) /\ GetDataPointer(m2, o) = b /\ IsLarge(m2, o)
  BY <1>8, <1>15 DEF Own, GetSize, GetDataPointer, IsLarge
<1>17. Region(m2, b) = r
  BY <1>11, <1>15 DEF Region
<1>18. Holds(m2, o, t)
  BY <1>6, <1>15, <1>16, <1>17, HoldsIs DEF Effect
<1> QED
  BY <1>1, <1>2, <1>8, <1>15, <1>16, <1>18

\* TF_align16 and the capacities made with it.
LEMMA AlignIs ==
  ASSUME NEW n \in Nat
  PROVE  Align(n) \in Nat /\ Align(n) >= n
<1>1. PICK A \in Nat \ {0} : A = Alignment
  BY Sizes16
<1>2. PICK a \in Nat : a = n + A - 1
  BY <1>1
<1>3. a \div A \in Nat /\ a % A \in 0 .. A - 1 /\ a = A * (a \div A) + (a % A)
  BY <1>2
<1>4. PICK q \in Nat : q = a \div A
  BY <1>3
<1>5. A * q = q * A /\ q * A \in Nat
  OBVIOUS
<1>6. q * A >= n
  BY <1>2, <1>3, <1>4, <1>5
<1>7. Align(n) = q * A
  BY <1>1, <1>2, <1>4 DEF Align
<1> QED
  BY <1>5, <1>6, <1>7

LEMMA CapacityIs ==
  ASSUME NEW n \in Nat
  PROVE  CapacityFor(n) \in Nat /\ CapacityFor(n) >= n
<1>1. Align(n + 1) \in Nat /\ Align(n + 1) >= n + 1
  BY AlignIs
<1> QED
  BY <1>1 DEF CapacityFor

\* Strings that own no text have no capacity.
LEMMA NoCapacity ==
  ASSUME NEW m, Sound(m), NEW o \in All, m.obj[o].type # "dead", ~Own(m, o)
  PROVE  GetCapacity(m, o) = 0 /\ m.obj[o].type \in {"view", "offset"}
BY Fields DEF Sound, MemoryType, Own, GetCapacity

\* The new capacity is enough, and it is the old one only if there is a buffer.
LEMMA NewCapacityIs ==
  ASSUME NEW m, Sound(m), NEW o \in All, m.obj[o].type # "dead", NEW n \in Nat, n > SmallCapacity
  PROVE  /\ NewCapacity(m, o, n) \in Nat /\ n <= NewCapacity(m, o, n)
         /\ NewCapacity(m, o, n) = GetCapacity(m, o) => IsLarge(m, o)
<1>1. PICK cap : cap = GetCapacity(m, o)
  OBVIOUS
<1>2. SmallCapacity \in Nat
  BY Sizes16
<1>3. GetSize(m, o) \in Nat
  BY DataType DEF Sound
<1>4. cap \in Nat /\ (~IsLarge(m, o) => cap < n /\ ~(GetSize(m, o) > n /\ n < cap \div 2))
  <2>1. CASE Own(m, o)
    <3>1. cap \in Nat /\ GetSize(m, o) <= cap
      BY <1>1, <2>1, OwnIs
    <3>2. ~IsLarge(m, o) => cap = SmallCapacity
      BY <1>1, <2>1 DEF Own, IsLarge, GetCapacity
    <3> QED
      BY <1>2, <1>3, <3>1, <3>2
  <2>2. CASE ~Own(m, o)
    BY <1>1, <1>2, <2>2, NoCapacity
  <2> QED
    BY <2>1, <2>2
<1>5. cap \div 2 \in Nat
  BY <1>4
<1>6. CapacityFor(cap \div 2) \in Nat /\ CapacityFor(cap \div 2) >= cap \div 2
  BY <1>5, CapacityIs
<1>7. CapacityFor(n) \in Nat /\ CapacityFor(n) >= n
  BY CapacityIs
<1>8. NewCapacity(m, o, n) = IF n < GetSize(m, o) /\ n < cap \div 2 THEN CapacityFor(cap \div 2)
                             ELSE IF n > cap THEN CapacityFor(n) ELSE cap
  BY <1>1 DEF NewCapacity
<1>9. NewCapacity(m, o, n) \in Nat /\ n <= NewCapacity(m, o, n)
  BY <1>4, <1>5, <1>6, <1>7, <1>8
<1>10. NewCapacity(m, o, n) = cap => IsLarge(m, o)
  BY <1>2, <1>3, <1>4, <1>7, <1>8
<1> QED
  BY <1>1, <1>9, <1>10

LEMMA DroppedForm ==
  ASSUME NEW m, Sound(m), NEW o \in All, NEW p
  PROVE  [Free(m, o) EXCEPT !.obj[o] = p] = Dropped(m, o, p)
<1>1. PICK g : g = FreedHeap(m, o)
  OBVIOUS
<1>2. PICK m1 : m1 = Free(m, o)
  OBVIOUS
<1>3. m1 = [obj |-> m.obj, heap |-> g]
  BY <1>1, <1>2, FreedIs
<1>4. m1 = [obj |-> m1.obj, heap |-> m1.heap] /\ m1.obj = m.obj /\ m1.heap = g
  BY <1>3
<1> QED
  BY <1>1, <1>2, <1>4, PutObject DEF Dropped, Put

\* A text is written over from position i on.
Over(v, r, i, s) ==
  \A k \in 1 .. Len(r) : v[k] = IF i < k /\ k <= i + Len(s) THEN s[k - i] ELSE r[k]

LEMMA OverwriteIs ==
  ASSUME NEW r \in Seq(Marks), NEW i \in Nat, NEW s \in Seq(Marks), i + Len(s) <= Len(r),
         NEW v, v = Overwrite(r, i, s)
  PROVE  v \in Seq(Marks) /\ Len(v) = Len(r) /\ Over(v, r, i, s)
<1>1. /\ DOMAIN r = 1 .. Len(r) /\ \A k \in 1 .. Len(r) : r[k] \in Marks
      /\ DOMAIN s = 1 .. Len(s) /\ \A k \in 1 .. Len(s) : s[k] \in Marks
      /\ Len(r) \in Nat /\ Len(s) \in Nat
  OBVIOUS
<1>2. \A k \in 1 .. Len(r) : k - i \in DOMAIN s <=> i < k /\ k <= i + Len(s)
  BY <1>1
<1>3. \A k \in 1 .. Len(r) : (IF k - i \in DOMAIN s THEN s[k - i] ELSE r[k]) \in Marks
  BY <1>1
<1>4. v \in [1 .. Len(r) -> Marks]
  BY <1>1, <1>3 DEF Overwrite
<1>5. v \in Seq(Marks) /\ Len(v) = Len(r)
  BY <1>1, <1>4, IsASeq
<1>6. \A k \in 1 .. Len(r) : v[k] = IF k - i \in DOMAIN s THEN s[k - i] ELSE r[k]
  BY <1>1 DEF Overwrite
<1> QED
  BY <1>1, <1>2, <1>5, <1>6 DEF Over

\* Characters written within the text change the text and nothing else.
LEMMA WriteIs ==
  ASSUME NEW m, Sound(m), NEW o \in All, Own(m, o), NEW i \in Nat, NEW s \in Seq(Marks),
         i + Len(s) <= GetSize(m, o),
         NEW m2, m2 = Write(m, o, i, s)
  PROVE  /\ Effect(m, m2, o) /\ Holds(m2, o, Overwrite(Data(m, o), i, s))
         /\ GetDataPointer(m2, o) = GetDataPointer(m, o)
<1>1. PICK r \in Seq(Marks) : r = Region(m, GetDataPointer(m, o))
  BY OwnIs
<1>2. PICK size \in Nat : size = GetSize(m, o)
  BY OwnIs
<1>3. /\ GetCapacity(m, o) \in Nat /\ Len(r) = GetCapacity(m, o) + 1 /\ size <= GetCapacity(m, o)
      /\ r[size + 1] = Nul /\ \A k \in 1 .. size : Data(m, o)[k] = r[k]
  BY <1>1, <1>2, OwnIs
<1>4. PICK r2 : r2 = Overwrite(r, i, s)
  OBVIOUS
<1>5. i + Len(s) <= Len(r) /\ Len(s) \in Nat
  BY <1>2, <1>3
<1>6. r2 \in Seq(Marks) /\ Len(r2) = Len(r) /\ Over(r2, r, i, s)
  BY <1>4, <1>5, OverwriteIs
<1>7. r2[size + 1] = Nul
  BY <1>2, <1>3, <1>5, <1>6 DEF Over
<1>8. PICK t : t = Overwrite(Data(m, o), i, s)
  OBVIOUS
<1>9. t \in Seq(Marks) /\ Len(t) = size /\ \A k \in 1 .. size : r2[k] = t[k]
  <2>1. PICK d \in Seq(Marks) : d = Data(m, o) /\ Len(d) = size
    BY <1>2, DataType DEF Sound, Own
  <2>2. t \in Seq(Marks) /\ Len(t) = size /\ Over(t, d, i, s)
    BY <1>2, <1>8, <2>1, OverwriteIs
  <2>3. \A k \in 1 .. size : k \in 1 .. Len(r) /\ d[k] = r[k]
    BY <1>3, <2>1
  <2> QED
    BY <1>6, <2>1, <2>2, <2>3 DEF Over
<1>10. m = [obj |-> m.obj, heap |-> m.heap] /\ m.obj \in [All -> Representations]
       /\ m.heap \in [Buffers -> Seq(Marks)] /\ DOMAIN m.obj = All
  BY DEF Sound, MemoryType
<1>11. CASE m.obj[o].type = "small"
  <2>1. PICK p0 \in Smalls : p0 = m.obj[o]
    BY <1>10, <1>11, Fields
  <2>2. r = p0.str /\ p0.size = size /\ GetDataPointer(m, o) = o
    BY <1>1, <1>2, <1>10, <1>11, <2>1, AllIs DEF Region, GetDataPointer, GetSize
  <2>3. PICK p : p = [p0 EXCEPT !.str = r2]
    OBVIOUS
  <2>4. p \in Representations /\ p.type = "small" /\ p.size = size /\ p.str = r2
    <3>1. p0 = [type |-> "small", size |-> size, str |-> r]
      BY <2>1, <2>2 DEF Smalls
    <3>2. p = [type |-> "small", size |-> size, str |-> r2]
      BY <2>3, <3>1
    <3>3. r \in [1 .. SmallCapacity + 1 -> Marks] /\ SmallCapacity + 1 \in Nat /\ size \in 0 .. SmallCapacity
      BY <2>1, <2>2, Sizes16 DEF Smalls
    <3>4. Len(r) = SmallCapacity + 1
      BY <3>3
    <3>5. r2 \in [1 .. SmallCapacity + 1 -> Marks]
      BY <1>6, <3>4
    <3> QED
      BY <3>2, <3>3, <3>5 DEF Smalls, Representations
  <2>5. m2 = [m EXCEPT !.obj[o] = p]
    <3>1. m2 = [m EXCEPT !.obj[o].str = Overwrite(@, i, s)]
      BY <1>11 DEF Write
    <3> QED
      BY <3>1, <1>4, <2>1, <2>2, <2>3, <1>10
  <2>6. m2 = Put(m, o, p, m.heap)
    BY <1>10, <2>5, PutObject DEF Put
  <2>7. Installable(m, o, p, m.heap)
    BY <1>7, <1>10, <1>11, <2>4 DEF Installable, Sound, Owned, IsLarge
  <2>8. Effect(m, m2, o) /\ m2.obj[o] = p
    BY ONLY Sound(m), o \in All, <2>6, <2>7, Installed
  <2>9. DOMAIN m2.obj = All
    BY <2>8 DEF Effect, Sound, MemoryType
  <2>10. /\ Own(m2, o) /\ GetSize(m2, o) = size /\ GetDataPointer(m2, o) = o
         /\ Region(m2, o) = r2
    BY <2>4, <2>8, <2>9, AllIs DEF Own, GetSize, GetDataPointer, Region
  <2>11. Holds(m2, o, t)
    BY <1>9, <2>8, <2>10, HoldsIs DEF Effect
  <2> QED
    BY <1>8, <2>2, <2>8, <2>10, <2>11
<1>12. CASE IsLarge(m, o)
  <2>1. PICK p0 \in Larges : p0 = m.obj[o]
    BY <1>12, LargePointer DEF Sound
  <2>2. PICK b \in Buffers : b = p0.ptr
    BY <2>1 DEF Larges
  <2>3. /\ r = m.heap[b] /\ p0.size = size /\ GetDataPointer(m, o) = b
        /\ GetCapacity(m, o) = p0.cap /\ p0.type = "large"
    BY <1>1, <1>2, <1>12, <2>1, <2>2 DEF Region, GetDataPointer, GetSize, GetCapacity, IsLarge
  <2>4. PICK h : h = [m.heap EXCEPT ![b] = r2]
    OBVIOUS
  <2>5. h \in [Buffers -> Seq(Marks)] /\ h[b] = r2 /\ \A c \in Buffers : c # b => h[c] = m.heap[c]
    BY <1>6, <1>10, <2>4
  <2>6. m2 = [m EXCEPT !.heap[b] = r2]
    <3>1. m2 = [m EXCEPT !.heap[m.obj[o].ptr] = Overwrite(@, i, s)]
      BY <1>12 DEF Write, IsLarge
    <3> QED
      BY <3>1, <1>4, <2>1, <2>2, <2>3, <1>10
  <2>7. m2 = [obj |-> m.obj, heap |-> h]
    BY <1>10, <2>4, <2>6, PutBuffer
  <2>8. [m.obj EXCEPT ![o] = p0] = m.obj
    BY <1>10, <2>1
  <2>9. m2 = Put(m, o, p0, h)
    BY <2>7, <2>8 DEF Put
  <2>10. \A q \in All \ {o} : IsLarge(m, q) => m.obj[q].ptr \in Buffers /\ m.obj[q].ptr # b
    BY <1>12, <2>1, <2>2, LargePointer DEF Sound, Owned
  <2>11. Installable(m, o, p0, h)
    <3>1. \A q \in All \ {o} : IsLarge(m, q) => h[m.obj[q].ptr] = m.heap[m.obj[q].ptr]
      BY <2>5, <2>10
    <3>2. \A c \in Buffers : h[c] # <<>> =>
            \/ p0.type = "large" /\ p0.ptr = c
            \/ \E q \in All \ {o} : IsLarge(m, q) /\ m.obj[q].ptr = c
      BY <2>1, <2>2, <2>3, <2>5 DEF Sound, Owned
    <3>3. /\ p0.size <= p0.cap /\ Len(h[p0.ptr]) = p0.cap + 1 /\ h[p0.ptr][p0.size + 1] = Nul
          /\ \A q \in All \ {o} : IsLarge(m, q) => m.obj[q].ptr # p0.ptr
      BY <1>3, <1>6, <1>7, <2>2, <2>3, <2>5, <2>10
    <3>4. p0 \in Representations
      BY DEF Representations
    <3> QED
      BY <2>3, <2>5, <3>1, <3>2, <3>3, <3>4 DEF Installable
  <2>12. Effect(m, m2, o) /\ m2.obj[o] = p0 /\ m2.heap = h
    BY ONLY Sound(m), o \in All, <2>9, <2>11, Installed
  <2>13. /\ Own(m2, o) /\ GetSize(m2, o) = size /\ GetDataPointer(m2, o) = b
         /\ Region(m2, b) = r2
    BY <2>2, <2>3, <2>5, <2>12 DEF Own, GetSize, GetDataPointer, Region
  <2>14. Holds(m2, o, t)
    BY <1>9, <2>12, <2>13, HoldsIs DEF Effect
  <2> QED
    BY <1>8, <2>3, <2>12, <2>13, <2>14
<1> QED
  BY <1>11, <1>12 DEF Own, IsLarge

-----------------------------------------------------------------------------
(* tstring: texts that are cut, joined and written over.                    *)

\* The characters from i + 1 to j.
Cuts(v, t, i, j) == \A k \in 1 .. j - i : v[k] = t[i + k]

LEMMA CutIs ==
  ASSUME NEW t \in Seq(Marks), NEW i \in Nat, NEW j \in Nat, i <= j, j <= Len(t),
         NEW v, v = SubSeq(t, i + 1, j)
  PROVE  v \in Seq(Marks) /\ Len(v) = j - i /\ Cuts(v, t, i, j)
<1>1. i \in Int /\ j \in Int /\ Len(t) \in Nat /\ i + 1 \in Int
  OBVIOUS
<1>2. \A k \in i + 1 .. j : t[k] \in Marks
  BY <1>1
<1>3. /\ SubSeq(t, i + 1, j) \in Seq(Marks)
      /\ Len(SubSeq(t, i + 1, j)) = IF i + 1 <= j THEN j - (i + 1) + 1 ELSE 0
      /\ \A k \in 1 .. j - (i + 1) + 1 : SubSeq(t, i + 1, j)[k] = t[(i + 1) + k - 1]
  BY <1>1, <1>2, SubSeqProperties
<1>4. j - (i + 1) + 1 = j - i /\ \A k \in Int : (i + 1) + k - 1 = i + k
  BY <1>1
<1>5. v \in Seq(Marks) /\ Len(v) = j - i
  BY <1>1, <1>3
<1>6. \A k \in 1 .. j - i : v[k] = t[(i + 1) + k - 1]
  BY <1>1, <1>3
<1>7. \A k \in 1 .. j - i : v[k] = t[i + k]
  <2> TAKE k \in 1 .. j - i
  <2>1. v[k] = t[(i + 1) + k - 1]
    BY <1>6
  <2>2. (i + 1) + k - 1 = i + k
    OBVIOUS
  <2> QED
    BY <2>1, <2>2
<1> QED
  BY <1>5, <1>7 DEF Cuts

\* The first n characters.
LEMMA StartIs ==
  ASSUME NEW t \in Seq(Marks), NEW n \in Nat, n <= Len(t), NEW v, v = SubSeq(t, 1, n)
  PROVE  /\ v \in Seq(Marks) /\ Len(v) = n
         /\ \A k \in 1 .. n : v[k] = t[k]
<1>1. 0 \in Nat /\ 0 <= n /\ v = SubSeq(t, 0 + 1, n)
  OBVIOUS
<1>2. v \in Seq(Marks) /\ Len(v) = n - 0 /\ Cuts(v, t, 0, n)
  BY ONLY t \in Seq(Marks), n \in Nat, n <= Len(t), <1>1, CutIs
<1>3. n - 0 = n /\ \A k \in 1 .. n : 0 + k = k
  OBVIOUS
<1> QED
  BY <1>2, <1>3 DEF Cuts

LEMMA CutAll ==
  ASSUME NEW t \in Seq(Marks)
  PROVE  SubSeq(t, 1, Len(t)) = t /\ SubSeq(t, 1, 0) = <<>> /\ SubSeq(t, Len(t) + 1, Len(t)) = <<>>
<1>0. Len(t) \in Nat
  OBVIOUS
<1>1. SubSeq(t, 1, Len(t)) = t
  <2>1. PICK v : v = SubSeq(t, 1, Len(t))
    OBVIOUS
  <2>2. v \in Seq(Marks) /\ Len(v) = Len(t) /\ \A k \in 1 .. Len(t) : v[k] = t[k]
    BY <1>0, <2>1, StartIs
  <2> QED
    BY <2>1, <2>2, SameText
<1>2. SubSeq(t, 1, 0) = <<>> /\ SubSeq(t, Len(t) + 1, Len(t)) = <<>>
  BY <1>0, SubSeqEmpty
<1> QED
  BY <1>1, <1>2

\* s and then u.
Joins(v, s, u) ==
  \A k \in 1 .. Len(s) + Len(u) : v[k] = IF k <= Len(s) THEN s[k] ELSE u[k - Len(s)]

LEMMA JoinIs ==
  ASSUME NEW s \in Seq(Marks), NEW u \in Seq(Marks), NEW v, v = s \o u
  PROVE  v \in Seq(Marks) /\ Len(v) = Len(s) + Len(u) /\ Joins(v, s, u)
BY ConcatProperties DEF Joins

\* A text that is cut or kept.
LEMMA GrownCut ==
  ASSUME NEW t \in Seq(Marks), NEW n \in Nat, n <= Len(t)
  PROVE  Grown(t, n) = SubSeq(t, 1, n)
<1>1. PICK g : g = Grown(t, n)
  OBVIOUS
<1>2. /\ g \in Seq(Marks) /\ Len(g) = n
      /\ Grows(g, t, n)
  BY <1>1, GrownIs
<1>3. PICK v : v = SubSeq(t, 1, n)
  OBVIOUS
<1>4. v \in Seq(Marks) /\ Len(v) = n /\ \A k \in 1 .. n : v[k] = t[k]
  BY <1>3, StartIs
<1>5. \A k \in 1 .. n : g[k] = v[k]
  BY <1>2, <1>4 DEF Grows
<1>6. g = v
  BY <1>2, <1>4, <1>5, SameText
<1> QED
  BY <1>1, <1>3, <1>6

\* A text that is grown and written where it has grown.
LEMMA GrownJoined ==
  ASSUME NEW t \in Seq(Marks), NEW s \in Seq(Marks)
  PROVE  Overwrite(Grown(t, Len(t) + Len(s)), Len(t), s) = t \o s
<1>1. Len(t) \in Nat /\ Len(s) \in Nat /\ Len(t) + Len(s) \in Nat
  OBVIOUS
<1>2. PICK g : g = Grown(t, Len(t) + Len(s))
  OBVIOUS
<1>3. /\ g \in Seq(Marks) /\ Len(g) = Len(t) + Len(s)
      /\ Grows(g, t, Len(t) + Len(s))
  BY <1>1, <1>2, GrownIs
<1>4. PICK v : v = Overwrite(g, Len(t), s)
  OBVIOUS
<1>5. /\ v \in Seq(Marks) /\ Len(v) = Len(g)
      /\ Over(v, g, Len(t), s)
  BY <1>1, <1>3, <1>4, OverwriteIs
<1>6. PICK w : w = t \o s
  OBVIOUS
<1>7. /\ w \in Seq(Marks) /\ Len(w) = Len(t) + Len(s)
      /\ Joins(w, t, s)
  BY <1>6, JoinIs
<1>8. \A k \in 1 .. Len(w) : v[k] = w[k]
  <2> SUFFICES ASSUME NEW k \in 1 .. Len(t) + Len(s) PROVE v[k] = w[k]
    BY <1>7
  <2>1. CASE k <= Len(t)
    BY <1>1, <1>3, <1>5, <1>7, <2>1 DEF Grows, Over, Joins
  <2>2. CASE Len(t) < k
    <3>1. k \in 1 .. Len(g) /\ k <= Len(t) + Len(s) /\ ~(k <= Len(t))
      BY <1>1, <1>3, <2>2
    <3>2. v[k] = s[k - Len(t)]
      BY <1>5, <2>2, <3>1 DEF Over
    <3>3. w[k] = s[k - Len(t)]
      BY <1>7, <3>1 DEF Joins
    <3> QED
      BY <3>2, <3>3
  <2> QED
    BY <1>1, <2>1, <2>2
<1>9. v = w
  BY <1>3, <1>5, <1>7, <1>8, SameText
<1> QED
  BY <1>2, <1>4, <1>6, <1>9

\* A text written over from its beginning to its end.
LEMMA OverwrittenAll ==
  ASSUME NEW g \in Seq(Marks), NEW s \in Seq(Marks), Len(g) = Len(s)
  PROVE  Overwrite(g, 0, s) = s
<1>1. PICK v : v = Overwrite(g, 0, s)
  OBVIOUS
<1>2. 0 \in Nat /\ Len(s) \in Nat /\ 0 + Len(s) <= Len(g)
  OBVIOUS
<1>3. /\ v \in Seq(Marks) /\ Len(v) = Len(g)
      /\ Over(v, g, 0, s)
  BY <1>1, <1>2, OverwriteIs
<1>4. \A k \in 1 .. Len(s) : v[k] = s[k]
  BY <1>2, <1>3 DEF Over
<1>5. v = s
  BY <1>3, <1>4, SameText
<1> QED
  BY <1>1, <1>5

\* The gap for n characters at pos.
Gap(t, pos, n) == Overwrite(Grown(t, Len(t) + n), pos + n, SubSeq(t, pos + 1, Len(t)))

Opens(v, t, pos, n) ==
  /\ \A k \in 1 .. pos + n : k <= Len(t) => v[k] = t[k]
  /\ \A k \in pos + n + 1 .. Len(t) + n : v[k] = t[k - n]

LEMMA GapIs ==
  ASSUME NEW t \in Seq(Marks), NEW pos \in Nat, pos <= Len(t), NEW n \in Nat,
         NEW v, v = Gap(t, pos, n)
  PROVE  v \in Seq(Marks) /\ Len(v) = Len(t) + n /\ Opens(v, t, pos, n)
<1>1. PICK l \in Nat : l = Len(t)
  OBVIOUS
<1>2. PICK g : g = Grown(t, l + n)
  OBVIOUS
<1>3. /\ g \in Seq(Marks) /\ Len(g) = l + n
      /\ Grows(g, t, l + n)
  BY <1>1, <1>2, GrownIs
<1>4. PICK s : s = SubSeq(t, pos + 1, l)
  OBVIOUS
<1>5. pos <= l /\ l <= Len(t)
  BY <1>1
<1>6. /\ s \in Seq(Marks) /\ Len(s) = l - pos
      /\ Cuts(s, t, pos, l)
  BY <1>4, <1>5, CutIs
<1>7. pos + n \in Nat /\ (pos + n) + Len(s) = l + n /\ (pos + n) + Len(s) <= Len(g)
  BY <1>3, <1>6
<1>8. v = Overwrite(g, pos + n, s)
  BY <1>1, <1>2, <1>4 DEF Gap
<1>9. /\ v \in Seq(Marks) /\ Len(v) = Len(g)
      /\ Over(v, g, pos + n, s)
  BY <1>3, <1>6, <1>7, <1>8, OverwriteIs
<1>10. \A k \in 1 .. pos + n : k <= Len(t) => v[k] = t[k]
  <2> SUFFICES ASSUME NEW k \in 1 .. pos + n, k <= Len(t) PROVE v[k] = t[k]
    OBVIOUS
  <2>1. k \in 1 .. l + n /\ k <= Len(t) /\ ~(pos + n < k)
    BY <1>1, <1>5
  <2>2. v[k] = g[k]
    BY <2>1, <1>3, <1>9 DEF Over
  <2> QED
    BY <2>1, <2>2, <1>3 DEF Grows
<1>11. \A k \in pos + n + 1 .. l + n : v[k] = t[k - n]
  <2> SUFFICES ASSUME NEW k \in pos + n + 1 .. l + n PROVE v[k] = t[k - n]
    OBVIOUS
  <2>1. v[k] = s[k - (pos + n)]
    <3>1. k \in 1 .. Len(g) /\ pos + n < k /\ k <= (pos + n) + Len(s)
      BY <1>3, <1>7
    <3> QED
      BY <3>1, <1>9 DEF Over
  <2>2. k - (pos + n) \in 1 .. l - pos /\ pos + (k - (pos + n)) = k - n
    BY <1>1
  <2> QED
    BY <2>1, <2>2, <1>6 DEF Cuts
<1> QED
  BY <1>1, <1>3, <1>9, <1>10, <1>11 DEF Opens

\* The gap is filled.
LEMMA GapFilled ==
  ASSUME NEW t \in Seq(Marks), NEW pos \in Nat, pos <= Len(t), NEW s \in Seq(Marks)
  PROVE  /\ Overwrite(Gap(t, pos, Len(s)), pos, s) = SubSeq(t, 1, pos) \o s \o SubSeq(t, pos + 1, Len(t))
         /\ pos + Len(s) <= Len(Gap(t, pos, Len(s)))
<1>1. PICK l \in Nat : l = Len(t)
  OBVIOUS
<1>2. PICK n \in Nat : n = Len(s)
  OBVIOUS
<1>3. PICK g : g = Gap(t, pos, n)
  OBVIOUS
<1>4. g \in Seq(Marks) /\ Len(g) = Len(t) + n /\ Opens(g, t, pos, n)
  BY <1>3, GapIs
<1>5. pos + Len(s) <= Len(g) /\ Len(g) = l + n /\ pos <= l
  BY <1>1, <1>2, <1>4
<1>6. PICK v : v = Overwrite(g, pos, s)
  OBVIOUS
<1>7. /\ v \in Seq(Marks) /\ Len(v) = Len(g)
      /\ Over(v, g, pos, s)
  BY <1>4, <1>5, <1>6, OverwriteIs
<1>8. PICK a : a = SubSeq(t, 1, pos)
  OBVIOUS
<1>9. a \in Seq(Marks) /\ Len(a) = pos /\ \A k \in 1 .. pos : a[k] = t[k]
  BY <1>8, StartIs
<1>10. PICK b : b = SubSeq(t, pos + 1, l)
  OBVIOUS
<1>11. l <= Len(t)
  BY <1>1
<1>12. /\ b \in Seq(Marks) /\ Len(b) = l - pos
       /\ Cuts(b, t, pos, l)
  BY <1>5, <1>10, <1>11, CutIs, ZenonT(40)
<1>13. PICK c : c = a \o s
  OBVIOUS
<1>14. /\ c \in Seq(Marks) /\ Len(c) = Len(a) + Len(s)
       /\ Joins(c, a, s)
  BY <1>9, <1>13, JoinIs
<1>15. PICK w : w = c \o b
  OBVIOUS
<1>16. /\ w \in Seq(Marks) /\ Len(w) = Len(c) + Len(b)
       /\ Joins(w, c, b)
  BY <1>12, <1>14, <1>15, JoinIs
<1>17. Len(c) = pos + n /\ Len(w) = l + n /\ Len(c) + Len(b) = l + n /\ Len(v) = l + n
  BY <1>2, <1>5, <1>7, <1>9, <1>12, <1>14, <1>16
<1>18. \A k \in 1 .. Len(w) : v[k] = w[k]
  <2> SUFFICES ASSUME NEW k \in 1 .. l + n PROVE v[k] = w[k]
    BY <1>17
  <2>0. k \in 1 .. Len(g) /\ k \in 1 .. Len(c) + Len(b)
    BY <1>5, <1>17
  <2>1. CASE k <= pos
    <3>0. k \in 1 .. pos /\ k \in 1 .. Len(a) + Len(s) /\ ~(pos < k)
          /\ k \in 1 .. pos + n /\ k <= Len(t)
      BY <2>1, <1>1, <1>2, <1>5, <1>9
    <3>1. v[k] = t[k]
      BY <2>0, <3>0, <1>4, <1>7 DEF Over, Opens
    <3>2. w[k] = c[k]
      BY <2>0, <3>0, <1>16, <1>17 DEF Joins
    <3>3. c[k] = a[k] /\ a[k] = t[k]
      BY <2>1, <3>0, <1>9, <1>14 DEF Joins
    <3> QED
      BY <3>1, <3>2, <3>3
  <2>2. CASE pos < k /\ k <= pos + n
    <3>1. v[k] = s[k - pos]
      BY <2>0, <2>2, <1>2, <1>7 DEF Over
    <3>2. w[k] = c[k]
      BY <2>0, <2>2, <1>16, <1>17 DEF Joins
    <3>4. k \in 1 .. Len(a) + Len(s) /\ ~(k <= Len(a))
      BY <2>2, <1>2, <1>9
    <3>3. c[k] = s[k - pos]
      BY <3>4, <1>9, <1>14 DEF Joins
    <3> QED
      BY <3>1, <3>2, <3>3
  <2>3. CASE pos + n < k
    <3>1. v[k] = t[k - n]
      <4>1. v[k] = g[k]
        BY <2>0, <2>3, <1>2, <1>7 DEF Over
      <4>2. k \in pos + n + 1 .. Len(t) + n
        BY <2>3, <1>1
      <4> QED
        BY <4>1, <4>2, <1>4 DEF Opens
    <3>2. k - (pos + n) \in 1 .. l - pos /\ pos + (k - (pos + n)) = k - n
      BY <2>3
    <3>3. w[k] = b[k - (pos + n)]
      BY <2>0, <2>3, <1>16, <1>17 DEF Joins
    <3> QED
      BY <3>1, <3>2, <3>3, <1>12 DEF Cuts
  <2> QED
    BY <2>1, <2>2, <2>3
<1>19. v = w
  BY <1>7, <1>16, <1>17, <1>18, SameText
<1>20. SubSeq(t, pos + 1, Len(t)) = b
  BY <1>1, <1>10
<1>21. Overwrite(Gap(t, pos, Len(s)), pos, s) = v /\ Gap(t, pos, Len(s)) = g
  BY <1>2, <1>3, <1>6
<1> QED
  BY <1>5, <1>8, <1>13, <1>15, <1>19, <1>20, <1>21

\* What is behind is moved to pos, and the rest cut off.
LEMMA CutOut ==
  ASSUME NEW t \in Seq(Marks), NEW pos \in Nat, NEW len \in Nat, pos + len <= Len(t),
         NEW b, b = SubSeq(t, pos + len + 1, Len(t))
  PROVE  /\ b \in Seq(Marks) /\ pos + Len(b) <= Len(t)
         /\ Grown(Overwrite(t, pos, b), Len(t) - len) = SubSeq(t, 1, pos) \o b
<1>1. PICK l \in Nat : l = Len(t)
  OBVIOUS
<1>2. pos + len \in Nat /\ pos + len <= l /\ l - len \in Nat /\ l - len <= l /\ l <= Len(t)
      /\ l - (pos + len) \in Nat /\ pos + (l - (pos + len)) = l - len /\ pos <= Len(t)
  BY <1>1
<1>3. b = SubSeq(t, (pos + len) + 1, l)
  BY <1>1
<1>4. /\ b \in Seq(Marks) /\ Len(b) = l - (pos + len)
      /\ Cuts(b, t, (pos + len), l)
  BY <1>2, <1>3, CutIs
<1>5. pos + Len(b) <= Len(t)
  BY <1>1, <1>2, <1>4
<1>6. PICK v : v = Overwrite(t, pos, b)
  OBVIOUS
<1>7. /\ v \in Seq(Marks) /\ Len(v) = Len(t)
      /\ Over(v, t, pos, b)
  BY ONLY t \in Seq(Marks), pos \in Nat, <1>4, <1>5, <1>6, OverwriteIs
<1>8. PICK g : g = Grown(v, l - len)
  OBVIOUS
<1>9. /\ g \in Seq(Marks) /\ Len(g) = l - len
      /\ Grows(g, v, l - len)
  BY <1>2, <1>7, <1>8, GrownIs
<1>10. PICK a : a = SubSeq(t, 1, pos)
  OBVIOUS
<1>11. a \in Seq(Marks) /\ Len(a) = pos /\ \A k \in 1 .. pos : a[k] = t[k]
  BY <1>2, <1>10, StartIs, SMTT(30)
<1>12. PICK w : w = a \o b
  OBVIOUS
<1>13. /\ w \in Seq(Marks) /\ Len(w) = Len(a) + Len(b)
       /\ Joins(w, a, b)
  BY <1>4, <1>11, <1>12, JoinIs
<1>14. Len(w) = l - len /\ Len(a) + Len(b) = l - len
  BY <1>2, <1>4, <1>11, <1>13
<1>15. \A k \in 1 .. Len(w) : g[k] = w[k]
  <2> SUFFICES ASSUME NEW k \in 1 .. l - len PROVE g[k] = w[k]
    BY <1>14
  <2>0. k <= Len(v) /\ k \in 1 .. Len(t) /\ k \in 1 .. Len(a) + Len(b)
    BY <1>1, <1>2, <1>7, <1>14
  <2>1. g[k] = v[k]
    BY <2>0, <1>9 DEF Grows
  <2>2. CASE k <= pos
    <3>1. v[k] = t[k]
      BY <2>0, <2>2, <1>7 DEF Over
    <3>2. w[k] = a[k] /\ a[k] = t[k]
      BY <2>0, <2>2, <1>11, <1>13 DEF Joins
    <3> QED
      BY <2>1, <3>1, <3>2
  <2>3. CASE pos < k
    <3>0. k <= pos + Len(b)
      BY <1>2, <1>4
    <3>1. v[k] = b[k - pos]
      BY <2>0, <2>3, <3>0, <1>7 DEF Over
    <3>2. ~(k <= Len(a)) /\ k - Len(a) = k - pos
      BY <2>3, <1>11
    <3>3. w[k] = b[k - Len(a)]
      BY <2>0, <3>2, <1>13 DEF Joins
    <3> QED
      BY <2>1, <3>1, <3>2, <3>3
  <2> QED
    BY <2>2, <2>3
<1>16. g = w
  BY <1>9, <1>13, <1>14, <1>15, SameText
<1>17. Grown(Overwrite(t, pos, b), Len(t) - len) = g
  BY <1>1, <1>6, <1>8
<1> QED
  BY <1>4, <1>5, <1>10, <1>12, <1>16, <1>17

-----------------------------------------------------------------------------
(* tstring: a text is resized.                                              *)

\* Only a text that is owned can stay.
LEMMA StaysIs ==
  ASSUME NEW m, Sound(m), NEW o \in All, m.obj[o].type # "dead", NEW n \in Nat, Stays(m, o, n)
  PROVE  Own(m, o)
<1>1. CASE n <= SmallCapacity
  BY <1>1 DEF Stays, Own
<1>2. CASE ~(n <= SmallCapacity)
  <2>1. n > SmallCapacity /\ NewCapacity(m, o, n) = GetCapacity(m, o)
    BY <1>2, Sizes16 DEF Stays
  <2>2. IsLarge(m, o)
    BY <2>1, NewCapacityIs
  <2> QED
    BY <2>2 DEF IsLarge, Own
<1> QED
  BY <1>1, <1>2

\* The region of what was written to.
LEMMA WrittenRegion ==
  ASSUME NEW m, Sound(m), NEW o \in All, Own(m, o), NEW i, NEW s, NEW g, g = Write(m, o, i, s)
  PROVE  Region(g, GetDataPointer(m, o)) = Overwrite(Region(m, GetDataPointer(m, o)), i, s)
<1>1. PICK p \in Representations : p = m.obj[o]
  BY DEF Sound, MemoryType
<1>2. m.obj \in [All -> Representations] /\ m.heap \in [Buffers -> Seq(Marks)] /\ DOMAIN m.obj = All
  BY DEF Sound, MemoryType
<1>3. CASE p.type = "small"
  <2>1. p \in Smalls
    BY <1>3, Fields
  <2>2. GetDataPointer(m, o) = o /\ Region(m, o) = p.str
    BY <1>1, <1>2, <1>3, AllIs DEF GetDataPointer, Region
  <2>3. PICK q : q = [p EXCEPT !.str = Overwrite(p.str, i, s)]
    OBVIOUS
  <2>4. q.type = "small" /\ q.str = Overwrite(p.str, i, s)
    BY <1>3, <2>1, <2>3 DEF Smalls
  <2>5. g = [m EXCEPT !.obj[o] = q]
    <3>1. g = [m EXCEPT !.obj[o].str = Overwrite(@, i, s)]
      BY <1>1, <1>3 DEF Write
    <3> QED
      BY <1>1, <1>2, <2>3, <3>1
  <2>6. g.obj = [m.obj EXCEPT ![o] = q]
    BY <2>5, PutObject DEF Sound, MemoryType
  <2>7. g.obj[o] = q /\ DOMAIN g.obj = All
    BY <1>2, <2>6
  <2> QED
    BY <2>2, <2>4, <2>7, AllIs DEF Region
<1>4. CASE p.type = "large"
  <2>1. PICK b \in Buffers : b = p.ptr
    BY <1>4, Fields DEF Larges
  <2>2. GetDataPointer(m, o) = b /\ Region(m, b) = m.heap[b]
    BY <1>1, <1>4, <2>1 DEF GetDataPointer, Region
  <2>3. PICK r : r = Overwrite(m.heap[b], i, s)
    OBVIOUS
  <2>4. g = [m EXCEPT !.heap[b] = r]
    <3>1. g = [m EXCEPT !.heap[m.obj[o].ptr] = Overwrite(@, i, s)]
      BY <1>1, <1>4 DEF Write
    <3> QED
      BY <1>1, <1>2, <2>1, <2>3, <3>1
  <2>5. g.heap = [m.heap EXCEPT ![b] = r]
    BY <2>4, PutBuffer DEF Sound, MemoryType
  <2>6. g.heap[b] = r
    BY <1>2, <2>5
  <2> QED
    BY <2>2, <2>3, <2>6 DEF Region
<1> QED
  BY <1>1, <1>3, <1>4 DEF Own

\* A text is cut off where a terminator has been written.
LEMMA SizeCut ==
  ASSUME NEW m, Sound(m), NEW o \in All, Own(m, o), NEW n \in Nat, n <= GetSize(m, o),
         NEW r, r = Region(m, GetDataPointer(m, o)), r[n + 1] = Nul,
         NEW m2, m2 = [m EXCEPT !.obj[o].size = n]
  PROVE  /\ Effect(m, m2, o) /\ Holds(m2, o, SubSeq(Data(m, o), 1, n))
         /\ GetDataPointer(m2, o) = GetDataPointer(m, o)
         /\ Region(m2, GetDataPointer(m2, o)) = r
<1>1. PICK p0 \in Representations : p0 = m.obj[o]
  BY DEF Sound, MemoryType
<1>2. PICK ptr : ptr = GetDataPointer(m, o)
  OBVIOUS
<1>3. m = [obj |-> m.obj, heap |-> m.heap] /\ m.obj \in [All -> Representations]
      /\ m.heap \in [Buffers -> Seq(Marks)] /\ DOMAIN m.obj = All
  BY DEF Sound, MemoryType
<1>4. PICK size \in Nat : size = GetSize(m, o) /\ n <= size
  BY OwnIs
<1>5. PICK p : p = [p0 EXCEPT !.size = n]
  OBVIOUS
<1>6. m2 = [m EXCEPT !.obj[o] = p]
  BY <1>1, <1>3, <1>5
<1>7. m2 = Put(m, o, p, m.heap)
  BY <1>3, <1>6, PutObject DEF Put
<1>8. /\ p \in Representations /\ p.type = p0.type /\ p.size = n
      /\ p.type = "small" => p.str = r /\ r = p0.str /\ ptr = o
      /\ p.type = "large" => /\ p.ptr = ptr /\ ptr = p0.ptr /\ ptr \in Buffers /\ r = m.heap[ptr]
                             /\ p.cap = p0.cap /\ p0.size = size /\ p.cap \in Nat
  <2>1. CASE p0.type = "small"
    <3>1. p0 \in Smalls
      BY <2>1, Fields
    <3>2. p0.size = size /\ ptr = o /\ r = p0.str
      BY <1>1, <1>2, <1>3, <1>4, <2>1, AllIs DEF Region, GetDataPointer, GetSize
    <3>3. p0 = [type |-> "small", size |-> size, str |-> r] /\ size \in 0 .. SmallCapacity
          /\ r \in [1 .. SmallCapacity + 1 -> Marks]
      BY <3>1, <3>2 DEF Smalls
    <3>4. p = [type |-> "small", size |-> n, str |-> r] /\ n \in 0 .. SmallCapacity
      BY <1>4, <1>5, <3>3, Sizes16
    <3>5. p \in Smalls
      BY <3>3, <3>4 DEF Smalls
    <3> QED
      BY <2>1, <3>2, <3>4, <3>5 DEF Representations
  <2>2. CASE p0.type = "large"
    <3>1. p0 \in Larges
      BY <2>2, Fields
    <3>2. p0.size = size /\ ptr = p0.ptr /\ r = m.heap[ptr] /\ ptr \in Buffers
      BY <1>1, <1>2, <1>4, <2>2, <3>1 DEF Region, GetDataPointer, GetSize, Larges
    <3>3. PICK cap \in Nat : cap = p0.cap
      BY <3>1 DEF Larges
    <3>4. p0 = [type |-> "large", size |-> size, cap |-> cap, ptr |-> ptr]
      BY <3>1, <3>2, <3>3 DEF Larges
    <3>5. p = [type |-> "large", size |-> n, cap |-> cap, ptr |-> ptr]
      BY <1>5, <3>4
    <3>6. p \in Larges
      BY <3>2, <3>5 DEF Larges
    <3> QED
      BY <2>2, <3>2, <3>3, <3>5, <3>6 DEF Representations
  <2> QED
    BY <1>1, <2>1, <2>2 DEF Own
<1>9. Installable(m, o, p, m.heap)
  <2>1. p.type = "small" => p.str[p.size + 1] = Nul
    BY <1>8
  <2>2. p.type = "large" =>
          /\ p.size <= p.cap /\ Len(m.heap[p.ptr]) = p.cap + 1 /\ m.heap[p.ptr][p.size + 1] = Nul
          /\ \A q \in All \ {o} : IsLarge(m, q) => m.obj[q].ptr # p.ptr
    <3> SUFFICES ASSUME p.type = "large"
                 PROVE  /\ p.size <= p.cap /\ Len(m.heap[p.ptr]) = p.cap + 1
                        /\ m.heap[p.ptr][p.size + 1] = Nul
                        /\ \A q \in All \ {o} : IsLarge(m, q) => m.obj[q].ptr # p.ptr
      OBVIOUS
    <3>1. IsLarge(m, o) /\ p0.size <= p0.cap /\ Len(m.heap[p0.ptr]) = p0.cap + 1
      BY <1>1, <1>8 DEF Sound, Ends, IsLarge
    <3>2. p.size <= p.cap
      BY <1>4, <1>8, <3>1
    <3>3. \A q \in All \ {o} : IsLarge(m, q) => m.obj[q].ptr # p.ptr
      BY <1>1, <1>8, <3>1 DEF Sound, Owned
    <3> QED
      BY <1>8, <3>1, <3>2, <3>3
  <2>3. \A b \in Buffers : m.heap[b] # <<>> =>
          \/ p.type = "large" /\ p.ptr = b
          \/ \E q \in All \ {o} : IsLarge(m, q) /\ m.obj[q].ptr = b
    BY <1>1, <1>8 DEF Sound, Owned, IsLarge
  <2> QED
    BY <1>3, <1>8, <2>1, <2>2, <2>3 DEF Installable
<1>10. Effect(m, m2, o) /\ m2.obj[o] = p /\ m2.heap = m.heap
  BY ONLY Sound(m), o \in All, <1>7, <1>9, Installed
<1>11. DOMAIN m2.obj = All
  BY <1>10 DEF Effect, Sound, MemoryType
<1>12. /\ Own(m2, o) /\ GetSize(m2, o) = n /\ GetDataPointer(m2, o) = ptr
       /\ Region(m2, ptr) = r
  <2>1. CASE p.type = "small"
    BY <1>8, <1>10, <1>11, <2>1, AllIs DEF Own, GetSize, GetDataPointer, Region
  <2>2. CASE p.type = "large"
    BY <1>8, <1>10, <2>2 DEF Own, GetSize, GetDataPointer, Region
  <2> QED
    BY <1>1, <1>8, <2>1, <2>2 DEF Own
<1>13. PICK d \in Seq(Marks) : d = Data(m, o) /\ Len(d) = size
  BY <1>4, DataType DEF Sound, Own
<1>14. PICK t : t = SubSeq(d, 1, n)
  OBVIOUS
<1>15. t \in Seq(Marks) /\ Len(t) = n /\ \A k \in 1 .. n : t[k] = d[k]
  BY <1>4, <1>13, <1>14, StartIs
<1>16. \A k \in 1 .. Len(t) : r[k] = t[k]
  <2>1. \A k \in 1 .. size : d[k] = r[k]
    BY <1>4, <1>13, OwnIs
  <2>2. \A k \in 1 .. n : k \in 1 .. size
    BY <1>4
  <2> QED
    BY <1>15, <2>1, <2>2
<1>17. Holds(m2, o, t)
  BY <1>10, <1>12, <1>15, <1>16, HoldsIs DEF Effect
<1> QED
  BY <1>2, <1>10, <1>12, <1>13, <1>14, <1>17

LEMMA NulIs == <<Nul>> \in Seq(Marks) /\ Len(<<Nul>>) = 1 /\ <<Nul>>[1] = Nul
<1>1. Nul \in Marks
  BY CharsAre
<1> QED
  BY <1>1

\* A text that is resized where it is: what is cut off stays behind the
\* terminator.
LEMMA CutOffIs ==
  ASSUME NEW m, Sound(m), NEW o \in All, Own(m, o), NEW n \in Nat, n < GetSize(m, o),
         NEW m2, m2 = Cut(m, o, n),
         NEW r, r = Region(m, GetDataPointer(m, o)),
         NEW r2, r2 = Region(m2, GetDataPointer(m, o))
  PROVE  /\ Effect(m, m2, o) /\ Holds(m2, o, Grown(Data(m, o), n))
         /\ GetDataPointer(m2, o) = GetDataPointer(m, o)
         /\ Len(r2) = Len(r) /\ \A k \in 1 .. Len(r) : k # n + 1 => r2[k] = r[k]
<1>1. PICK s \in Seq(Marks) : s = <<Nul>> /\ Len(s) = 1 /\ s[1] = Nul
  BY NulIs
<1>2. PICK size \in Nat : size = GetSize(m, o) /\ n < size
  BY OwnIs
<1>3. PICK d \in Seq(Marks) : d = Data(m, o) /\ Len(d) = size
  BY <1>2, DataType DEF Sound, Own
<1>4. PICK g : g = Write(m, o, n, s)
  OBVIOUS
<1>5. PICK v : v = Overwrite(d, n, s)
  OBVIOUS
<1>6. n + Len(s) <= GetSize(m, o) /\ n + Len(s) <= Len(d)
  BY <1>1, <1>2, <1>3
<1>7. /\ Effect(m, g, o) /\ Holds(g, o, v)
      /\ GetDataPointer(g, o) = GetDataPointer(m, o)
  BY <1>3, <1>4, <1>5, <1>6, WriteIs
<1>8. v \in Seq(Marks) /\ Len(v) = size /\ Over(v, d, n, s)
  BY <1>3, <1>5, <1>6, OverwriteIs
<1>9. Sound(g) /\ Own(g, o) /\ Data(g, o) = v /\ GetSize(g, o) = size
  BY <1>7, <1>8 DEF Effect, Holds
<1>10. PICK rg : rg = Region(g, GetDataPointer(g, o))
  OBVIOUS
<1>11. \A k \in 1 .. size : v[k] = rg[k]
  <2>1. \A k \in 1 .. GetSize(g, o) : Data(g, o)[k] = rg[k]
    BY ONLY o \in All, <1>9, <1>10, OwnIs
  <2> QED
    BY <1>9, <2>1
<1>12. rg = Overwrite(r, n, s)
  BY <1>4, <1>7, <1>10, WrittenRegion
<1>13. r \in Seq(Marks) /\ size < Len(r)
  <2>1. /\ r \in Seq(Marks) /\ GetCapacity(m, o) \in Nat /\ Len(r) = GetCapacity(m, o) + 1
        /\ size <= GetCapacity(m, o)
    BY <1>2, OwnIs
  <2> QED
    BY <2>1
<1>14. n + Len(s) <= Len(r)
  BY <1>1, <1>2, <1>13
<1>15. Len(rg) = Len(r) /\ Over(rg, r, n, s)
  BY <1>12, <1>13, <1>14, OverwriteIs
<1>16. rg[n + 1] = Nul
  BY <1>1, <1>2, <1>13, <1>15 DEF Over
<1>17. m2 = [g EXCEPT !.obj[o].size = n] /\ n <= GetSize(g, o)
  BY <1>1, <1>2, <1>4, <1>9 DEF Cut
<1>18. /\ Effect(g, m2, o) /\ Holds(m2, o, SubSeq(v, 1, n))
       /\ GetDataPointer(m2, o) = GetDataPointer(g, o)
       /\ Region(m2, GetDataPointer(m2, o)) = rg
  <2>1. Effect(g, m2, o) /\ Holds(m2, o, SubSeq(Data(g, o), 1, n))
        /\ GetDataPointer(m2, o) = GetDataPointer(g, o)
        /\ Region(m2, GetDataPointer(m2, o)) = rg
    BY ONLY o \in All, n \in Nat, <1>9, <1>10, <1>16, <1>17, SizeCut
  <2> QED
    BY <1>9, <2>1
<1>19. SubSeq(v, 1, n) = Grown(d, n)
  <2>1. PICK w : w = SubSeq(v, 1, n)
    OBVIOUS
  <2>2. n <= Len(v)
    BY <1>2, <1>8
  <2>3. w \in Seq(Marks) /\ Len(w) = n /\ \A k \in 1 .. n : w[k] = v[k]
    BY <1>8, <2>1, <2>2, StartIs
  <2>4. PICK u : u = Grown(d, n)
    OBVIOUS
  <2>5. u \in Seq(Marks) /\ Len(u) = n /\ Grows(u, d, n)
    BY <2>4, GrownIs
  <2>6. \A k \in 1 .. n : w[k] = u[k]
    <3> SUFFICES ASSUME NEW k \in 1 .. n PROVE w[k] = u[k]
      OBVIOUS
    <3>1. k \in 1 .. Len(d) /\ k <= Len(d) /\ ~(n < k)
      BY <1>2, <1>3
    <3>2. v[k] = d[k]
      BY <1>8, <3>1 DEF Over
    <3>3. u[k] = d[k]
      BY <2>5, <3>1 DEF Grows
    <3> QED
      BY <2>3, <3>2, <3>3
  <2>7. w = u
    BY <2>3, <2>5, <2>6, SameText
  <2> QED
    BY <2>1, <2>4, <2>7
<1>20. Effect(m, m2, o)
  BY <1>7, <1>18, EffectsAdd
<1>21. \A k \in 1 .. Len(r) : k # n + 1 => rg[k] = r[k]
  BY <1>1, <1>13, <1>15 DEF Over
<1> QED
  BY <1>3, <1>7, <1>15, <1>18, <1>19, <1>20, <1>21

\* TF_TString_ResizeUninitialized: o owns the first n characters of what it had,
\* unwritten ones behind them.
LEMMA ResizeIs ==
  ASSUME NEW m, Sound(m), NEW o \in All, m.obj[o].type # "dead", NEW n \in Nat,
         NEW m2, m2 = ResizeUninitialized(m, o, n)
  PROVE  Effect(m, m2, o) /\ Holds(m2, o, Grown(Data(m, o), n))
<1>0. PICK d \in Seq(Marks) : d = Data(m, o)
  BY DataType DEF Sound
<1>9. PICK t0 : t0 = Grown(d, n)
  OBVIOUS
<1>1. PICK t \in Seq(Marks) : t = Grown(Data(m, o), n) /\ Len(t) = n
  BY <1>0, <1>9, GrownIs
<1>2. PICK cap : cap = NewCapacity(m, o, n)
  OBVIOUS
<1>6. CASE n < GetSize(m, o) /\ Stays(m, o, n)
  <2>1. m2 = Cut(m, o, n)
    BY <1>6 DEF ResizeUninitialized
  <2>2. Own(m, o)
    BY <1>6, StaysIs
  <2> QED
    BY <1>6, <2>1, <2>2, CutOffIs
<1>7. ASSUME ~(n < GetSize(m, o) /\ Stays(m, o, n))
      PROVE  m2 = IF n <= SmallCapacity THEN [Free(m, o) EXCEPT !.obj[o] = Small(t)]
                  ELSE IF cap # GetCapacity(m, o) THEN MoveTo(m, o, t, cap)
                  ELSE [m EXCEPT !.heap[m.obj[o].ptr] = Terminated(t, cap), !.obj[o].size = n]
  BY <1>1, <1>2, <1>7 DEF ResizeUninitialized
<1>3. CASE ~(n < GetSize(m, o) /\ Stays(m, o, n)) /\ n <= SmallCapacity
  <2>1. m2 = [Free(m, o) EXCEPT !.obj[o] = Small(t)]
    BY <1>3, <1>7
  <2>2. m2 = Dropped(m, o, Small(t))
    BY <2>1, DroppedForm
  <2> QED
    BY <1>1, <1>3, <2>2, DroppedSmall
<1>4. CASE /\ ~(n < GetSize(m, o) /\ Stays(m, o, n))
           /\ ~(n <= SmallCapacity) /\ cap # GetCapacity(m, o)
  <2>1. m2 = MoveTo(m, o, t, cap)
    BY <1>4, <1>7
  <2>2. cap \in Nat /\ n <= cap
    BY <1>2, <1>4, NewCapacityIs, Sizes16
  <2> QED
    BY <1>1, <2>1, <2>2, MoveToIs
<1>5. CASE /\ ~(n < GetSize(m, o) /\ Stays(m, o, n))
           /\ ~(n <= SmallCapacity) /\ cap = GetCapacity(m, o)
  <2>1. m2 = [m EXCEPT !.heap[m.obj[o].ptr] = Terminated(t, cap), !.obj[o].size = n]
    BY <1>5, <1>7
  <2>4. n > SmallCapacity
    BY <1>5, Sizes16
  <2>2. cap \in Nat /\ n <= cap /\ IsLarge(m, o)
    BY <1>2, <1>5, <2>4, NewCapacityIs
  <2>3. m2 = [m EXCEPT !.heap[m.obj[o].ptr] = Terminated(t, GetCapacity(m, o)), !.obj[o].size = Len(t)]
    BY <1>1, <1>5, <2>1
  <2> QED
    BY <1>1, <1>5, <2>2, <2>3, InPlaceIs, ZenonT(40)
<1> QED
  BY <1>3, <1>4, <1>5, <1>6

-----------------------------------------------------------------------------
(* tstring: what the functions of TF_TString do.                            *)

\* From m to m2 only o changes, which then owns t.
Gives(m, m2, o, t) == Effect(m, m2, o) /\ Holds(m2, o, t)

LEMMA HeldType ==
  ASSUME NEW m, Sound(m), NEW o \in All, NEW t, Holds(m, o, t)
  PROVE  /\ t \in Seq(Marks) /\ Len(t) \in Nat /\ Len(t) = GetSize(m, o) /\ Data(m, o) = t
         /\ Own(m, o) /\ m.obj[o].type # "dead"
<1>1. Own(m, o) /\ Data(m, o) = t /\ Len(t) = GetSize(m, o) /\ m.obj[o].type # "dead"
  BY DEF Holds, Own
<1>2. Data(m, o) \in Seq(Marks) /\ GetSize(m, o) \in Nat
  BY <1>1, DataType DEF Sound
<1> QED
  BY <1>1, <1>2

\* What is read from an object's own text.
LEMMA OwnBytes ==
  ASSUME NEW m, Sound(m), NEW o \in All, NEW t, Holds(m, o, t),
         NEW i \in Nat, NEW n \in Nat, i + n <= Len(t)
  PROVE  Bytes(m, GetDataPointer(m, o), i, n) = SubSeq(t, i + 1, i + n)
<1>1. /\ t \in Seq(Marks) /\ Len(t) \in Nat /\ Len(t) = GetSize(m, o) /\ Data(m, o) = t
      /\ Own(m, o)
  BY HeldType
<1>2. PICK r : r = Region(m, GetDataPointer(m, o))
  OBVIOUS
<1>3. /\ r \in Seq(Marks) /\ GetCapacity(m, o) \in Nat /\ Len(r) = GetCapacity(m, o) + 1
      /\ Len(t) <= GetCapacity(m, o) /\ \A k \in 1 .. Len(t) : t[k] = r[k]
  BY <1>1, <1>2, OwnIs
<1>4. PICK b : b = Piece(r, i, n)
  OBVIOUS
<1>5. /\ b \in Seq(Marks) /\ Len(b) = n
      /\ Reads(b, r, i, n)
  BY <1>3, <1>4, PieceIs
<1>6. PICK v : v = SubSeq(t, i + 1, i + n)
  OBVIOUS
<1>7. i + n \in Nat /\ i <= i + n /\ (i + n) - i = n
  OBVIOUS
<1>8. v \in Seq(Marks) /\ Len(v) = (i + n) - i /\ Cuts(v, t, i, i + n)
  BY <1>1, <1>6, <1>7, CutIs
<1>9. \A k \in 1 .. n : b[k] = v[k]
  <2> SUFFICES ASSUME NEW k \in 1 .. n PROVE b[k] = v[k]
    OBVIOUS
  <2>1. i + k <= Len(r) /\ i + k \in 1 .. Len(t) /\ k \in 1 .. (i + n) - i
    BY <1>1, <1>3
  <2> QED
    BY <2>1, <1>3, <1>5, <1>8 DEF Cuts, Reads
<1>10. b = v
  BY <1>5, <1>7, <1>8, <1>9, SameText
<1>11. Bytes(m, GetDataPointer(m, o), i, n) = b
  BY <1>2, <1>4, BytesAre
<1> QED
  BY <1>6, <1>10, <1>11

\* A text is resized and written to.
LEMMA ResizeWrite ==
  ASSUME NEW m, Sound(m), NEW o \in All, m.obj[o].type # "dead", NEW n \in Nat,
         NEW g, g = ResizeUninitialized(m, o, n),
         NEW i \in Nat, NEW s \in Seq(Marks), i + Len(s) <= n,
         NEW m2, m2 = Write(g, o, i, s)
  PROVE  /\ Gives(m, m2, o, Overwrite(Grown(Data(m, o), n), i, s))
         /\ GetDataPointer(m2, o) = GetDataPointer(g, o)
<1>1. PICK d \in Seq(Marks) : d = Data(m, o)
  BY DataType DEF Sound
<1>2. PICK t : t = Grown(d, n)
  OBVIOUS
<1>3. t \in Seq(Marks) /\ Len(t) = n
  BY <1>1, <1>2, GrownIs
<1>4. Effect(m, g, o) /\ Holds(g, o, t)
  BY <1>1, <1>2, ResizeIs
<1>5. Sound(g) /\ Own(g, o) /\ GetSize(g, o) = n /\ Data(g, o) = t
  BY <1>3, <1>4 DEF Effect, Holds
<1>6. /\ Effect(g, m2, o) /\ Holds(m2, o, Overwrite(t, i, s))
      /\ GetDataPointer(m2, o) = GetDataPointer(g, o)
  <2>1. i + Len(s) <= GetSize(g, o)
    BY <1>5
  <2> QED
    BY <1>5, <2>1, WriteIs
<1>7. Effect(m, m2, o)
  BY <1>4, <1>6, EffectsAdd
<1> QED
  BY <1>1, <1>2, <1>6, <1>7 DEF Gives

LEMMA FillIs ==
  ASSUME NEW c \in Chars, NEW n \in Nat
  PROVE  Fill(c, n) \in Seq(Marks) /\ Fill(c, n) \in Seq(Chars) /\ Len(Fill(c, n)) = n
<1>1. Fill(c, n) \in [1 .. n -> Chars] /\ Fill(c, n) \in [1 .. n -> Marks]
  BY CharsAre DEF Fill
<1> QED
  BY <1>1, IsASeq

\* TF_TString_Resize to a larger size.
LEMMA ResizeFillIs ==
  ASSUME NEW m, Sound(m), NEW o \in All, m.obj[o].type # "dead", NEW n \in Nat, NEW c \in Chars,
         GetSize(m, o) <= n, NEW m2, m2 = Resize(m, o, n, c)
  PROVE  Gives(m, m2, o, Data(m, o) \o Fill(c, n - GetSize(m, o)))
<1>1. PICK d \in Seq(Marks) : d = Data(m, o) /\ Len(d) = GetSize(m, o) /\ Len(d) \in Nat
  BY DataType DEF Sound
<1>2. n - Len(d) \in Nat /\ Len(d) + (n - Len(d)) = n
  BY <1>1
<1>3. PICK s \in Seq(Marks) : s = Fill(c, n - Len(d)) /\ Len(s) = n - Len(d)
  BY <1>2, FillIs
<1>4. Len(d) + Len(s) = n
  BY <1>2, <1>3
<1>5. PICK g : g = ResizeUninitialized(m, o, n)
  OBVIOUS
<1>6. m2 = Write(g, o, Len(d), s)
  BY <1>1, <1>3, <1>5 DEF Resize
<1>7. Gives(m, m2, o, Overwrite(Grown(d, n), Len(d), s))
  BY <1>1, <1>4, <1>5, <1>6, ResizeWrite
<1>8. Overwrite(Grown(d, n), Len(d), s) = d \o s
  BY <1>4, GrownJoined
<1> QED
  BY <1>1, <1>3, <1>7, <1>8

\* What was there before the text has grown.
LEMMA GrownPart ==
  ASSUME NEW t \in Seq(Marks), NEW n \in Nat, NEW i \in Nat, NEW j \in Nat, i <= j, j <= Len(t), j <= n
  PROVE  SubSeq(Grown(t, n), i + 1, j) = SubSeq(t, i + 1, j)
<1>1. PICK g : g = Grown(t, n)
  OBVIOUS
<1>2. g \in Seq(Marks) /\ Len(g) = n /\ Grows(g, t, n)
  BY <1>1, GrownIs
<1>3. PICK v : v = SubSeq(g, i + 1, j)
  OBVIOUS
<1>4. v \in Seq(Marks) /\ Len(v) = j - i /\ Cuts(v, g, i, j)
  BY <1>2, <1>3, CutIs
<1>5. PICK w : w = SubSeq(t, i + 1, j)
  OBVIOUS
<1>6. w \in Seq(Marks) /\ Len(w) = j - i /\ Cuts(w, t, i, j)
  BY <1>5, CutIs
<1>7. \A k \in 1 .. Len(w) : v[k] = w[k]
  <2> SUFFICES ASSUME NEW k \in 1 .. j - i PROVE v[k] = w[k]
    BY <1>6
  <2>1. v[k] = g[i + k] /\ w[k] = t[i + k]
    BY <1>4, <1>6 DEF Cuts
  <2>2. i + k \in 1 .. n /\ i + k <= Len(t)
    OBVIOUS
  <2>3. g[i + k] = t[i + k]
    BY <1>2, <2>2 DEF Grows
  <2> QED
    BY <2>1, <2>3
<1>8. v = w
  BY <1>4, <1>6, <1>7, SameText
<1> QED
  BY <1>1, <1>3, <1>5, <1>8

\* TF_TString_Copy and TF_TString_AppendN: o has what is read when it has been resized.
LEMMA CopyGives ==
  ASSUME NEW m, Sound(m), NEW o \in All, m.obj[o].type # "dead", NEW n \in Nat,
         NEW g, g = ResizeUninitialized(m, o, n), NEW ptr, NEW i,
         NEW s \in Seq(Marks), Len(s) = n, Bytes(g, ptr, i, n) = s,
         NEW m2, m2 = Copy(m, o, ptr, i, n)
  PROVE  Gives(m, m2, o, s) /\ GetDataPointer(m2, o) = GetDataPointer(g, o)
<1>1. PICK d \in Seq(Marks) : d = Data(m, o)
  BY DataType DEF Sound
<1>2. m2 = Write(g, o, 0, s)
  BY DEF Copy
<1>3. 0 \in Nat /\ 0 + Len(s) <= n
  OBVIOUS
<1>4. /\ Gives(m, m2, o, Overwrite(Grown(d, n), 0, s))
      /\ GetDataPointer(m2, o) = GetDataPointer(g, o)
  BY <1>1, <1>2, <1>3, ResizeWrite
<1>5. PICK t : t = Grown(d, n)
  OBVIOUS
<1>6. t \in Seq(Marks) /\ Len(t) = n
  BY <1>5, GrownIs
<1>7. Overwrite(t, 0, s) = s
  BY <1>6, OverwrittenAll
<1> QED
  BY <1>4, <1>5, <1>7

LEMMA AppendGives ==
  ASSUME NEW m, Sound(m), NEW o \in All, m.obj[o].type # "dead", NEW n \in Nat \ {0},
         NEW d, d = Data(m, o),
         NEW g, g = ResizeUninitialized(m, o, Len(d) + n), NEW ptr, NEW i,
         NEW s \in Seq(Marks), Len(s) = n, Bytes(g, ptr, i, n) = s,
         NEW m2, m2 = AppendN(m, o, ptr, i, n)
  PROVE  Gives(m, m2, o, d \o s) /\ GetDataPointer(m2, o) = GetDataPointer(g, o)
<1>1. d \in Seq(Marks) /\ Len(d) = GetSize(m, o) /\ Len(d) \in Nat
  BY DataType DEF Sound
<1>2. m2 = Write(g, o, Len(d), s)
  BY <1>1 DEF AppendN
<1>3. Len(d) + n \in Nat /\ Len(d) + Len(s) = Len(d) + n /\ Len(d) + Len(s) <= Len(d) + n
  BY <1>1
<1>4. /\ Gives(m, m2, o, Overwrite(Grown(d, Len(d) + n), Len(d), s))
      /\ GetDataPointer(m2, o) = GetDataPointer(g, o)
  BY <1>1, <1>2, <1>3, ResizeWrite
<1>5. Overwrite(Grown(d, Len(d) + n), Len(d), s) = d \o s
  BY <1>1, <1>3, GrownJoined
<1> QED
  BY <1>4, <1>5

\* What is copied and appended from elsewhere,
LEMMA CopyIs ==
  ASSUME NEW m, Sound(m), NEW o \in All, m.obj[o].type # "dead", NEW ptr, Away(m, o, ptr),
         NEW i \in Nat, NEW n \in Nat, NEW m2, m2 = Copy(m, o, ptr, i, n)
  PROVE  Gives(m, m2, o, Bytes(m, ptr, i, n))
<1>1. PICK g : g = ResizeUninitialized(m, o, n)
  OBVIOUS
<1>2. Effect(m, g, o)
  BY <1>1, ResizeIs
<1>3. ptr \in Pointers /\ Bytes(g, ptr, i, n) = Bytes(m, ptr, i, n)
  BY <1>2, AwayStays
<1>4. PICK s \in Seq(Marks) : s = Bytes(m, ptr, i, n) /\ Len(s) = n
  BY <1>3, BytesType DEF Sound
<1> QED
  BY <1>1, <1>3, <1>4, CopyGives

LEMMA AppendIs ==
  ASSUME NEW m, Sound(m), NEW o \in All, m.obj[o].type # "dead", NEW ptr, Away(m, o, ptr),
         NEW i \in Nat, NEW n \in Nat \ {0}, NEW m2, m2 = AppendN(m, o, ptr, i, n)
  PROVE  Gives(m, m2, o, Data(m, o) \o Bytes(m, ptr, i, n))
<1>1. PICK d \in Seq(Marks) : d = Data(m, o) /\ Len(d) \in Nat
  BY DataType DEF Sound
<1>2. Len(d) + n \in Nat
  BY <1>1
<1>3. PICK g : g = ResizeUninitialized(m, o, Len(d) + n)
  OBVIOUS
<1>4. Effect(m, g, o)
  BY <1>2, <1>3, ResizeIs
<1>5. ptr \in Pointers /\ Bytes(g, ptr, i, n) = Bytes(m, ptr, i, n)
  BY <1>4, AwayStays
<1>6. PICK s \in Seq(Marks) : s = Bytes(m, ptr, i, n) /\ Len(s) = n
  BY <1>5, BytesType DEF Sound
<1> QED
  BY <1>1, <1>3, <1>5, <1>6, AppendGives

\* from wherever it is read,
LEMMA CopyEffect ==
  ASSUME NEW m, Sound(m), NEW o \in All, m.obj[o].type # "dead", NEW ptr \in Pointers,
         NEW i \in Nat, NEW n \in Nat, NEW m2, m2 = Copy(m, o, ptr, i, n)
  PROVE  Effect(m, m2, o) /\ Own(m2, o)
<1>1. PICK g : g = ResizeUninitialized(m, o, n)
  OBVIOUS
<1>2. Effect(m, g, o)
  BY <1>1, ResizeIs
<1>3. PICK s \in Seq(Marks) : s = Bytes(g, ptr, i, n) /\ Len(s) = n
  BY <1>2, BytesType DEF Effect, Sound
<1>4. Gives(m, m2, o, s)
  BY <1>1, <1>3, CopyGives
<1> QED
  BY <1>4 DEF Gives, Holds

LEMMA AppendEffect ==
  ASSUME NEW m, Sound(m), NEW o \in All, m.obj[o].type # "dead", NEW ptr \in Pointers,
         NEW i \in Nat, NEW n \in Nat \ {0}, NEW m2, m2 = AppendN(m, o, ptr, i, n)
  PROVE  Effect(m, m2, o) /\ Own(m2, o)
<1>1. PICK d \in Seq(Marks) : d = Data(m, o) /\ Len(d) \in Nat
  BY DataType DEF Sound
<1>2. Len(d) + n \in Nat
  BY <1>1
<1>3. PICK g : g = ResizeUninitialized(m, o, Len(d) + n)
  OBVIOUS
<1>4. Effect(m, g, o)
  BY <1>2, <1>3, ResizeIs
<1>5. PICK s \in Seq(Marks) : s = Bytes(g, ptr, i, n) /\ Len(s) = n
  BY <1>4, BytesType DEF Effect, Sound
<1>6. Gives(m, m2, o, d \o s)
  BY <1>1, <1>3, <1>5, AppendGives
<1> QED
  BY <1>6 DEF Gives, Holds

\* and from the text itself if that stays where it is.
LEMMA SelfAppendIs ==
  ASSUME NEW m, Sound(m), NEW o \in All, NEW d, Holds(m, o, d),
         NEW i \in Nat, NEW n \in Nat \ {0}, i + n <= Len(d),
         NEW m2, m2 = AppendN(m, o, GetDataPointer(m, o), i, n),
         GetDataPointer(m2, o) = GetDataPointer(m, o)
  PROVE  Gives(m, m2, o, d \o SubSeq(d, i + 1, i + n))
<1>1. d \in Seq(Marks) /\ d = Data(m, o) /\ Len(d) \in Nat /\ m.obj[o].type # "dead"
  BY HeldType
<1>2. PICK l \in Nat : l = Len(d) + n /\ i + n <= l /\ i + n \in Nat /\ i <= i + n
  BY <1>1
<1>3. PICK g : g = ResizeUninitialized(m, o, l)
  OBVIOUS
<1>4. PICK t : t = Grown(d, l)
  OBVIOUS
<1>5. t \in Seq(Marks) /\ Len(t) = l
  BY <1>1, <1>4, GrownIs
<1>6. Effect(m, g, o) /\ Holds(g, o, t) /\ Sound(g) /\ MemoryType(g)
  BY <1>1, <1>3, <1>4, ResizeIs DEF Effect, Sound
<1>7. PICK ptr \in Pointers : ptr = GetDataPointer(m, o)
  BY <1>1, PointerIs DEF Sound
<1>8. PICK s \in Seq(Marks) : s = Bytes(g, ptr, i, n) /\ Len(s) = n
  BY <1>6, BytesType
<1>9. m2 = AppendN(m, o, ptr, i, n) /\ g = ResizeUninitialized(m, o, Len(d) + n)
  BY <1>2, <1>3, <1>7
<1>10. Gives(m, m2, o, d \o s) /\ GetDataPointer(m2, o) = GetDataPointer(g, o)
  BY <1>1, <1>8, <1>9, AppendGives
<1>11. s = SubSeq(t, i + 1, i + n)
  <2>1. i + n <= Len(t) /\ ptr = GetDataPointer(g, o)
    BY <1>2, <1>5, <1>7, <1>10
  <2> QED
    BY <1>6, <1>8, <2>1, OwnBytes
<1>12. SubSeq(t, i + 1, i + n) = SubSeq(d, i + 1, i + n)
  <2>1. PICK j \in Nat : j = i + n /\ i <= j /\ j <= Len(d) /\ j <= l
    BY <1>2
  <2>2. SubSeq(Grown(d, l), i + 1, j) = SubSeq(d, i + 1, j)
    <3>1. /\ d \in Seq(Marks) /\ l \in Nat /\ i \in Nat /\ j \in Nat
          /\ i <= j /\ j <= Len(d) /\ j <= l
      BY <1>1, <1>2, <2>1
    <3> QED
      BY ONLY <3>1, GrownPart
  <2> QED
    BY <1>4, <2>1, <2>2
<1> QED
  BY <1>10, <1>11, <1>12

\* TF_TString_GetMutableDataPointer: from here on o owns its text.
LEMMA MutableIs ==
  ASSUME NEW m, Sound(m), NEW o \in All, m.obj[o].type # "dead",
         NEW m2, m2 = GetMutable(m, o)
  PROVE  Gives(m, m2, o, Data(m, o))
<1>1. PICK d \in Seq(Marks) : d = Data(m, o) /\ Len(d) = GetSize(m, o) /\ Len(d) \in Nat
  BY DataType DEF Sound
<1>2. CASE m.obj[o].type \in {"view", "offset"}
  <2>1. m2 = ResizeUninitialized(m, o, Len(d))
    BY <1>1, <1>2 DEF GetMutable
  <2>2. Gives(m, m2, o, Grown(d, Len(d)))
    BY <1>1, <2>1, ResizeIs DEF Gives
  <2>3. Len(d) <= Len(d)
    BY <1>1
  <2>4. Grown(d, Len(d)) = SubSeq(d, 1, Len(d)) /\ SubSeq(d, 1, Len(d)) = d
    BY <1>1, <2>3, GrownCut, CutAll
  <2> QED
    BY <1>1, <2>2, <2>4
<1>3. CASE m.obj[o].type \notin {"view", "offset"}
  <2>1. m2 = m
    BY <1>3 DEF GetMutable
  <2>2. Own(m, o)
    BY <1>3, NoCapacity
  <2> QED
    BY <1>1, <2>1, <2>2, EffectStays DEF Gives, Holds
<1> QED
  BY <1>2, <1>3

\* erase(pos, len).
LEMMA EraseIs ==
  ASSUME NEW m, Sound(m), NEW o \in All, m.obj[o].type # "dead",
         NEW pos \in Nat, NEW len \in Nat, pos + len <= GetSize(m, o),
         NEW d, d = Data(m, o), NEW m2, m2 = Erase(m, o, pos, len)
  PROVE  Gives(m, m2, o, SubSeq(d, 1, pos) \o SubSeq(d, pos + len + 1, Len(d)))
<1>1. d \in Seq(Marks) /\ Len(d) = GetSize(m, o) /\ Len(d) \in Nat
  BY DataType DEF Sound
<1>2. PICK g : g = GetMutable(m, o)
  OBVIOUS
<1>3. Effect(m, g, o) /\ Holds(g, o, d)
  BY <1>2, MutableIs DEF Gives
<1>4. Sound(g) /\ Own(g, o) /\ GetSize(g, o) = Len(d) /\ Data(g, o) = d
  BY <1>3 DEF Effect, Holds
<1>5. pos + len \in Nat /\ pos + len <= Len(d) /\ Len(d) - len - pos \in Nat /\ (pos + len) + (Len(d) - len - pos) = Len(d)
  BY <1>1
<1>6. PICK b : b = SubSeq(d, pos + len + 1, Len(d))
  OBVIOUS
<1>7. Bytes(g, GetDataPointer(g, o), pos + len, Len(d) - len - pos) = b
  <2>1. (pos + len) + (Len(d) - len - pos) <= Len(d)
    BY <1>1, <1>5
  <2>3. PICK i \in Nat : i = pos + len
    BY <1>5
  <2>4. PICK n \in Nat : n = Len(d) - len - pos
    BY <1>5
  <2>2. Bytes(g, GetDataPointer(g, o), i, n) = SubSeq(d, i + 1, i + n)
    <3>1. i + n <= Len(d)
      BY <1>1, <2>1, <2>3, <2>4
    <3>2. Sound(g) /\ Holds(g, o, d)
      BY <1>3, <1>4
    <3> QED
      BY ONLY o \in All, i \in Nat, n \in Nat, <3>1, <3>2, OwnBytes
  <2> QED
    BY <1>5, <1>6, <2>2, <2>3, <2>4
<1>8. /\ b \in Seq(Marks) /\ pos + Len(b) <= Len(d)
      /\ Grown(Overwrite(d, pos, b), Len(d) - len) = SubSeq(d, 1, pos) \o b
  <2>1. PICK t \in Seq(Marks) : t = d
    BY <1>1
  <2>2. pos + len <= Len(t) /\ b = SubSeq(t, pos + len + 1, Len(t))
    BY <1>5, <1>6, <2>1
  <2>3. /\ b \in Seq(Marks) /\ pos + Len(b) <= Len(t)
        /\ Grown(Overwrite(t, pos, b), Len(t) - len) = SubSeq(t, 1, pos) \o b
    BY ONLY pos \in Nat, len \in Nat, t \in Seq(Marks), <2>2, CutOut
  <2> QED
    BY <2>1, <2>3
<1>9. PICK h : h = Write(g, o, pos, b)
  OBVIOUS
<1>10. Effect(g, h, o) /\ Holds(h, o, Overwrite(d, pos, b))
  BY <1>4, <1>8, <1>9, WriteIs
<1>11. Sound(h) /\ h.obj[o].type # "dead" /\ Data(h, o) = Overwrite(d, pos, b)
  BY <1>10 DEF Effect, Holds, Own
<1>12. m2 = ResizeUninitialized(h, o, Len(d) - len)
  BY <1>2, <1>4, <1>7, <1>9 DEF Erase
<1>13. Len(d) - len \in Nat
  BY <1>1
<1>14. Effect(h, m2, o) /\ Holds(m2, o, Grown(Overwrite(d, pos, b), Len(d) - len))
  BY <1>11, <1>12, <1>13, ResizeIs
<1>15. Effect(g, m2, o)
  BY <1>10, <1>14, EffectsAdd
<1>16. Effect(m, m2, o)
  BY <1>3, <1>15, EffectsAdd
<1> QED
  BY <1>6, <1>8, <1>14, <1>16 DEF Gives

\* The gap for n characters at pos.
LEMMA OpenIs ==
  ASSUME NEW m, Sound(m), NEW o \in All, m.obj[o].type # "dead",
         NEW pos \in Nat, NEW n \in Nat, pos <= GetSize(m, o),
         NEW d, d = Data(m, o), NEW m2, m2 = Open(m, o, pos, n)
  PROVE  Gives(m, m2, o, Gap(d, pos, n))
<1>1. d \in Seq(Marks) /\ Len(d) = GetSize(m, o) /\ Len(d) \in Nat
  BY DataType DEF Sound
<1>2. PICK g : g = ResizeUninitialized(m, o, Len(d) + n)
  OBVIOUS
<1>3. Len(d) + n \in Nat /\ Len(d) - pos \in Nat /\ pos + (Len(d) - pos) = Len(d) /\ Len(d) <= Len(d) + n
  BY <1>1
<1>4. PICK t : t = Grown(d, Len(d) + n)
  OBVIOUS
<1>5. t \in Seq(Marks) /\ Len(t) = Len(d) + n
  BY <1>1, <1>3, <1>4, GrownIs
<1>6. Effect(m, g, o) /\ Holds(g, o, t)
  BY <1>2, <1>3, <1>4, ResizeIs
<1>7. PICK s : s = SubSeq(d, pos + 1, Len(d))
  OBVIOUS
<1>8. s \in Seq(Marks) /\ Len(s) = Len(d) - pos
  <2>1. Len(d) <= Len(d) /\ pos <= Len(d)
    BY <1>1
  <2> QED
    BY <1>1, <1>7, <2>1, CutIs
<1>9. Bytes(g, GetDataPointer(g, o), pos, Len(d) - pos) = s
  <2>1. pos + (Len(d) - pos) <= Len(t)
    BY <1>3, <1>5
  <2>2. Bytes(g, GetDataPointer(g, o), pos, Len(d) - pos) = SubSeq(t, pos + 1, pos + (Len(d) - pos))
    BY <1>3, <1>6, <2>1, OwnBytes, SMTT(30) DEF Effect
  <2>3. pos <= Len(d) /\ Len(d) <= Len(d)
    BY <1>1
  <2>4. SubSeq(t, pos + 1, Len(d)) = SubSeq(d, pos + 1, Len(d))
    <3>1. PICK l \in Nat : l = Len(d) + n
      BY <1>3
    <3>2. Len(d) <= l
      BY <1>3, <3>1
    <3> QED
      BY ONLY pos \in Nat, <1>1, <1>4, <2>3, <3>1, <3>2, GrownPart, ZenonT(40)
  <2> QED
    BY <1>3, <1>7, <2>2, <2>4
<1>10. m2 = Write(g, o, pos + n, s)
  BY <1>1, <1>2, <1>9 DEF Open
<1>11. pos + n \in Nat /\ (pos + n) + Len(s) <= Len(d) + n
  BY <1>1, <1>8
<1>12. Gives(m, m2, o, Overwrite(t, pos + n, s))
  BY <1>2, <1>3, <1>4, <1>8, <1>10, <1>11, ResizeWrite
<1> QED
  BY <1>4, <1>7, <1>12 DEF Gap

\* The gap is filled with s.
LEMMA InsertedIs ==
  ASSUME NEW m, Sound(m), NEW o \in All, m.obj[o].type # "dead",
         NEW pos \in Nat, pos <= GetSize(m, o), NEW s \in Seq(Marks),
         NEW d, d = Data(m, o), NEW g, g = Open(m, o, pos, Len(s)),
         NEW m2, m2 = Write(g, o, pos, s)
  PROVE  /\ Gives(m, m2, o, SubSeq(d, 1, pos) \o s \o SubSeq(d, pos + 1, Len(d)))
         /\ GetDataPointer(m2, o) = GetDataPointer(g, o)
<1>1. d \in Seq(Marks) /\ Len(d) = GetSize(m, o) /\ Len(d) \in Nat /\ Len(s) \in Nat
  BY DataType DEF Sound
<1>2. Effect(m, g, o) /\ Holds(g, o, Gap(d, pos, Len(s)))
  BY <1>1, OpenIs DEF Gives
<1>3. /\ Overwrite(Gap(d, pos, Len(s)), pos, s) = SubSeq(d, 1, pos) \o s \o SubSeq(d, pos + 1, Len(d))
      /\ pos + Len(s) <= Len(Gap(d, pos, Len(s)))
  BY <1>1, GapFilled
<1>4. Sound(g) /\ Own(g, o) /\ GetSize(g, o) = Len(Gap(d, pos, Len(s))) /\ Data(g, o) = Gap(d, pos, Len(s))
  BY <1>2 DEF Effect, Holds
<1>5. pos + Len(s) <= GetSize(g, o)
  BY <1>3, <1>4
<1>6. /\ Effect(g, m2, o) /\ Holds(m2, o, Overwrite(Gap(d, pos, Len(s)), pos, s))
      /\ GetDataPointer(m2, o) = GetDataPointer(g, o)
  BY <1>4, <1>5, WriteIs
<1>7. Effect(m, m2, o)
  BY <1>2, <1>6, EffectsAdd
<1> QED
  BY <1>3, <1>6, <1>7 DEF Gives

\* insert(pos, s, subpos, sublen): s is read when the gap is open,
LEMMA InsertGives ==
  ASSUME NEW m, Sound(m), NEW o \in All, m.obj[o].type # "dead", NEW s,
         NEW pos \in Nat, NEW subpos, NEW sublen \in Nat, pos <= GetSize(m, o),
         NEW d, d = Data(m, o), NEW g, g = Open(m, o, pos, sublen),
         NEW b \in Seq(Marks), Len(b) = sublen, Bytes(g, GetDataPointer(g, s), subpos, sublen) = b,
         NEW m2, m2 = Insert(m, o, pos, s, subpos, sublen)
  PROVE  /\ Gives(m, m2, o, SubSeq(d, 1, pos) \o b \o SubSeq(d, pos + 1, Len(d)))
         /\ GetDataPointer(m2, o) = GetDataPointer(g, o)
<1>1. m2 = Write(g, o, pos, b)
  BY DEF Insert
<1> QED
  BY <1>1, InsertedIs

\* from elsewhere,
LEMMA InsertIs ==
  ASSUME NEW m, Sound(m), NEW o \in All, m.obj[o].type # "dead",
         NEW s \in All \ {o}, m.obj[s].type # "dead", Away(m, o, GetDataPointer(m, s)),
         NEW pos \in Nat, NEW subpos \in Nat, NEW sublen \in Nat, pos <= GetSize(m, o),
         NEW d, d = Data(m, o), NEW b, b = Bytes(m, GetDataPointer(m, s), subpos, sublen),
         NEW m2, m2 = Insert(m, o, pos, s, subpos, sublen)
  PROVE  Gives(m, m2, o, SubSeq(d, 1, pos) \o b \o SubSeq(d, pos + 1, Len(d)))
<1>1. PICK g : g = Open(m, o, pos, sublen)
  OBVIOUS
<1>2. Effect(m, g, o)
  BY <1>1, OpenIs DEF Gives
<1>3. PICK ptr : ptr = GetDataPointer(m, s)
  OBVIOUS
<1>4. GetDataPointer(g, s) = ptr
  BY <1>2, <1>3 DEF Effect, Others, GetDataPointer
<1>5. ptr \in Pointers /\ Bytes(g, ptr, subpos, sublen) = b
  BY <1>2, <1>3, AwayStays
<1>6. b \in Seq(Marks) /\ Len(b) = sublen
  BY <1>3, <1>5, BytesType DEF Sound
<1> QED
  BY <1>1, <1>4, <1>5, <1>6, InsertGives

\* from the text itself, by a pointer to where it is now, what has not moved,
LEMMA SelfInsertIs ==
  ASSUME NEW m, Sound(m), NEW o \in All, m.obj[o].type # "dead", NEW s,
         NEW pos \in Nat, NEW subpos \in Nat, NEW sublen \in Nat, pos <= GetSize(m, o),
         subpos + sublen <= GetSize(m, o), sublen = 0 \/ subpos <= pos,
         NEW d, d = Data(m, o), NEW g, g = Open(m, o, pos, sublen),
         GetDataPointer(g, s) = GetDataPointer(g, o),
         NEW b, b = SubSeq(d, subpos + 1, subpos + sublen),
         NEW m2, m2 = Insert(m, o, pos, s, subpos, sublen)
  PROVE  Gives(m, m2, o, SubSeq(d, 1, pos) \o b \o SubSeq(d, pos + 1, Len(d)))
<1>1. d \in Seq(Marks) /\ Len(d) = GetSize(m, o) /\ Len(d) \in Nat /\ pos <= Len(d)
  BY DataType DEF Sound
<1>3. PICK t : t = Gap(d, pos, sublen)
  OBVIOUS
<1>4. Effect(m, g, o) /\ Holds(g, o, t)
  BY <1>3, OpenIs DEF Gives
<1>5. t \in Seq(Marks) /\ Len(t) = Len(d) + sublen /\ Opens(t, d, pos, sublen)
  <2>1. PICK u \in Seq(Marks) : u = d
    BY <1>1
  <2>2. pos <= Len(u) /\ t = Gap(u, pos, sublen)
    BY <1>1, <1>3, <2>1
  <2>3. t \in Seq(Marks) /\ Len(t) = Len(u) + sublen /\ Opens(t, u, pos, sublen)
    BY ONLY pos \in Nat, sublen \in Nat, u \in Seq(Marks), <2>2, GapIs
  <2> QED
    BY <2>1, <2>3
<1>6. subpos + sublen \in Nat /\ subpos <= subpos + sublen /\ subpos + sublen <= Len(d)
      /\ (subpos + sublen) - subpos = sublen
  <2>1. subpos \in Nat /\ sublen \in Nat
    OBVIOUS
  <2>2. subpos + sublen \in Nat /\ subpos <= subpos + sublen /\ (subpos + sublen) - subpos = sublen
    BY ONLY <2>1
  <2>3. subpos + sublen <= Len(d)
    BY <1>1
  <2> QED
    BY ONLY <2>2, <2>3
<1>7. b \in Seq(Marks) /\ Len(b) = sublen /\ Cuts(b, d, subpos, subpos + sublen)
  BY <1>1, <1>6, CutIs
<1>8. PICK v : v = SubSeq(t, subpos + 1, subpos + sublen)
  OBVIOUS
<1>9. subpos + sublen <= Len(t)
  BY <1>1, <1>5, <1>6
<1>10. v \in Seq(Marks) /\ Len(v) = sublen /\ Cuts(v, t, subpos, subpos + sublen)
  BY <1>5, <1>6, <1>8, <1>9, CutIs
<1>11. \A k \in 1 .. sublen : v[k] = b[k]
  <2> SUFFICES ASSUME NEW k \in 1 .. sublen PROVE v[k] = b[k]
    OBVIOUS
  <2>1. subpos + k \in 1 .. pos + sublen /\ subpos + k <= Len(d)
    BY <1>1, <1>6
  <2>2. v[k] = t[subpos + k] /\ b[k] = d[subpos + k]
    BY <1>6, <1>7, <1>10 DEF Cuts
  <2> QED
    BY <2>1, <2>2, <1>5 DEF Opens
<1>12. v = b
  BY <1>7, <1>10, <1>11, SameText
<1>13. Bytes(g, GetDataPointer(g, s), subpos, sublen) = b
  BY <1>4, <1>8, <1>9, <1>12, OwnBytes DEF Effect
<1> QED
  BY <1>7, <1>13, InsertGives

\* and from wherever it is read.
LEMMA InsertEffect ==
  ASSUME NEW m, Sound(m), NEW o \in All, m.obj[o].type # "dead", NEW s \in All, m.obj[s].type # "dead",
         NEW pos \in Nat, NEW subpos \in Nat, NEW sublen \in Nat, pos <= GetSize(m, o),
         NEW g, g = Open(m, o, pos, sublen),
         NEW m2, m2 = Insert(m, o, pos, s, subpos, sublen)
  PROVE  /\ Effect(m, m2, o) /\ Own(m2, o) /\ Effect(m, g, o)
         /\ GetDataPointer(m2, o) = GetDataPointer(g, o)
<1>1. PICK d : d = Data(m, o)
  OBVIOUS
<1>2. Effect(m, g, o) /\ Holds(g, o, Gap(d, pos, sublen))
  BY <1>1, OpenIs DEF Gives
<1>3. Sound(g) /\ MemoryType(g) /\ g.obj[s].type # "dead"
  BY <1>2 DEF Effect, Sound, Others, Holds, Own
<1>4. PICK ptr \in Pointers : ptr = GetDataPointer(g, s)
  BY <1>3, PointerIs
<1>5. PICK b \in Seq(Marks) : b = Bytes(g, ptr, subpos, sublen) /\ Len(b) = sublen
  BY <1>3, BytesType
<1>6. /\ Gives(m, m2, o, SubSeq(d, 1, pos) \o b \o SubSeq(d, pos + 1, Len(d)))
      /\ GetDataPointer(m2, o) = GetDataPointer(g, o)
  BY <1>1, <1>4, <1>5, InsertGives
<1> QED
  BY <1>2, <1>6 DEF Gives, Holds

\* insert(pos, n, c).
LEMMA InsertFillIs ==
  ASSUME NEW m, Sound(m), NEW o \in All, m.obj[o].type # "dead",
         NEW pos \in Nat, NEW n \in Nat, NEW c \in Chars, pos <= GetSize(m, o),
         NEW d, d = Data(m, o), NEW m2, m2 = InsertFill(m, o, pos, n, c)
  PROVE  Gives(m, m2, o, SubSeq(d, 1, pos) \o Fill(c, n) \o SubSeq(d, pos + 1, Len(d)))
<1>1. PICK s \in Seq(Marks) : s = Fill(c, n) /\ Len(s) = n
  BY FillIs
<1>2. PICK g : g = Open(m, o, pos, n)
  OBVIOUS
<1>3. m2 = Write(g, o, pos, s)
  BY <1>1, <1>2 DEF InsertFill
<1> QED
  BY <1>1, <1>2, <1>3, InsertedIs

\* TF_TString_Reserve leaves the text as it is.
LEMMA ReserveIs ==
  ASSUME NEW m, Sound(m), NEW o \in All, m.obj[o].type # "dead", NEW n \in Nat,
         NEW m2, m2 = Reserve(m, o, n)
  PROVE  m2 = m \/ Gives(m, m2, o, Data(m, o))
<1>1. PICK d \in Seq(Marks) : d = Data(m, o) /\ Len(d) = GetSize(m, o) /\ Len(d) \in Nat
  BY DataType DEF Sound
<1>2. PICK k \in Nat : k = (IF n > GetSize(m, o) THEN n ELSE GetSize(m, o)) /\ Len(d) <= k
  BY <1>1
<1>3. CapacityFor(k) \in Nat /\ CapacityFor(k) >= k
  BY CapacityIs
<1>4. PICK cap \in Nat : cap = CapacityFor(k) /\ Len(d) <= cap
  BY <1>1, <1>2, <1>3
<1>5. m2 = m \/ m2 = MoveTo(m, o, d, cap)
  BY <1>1, <1>2, <1>4 DEF Reserve
<1>6. ASSUME m2 = MoveTo(m, o, d, cap) PROVE Gives(m, m2, o, d)
  BY <1>4, <1>6, MoveToIs DEF Gives
<1> QED
  BY <1>1, <1>5, <1>6

\* What is read of a text, wherever it is.
LEMMA DataBytes ==
  ASSUME NEW m, Sound(m), NEW o \in All, m.obj[o].type # "dead",
         NEW t \in Seq(Marks), Data(m, o) = t, NEW i \in Nat, NEW n \in Nat, i + n <= Len(t)
  PROVE  Bytes(m, GetDataPointer(m, o), i, n) = SubSeq(t, i + 1, i + n)
<1>1. Len(t) = GetSize(m, o) /\ Len(t) \in Nat
  BY DataType DEF Sound
<1>2. PICK r \in Seq(Marks) : r = Region(m, GetDataPointer(m, o))
  BY PointerIs, RegionIs DEF Sound
<1>3. t = Piece(r, 0, Len(t)) /\ 0 \in Nat
  BY <1>1, <1>2, BytesAre DEF Data
<1>4. Reads(t, r, 0, Len(t))
  BY <1>1, <1>3, PieceIs
<1>5. PICK b : b = Piece(r, i, n)
  OBVIOUS
<1>6. b \in Seq(Marks) /\ Len(b) = n /\ Reads(b, r, i, n)
  BY <1>5, PieceIs
<1>7. i + n \in Nat /\ i <= i + n /\ (i + n) - i = n /\ i + n <= Len(t)
  BY <1>1
<1>8. PICK v : v = SubSeq(t, i + 1, i + n)
  OBVIOUS
<1>9. v \in Seq(Marks) /\ Len(v) = n /\ Cuts(v, t, i, i + n)
  BY <1>7, <1>8, CutIs, ZenonT(40)
<1>10. \A k \in 1 .. n : b[k] = v[k]
  <2> SUFFICES ASSUME NEW k \in 1 .. n PROVE b[k] = v[k]
    OBVIOUS
  <2>1. v[k] = t[i + k]
    BY <1>7, <1>9 DEF Cuts
  <2>2. b[k] = IF i + k <= Len(r) THEN r[i + k] ELSE Wild
    BY <1>6 DEF Reads
  <2>3. i + k \in 1 .. Len(t) /\ 0 + (i + k) = i + k
    BY <1>1, <1>7
  <2>4. t[i + k] = IF i + k <= Len(r) THEN r[i + k] ELSE Wild
    BY <1>4, <2>3 DEF Reads
  <2> QED
    BY <2>1, <2>2, <2>4
<1>11. b = v
  BY <1>6, <1>9, <1>10, SameText
<1>12. Bytes(m, GetDataPointer(m, o), i, n) = b
  BY <1>2, <1>5, BytesAre
<1> QED
  BY <1>1, <1>8, <1>11, <1>12

\* The same of an array.
LEMMA TextBytes ==
  ASSUME NEW m, MemoryType(m), NEW t \in Texts, NEW n \in Nat, n <= Len(t)
  PROVE  Bytes(m, t, 0, n) = SubSeq(t, 1, n) /\ t \in Seq(Marks) /\ t \in Pointers
<1>1. t \in Seq(Marks)
  BY PointersAssumption, CharsAre
<1>2. PICK r : r = Append(t, Nul)
  OBVIOUS
<1>3. r \in Seq(Marks) /\ Len(r) = Len(t) + 1 /\ \A k \in 1 .. Len(t) : r[k] = t[k]
  BY <1>1, <1>2, CharsAre
<1>4. Region(m, t) = r
  BY <1>2, AllIs DEF Region, MemoryType
<1>5. PICK b : b = Piece(r, 0, n)
  OBVIOUS
<1>6. 0 \in Nat
  OBVIOUS
<1>7. b \in Seq(Marks) /\ Len(b) = n /\ Reads(b, r, 0, n)
  BY <1>3, <1>5, <1>6, PieceIs
<1>8. PICK v : v = SubSeq(t, 1, n)
  OBVIOUS
<1>9. v \in Seq(Marks) /\ Len(v) = n /\ \A k \in 1 .. n : v[k] = t[k]
  BY <1>1, <1>8, StartIs
<1>10. \A k \in 1 .. n : b[k] = v[k]
  <2> SUFFICES ASSUME NEW k \in 1 .. n PROVE b[k] = v[k]
    OBVIOUS
  <2>1. 0 + k <= Len(r) /\ 0 + k = k /\ k \in 1 .. Len(t)
    BY <1>1, <1>3
  <2> QED
    BY <2>1, <1>3, <1>7, <1>9 DEF Reads
<1>11. b = v
  BY <1>7, <1>9, <1>10, SameText
<1>12. Bytes(m, t, 0, n) = b
  BY <1>4, <1>5, BytesAre
<1> QED
  BY <1>1, <1>8, <1>11, <1>12 DEF Pointers

\* What another object holds stays where and as it is.
LEMMA DataStays ==
  ASSUME NEW m, Sound(m), NEW o \in All, NEW m2, Effect(m, m2, o),
         NEW s \in All \ {o}, Away(m, o, GetDataPointer(m, s))
  PROVE  /\ m2.obj[s] = m.obj[s] /\ GetDataPointer(m2, s) = GetDataPointer(m, s)
         /\ Away(m2, o, GetDataPointer(m2, s))
         /\ GetSize(m2, s) = GetSize(m, s) /\ Data(m2, s) = Data(m, s)
<1>1. m2.obj[s] = m.obj[s]
  BY DEF Effect, Others
<1>2. PICK ptr : ptr = GetDataPointer(m, s)
  OBVIOUS
<1>3. GetDataPointer(m2, s) = ptr /\ GetSize(m2, s) = GetSize(m, s)
  BY <1>1, <1>2 DEF GetDataPointer, GetSize
<1>4. Away(m2, o, ptr) /\ \A i, n : Bytes(m2, ptr, i, n) = Bytes(m, ptr, i, n)
  BY <1>2, AwayStays
<1> QED
  BY <1>1, <1>2, <1>3, <1>4 DEF Data

LEMMA HoldsStays ==
  ASSUME NEW m, Sound(m), NEW o \in All, NEW m2, Effect(m, m2, o),
         NEW s \in All \ {o}, NEW t, Holds(m, s, t)
  PROVE  Holds(m2, s, t)
<1>1. Own(m, s) /\ Data(m, s) = t /\ GetSize(m, s) = Len(t)
  BY DEF Holds
<1>2. Away(m, o, GetDataPointer(m, s))
  BY <1>1, OtherIsAway
<1>3. m2.obj[s] = m.obj[s] /\ GetSize(m2, s) = GetSize(m, s) /\ Data(m2, s) = Data(m, s)
  BY <1>2, DataStays
<1> QED
  BY <1>1, <1>3 DEF Holds, Own

\* operator+= and append(): nothing happens if there is nothing to be appended.
Has(m, m2, o, t) == (m2 = m /\ Data(m, o) = t) \/ Gives(m, m2, o, t)

LEMMA AppendStringIs ==
  ASSUME NEW m, Sound(m), NEW o \in All, m.obj[o].type # "dead",
         NEW s \in All, m.obj[s].type # "dead", Away(m, o, GetDataPointer(m, s)),
         NEW m2, m2 = AppendString(m, o, s)
  PROVE  Has(m, m2, o, Data(m, o) \o Data(m, s))
<1>1. PICK d \in Seq(Marks) : d = Data(m, o)
  BY DataType DEF Sound
<1>2. PICK e \in Seq(Marks) : e = Data(m, s) /\ Len(e) = GetSize(m, s) /\ Len(e) \in Nat
  BY DataType DEF Sound
<1>3. PICK ptr : ptr = GetDataPointer(m, s)
  OBVIOUS
<1>4. m2 = AppendN(m, o, ptr, 0, Len(e)) /\ e = Bytes(m, ptr, 0, Len(e)) /\ 0 \in Nat
  BY <1>2, <1>3 DEF AppendString, Data
<1>5. CASE Len(e) = 0
  <2>1. m2 = m
    BY <1>4, <1>5 DEF AppendN
  <2>2. d \o e = d
    BY <1>5
  <2> QED
    BY <1>1, <1>2, <2>1, <2>2 DEF Has
<1>6. CASE Len(e) # 0
  <2>1. Len(e) \in Nat \ {0}
    BY <1>2, <1>6
  <2>2. Gives(m, m2, o, Data(m, o) \o Bytes(m, ptr, 0, Len(e)))
    BY <1>3, <1>4, <2>1, AppendIs
  <2> QED
    BY <1>2, <1>4, <2>2 DEF Has
<1> QED
  BY <1>5, <1>6

\* p needs no buffer.
Plain(p) ==
  /\ p \in Representations /\ p.type # "large"
  /\ p.type = "small" => p.str[p.size + 1] = Nul

Become(m, o, p) == [m EXCEPT !.obj[o] = p]

\* A string that has no buffer becomes another.
LEMMA PutOn ==
  ASSUME NEW m, Sound(m), NEW o \in All, ~IsLarge(m, o), NEW p, Plain(p),
         NEW m2, m2 = Become(m, o, p)
  PROVE  Effect(m, m2, o) /\ m2.obj[o] = p /\ m2 = Dropped(m, o, p)
<1>1. m = [obj |-> m.obj, heap |-> m.heap]
  BY DEF Sound, MemoryType
<1>2. m2 = Put(m, o, p, m.heap)
  BY <1>1, PutObject DEF Put, Become
<1>3. m2 = Dropped(m, o, p)
  BY <1>2 DEF Dropped, FreedHeap
<1>4. p \in Representations /\ p.type # "large" /\ (p.type = "small" => p.str[p.size + 1] = Nul)
  BY DEF Plain
<1>5. Effect(m, m2, o) /\ m2.obj[o] = p
  BY ONLY Sound(m), o \in All, <1>3, <1>4, DroppedIs
<1> QED
  BY <1>3, <1>5

LEMMA EmptyIs == <<>> \in Seq(Marks) /\ Len(<<>>) = 0 /\ Len(<<>>) <= SmallCapacity
BY Sizes16

\* TF_TString_Init of what owns nothing.
LEMMA InitIs ==
  ASSUME NEW m, Sound(m), NEW o \in All, ~IsLarge(m, o), NEW m2, m2 = InitString(m, o)
  PROVE  Gives(m, m2, o, <<>>) /\ ~IsLarge(m2, o) /\ m2.heap = m.heap
         /\ m2.obj = [m.obj EXCEPT ![o] = Small(<<>>)]
<1>1. PICK t \in Seq(Marks) : t = <<>> /\ Len(t) <= SmallCapacity
  BY EmptyIs
<1>2. PICK p : p = Small(t)
  OBVIOUS
<1>3. Plain(p)
  BY <1>1, <1>2, SmallIs DEF Plain
<1>4. m2 = Become(m, o, p)
  BY <1>1, <1>2 DEF InitString, Become
<1>5. m2 = Dropped(m, o, p)
  BY <1>3, <1>4, PutOn
<1>6. Effect(m, m2, o) /\ Holds(m2, o, t) /\ m2.obj[o].type = "small"
  BY <1>1, <1>2, <1>5, DroppedSmall
<1>7. m2.heap = m.heap /\ m2.obj = [m.obj EXCEPT ![o] = p]
  BY <1>5 DEF Dropped, Put, FreedHeap
<1> QED
  BY <1>1, <1>2, <1>6, <1>7 DEF Gives, IsLarge

\* TF_TString_Dealloc: the buffer is given back.
LEMMA DeallocIs ==
  ASSUME NEW m, Sound(m), NEW o \in All, NEW m2, m2 = Dealloc(m, o)
  PROVE  /\ Effect(m, m2, o) /\ ~IsLarge(m2, o)
         /\ m.obj[o].type # "dead" => m2.obj[o].type # "dead"
<1>1. CASE IsLarge(m, o)
  <2>1. PICK t \in Seq(Marks) : t = <<>> /\ Len(t) <= SmallCapacity
    BY EmptyIs
  <2>2. m2 = [Free(m, o) EXCEPT !.obj[o] = Small(t)]
    BY <1>1, <2>1 DEF Dealloc, InitString, IsLarge
  <2>3. m2 = Dropped(m, o, Small(t))
    BY <2>2, DroppedForm
  <2>4. Effect(m, m2, o) /\ m2.obj[o].type = "small"
    BY <2>1, <2>3, DroppedSmall
  <2> QED
    BY <2>4 DEF IsLarge
<1>2. CASE ~IsLarge(m, o)
  BY <1>2, EffectStays DEF Dealloc, IsLarge
<1> QED
  BY <1>1, <1>2

LEMMA DeallocPut ==
  ASSUME NEW m, Sound(m), NEW o \in All, NEW p, Plain(p),
         NEW m2, m2 = Become(Dealloc(m, o), o, p)
  PROVE  Effect(m, m2, o) /\ m2.obj[o] = p
<1>1. PICK d : d = Dealloc(m, o)
  OBVIOUS
<1>2. Effect(m, d, o) /\ ~IsLarge(d, o)
  BY <1>1, DeallocIs
<1>3. Sound(d) /\ m2 = Become(d, o, p)
  BY <1>1, <1>2 DEF Effect
<1>4. Effect(d, m2, o) /\ m2.obj[o] = p
  BY ONLY o \in All, Plain(p), <1>2, <1>3, PutOn
<1> QED
  BY <1>2, <1>4, EffectsAdd

\* The representation of s is carried over to o: it shows what s has shown, if
\* neither the buffer it may have nor the base it is a view of has changed.
LEMMA Carried ==
  ASSUME NEW m, Sound(m), NEW m2, Sound(m2), NEW C, Others(m, m2, C),
         NEW s \in All, NEW o \in All, m2.obj[o] = m.obj[s], m.obj[s].type # "dead",
         IsLarge(m, s) => m2.heap[m.obj[s].ptr] = m.heap[m.obj[s].ptr],
         NEW b, NEW t, Shows(m, s, b, t), b \notin C, b # o
  PROVE  Shows(m2, o, b, t) /\ GetSize(m2, o) = GetSize(m, s)
<1>1. PICK p \in Representations : p = m.obj[s]
  BY DEF Sound, MemoryType
<1>2. DOMAIN m.obj = All /\ DOMAIN m2.obj = All
  BY DEF Sound, MemoryType
<1>3. Region(m2, GetDataPointer(m2, o)) = Region(m, GetDataPointer(m, s))
  <2>1. CASE p.type = "small"
    BY <1>1, <1>2, <2>1, AllIs DEF Region, GetDataPointer
  <2>2. CASE p.type = "large"
    <3>1. p.ptr \in Buffers
      BY <2>2, Fields DEF Larges
    <3> QED
      BY <1>1, <2>2, <3>1 DEF Region, GetDataPointer, IsLarge
  <2>3. CASE p.type = "offset"
    <3>1. p.ptr \in Texts
      BY <2>3, Fields DEF Offset
    <3> QED
      BY <1>1, <1>2, <2>3, <3>1, AllIs DEF Region, GetDataPointer
  <2>4. CASE p.type = "view"
    <3>1. CASE p.ptr \in Texts
      BY <1>1, <1>2, <2>4, <3>1, AllIs DEF Region, GetDataPointer
    <3>2. CASE p.ptr \notin Texts
      <4>1. b \in Objects /\ Own(m, b) /\ p.ptr = Base(m, b)
        BY <1>1, <2>4, <3>2 DEF Shows
      <4>2. b \in All \ C /\ m2.obj[b] = m.obj[b]
            /\ (IsLarge(m, b) => m2.heap[m.obj[b].ptr] = m.heap[m.obj[b].ptr])
        BY <4>1, AllIs DEF Others
      <4>3. CASE m.obj[b].type = "small"
        BY <1>1, <1>2, <2>4, <4>1, <4>2, <4>3, AllIs DEF Region, GetDataPointer, Base
      <4>4. CASE IsLarge(m, b)
        <5>1. p.ptr = m.obj[b].ptr /\ p.ptr \in Buffers
          BY <4>1, <4>2, <4>4, LargePointer DEF Base, IsLarge, Sound
        <5> QED
          BY <1>1, <2>4, <4>2, <4>4, <5>1 DEF Region, GetDataPointer
      <4> QED
        BY <4>1, <4>3, <4>4 DEF Own, IsLarge
    <3> QED
      BY <3>1, <3>2
  <2> QED
    BY <1>1, <2>1, <2>2, <2>3, <2>4, Fields
<1>4. GetSize(m2, o) = GetSize(m, s)
  BY DEF GetSize
<1>5. Data(m2, o) = Data(m, s)
  BY <1>3, <1>4, BytesAre DEF Data
<1>6. m2.obj[o].type = "view" =>
         \/ b = NoObject /\ m2.obj[o].ptr \in Texts
         \/ b \in Objects \ {o} /\ Own(m2, b) /\ m2.obj[o].ptr = Base(m2, b)
  <2> SUFFICES ASSUME m.obj[s].type = "view", ~(b = NoObject /\ m.obj[s].ptr \in Texts)
               PROVE  b \in Objects \ {o} /\ Own(m2, b) /\ m.obj[s].ptr = Base(m2, b)
    OBVIOUS
  <2>1. b \in Objects /\ Own(m, b) /\ m.obj[s].ptr = Base(m, b)
    BY DEF Shows
  <2>2. m2.obj[b] = m.obj[b]
    BY <2>1, AllIs DEF Others
  <2> QED
    BY <2>1, <2>2 DEF Own, Base
<1>7. Data(m2, o) = t
  BY <1>5 DEF Shows
<1> QED
  BY <1>4, <1>6, <1>7 DEF Shows

\* An object that owns its text shows it, whatever it may be a view of.
LEMMA HeldIsShown ==
  ASSUME NEW m, NEW o, NEW t, Holds(m, o, t), NEW b
  PROVE  Shows(m, o, b, t)
BY DEF Holds, Own, Shows

LEMMA ShownIsHeld ==
  ASSUME NEW m, Sound(m), NEW o \in All, Own(m, o), NEW b, NEW t, Shows(m, o, b, t)
  PROVE  Holds(m, o, t)
BY DataType DEF Shows, Holds, Own, Sound

LEMMA OthersAdd ==
  ASSUME NEW m, NEW m2, NEW m3, NEW C, NEW D, Others(m, m2, C), Others(m2, m3, D)
  PROVE  Others(m, m3, C \cup D)
BY DEF Others, IsLarge

\* swap().
Exchanged(f, o, s) == [f EXCEPT ![o] = f[s], ![s] = f[o]]

LEMMA SwapIs ==
  ASSUME NEW m, Sound(m), NEW o \in All, NEW s \in All,
         NEW m2, m2 = Swap(m, o, s)
  PROVE  /\ Sound(m2) /\ Others(m, m2, {o, s}) /\ m2.heap = m.heap
         /\ m2.obj[o] = m.obj[s] /\ m2.obj[s] = m.obj[o]
         /\ m2.obj = Exchanged(m.obj, o, s)
<1>1. m = [obj |-> m.obj, heap |-> m.heap] /\ m.obj \in [All -> Representations]
      /\ m.heap \in [Buffers -> Seq(Marks)]
  BY DEF Sound, MemoryType
<1>2. m2 = [obj |-> [m.obj EXCEPT ![o] = m.obj[s], ![s] = m.obj[o]], heap |-> m.heap]
  <2>1. PICK m1 : m1 = [m EXCEPT !.obj[o] = m.obj[s]]
    OBVIOUS
  <2>2. PICK p : p = m.obj[o]
    OBVIOUS
  <2>3. m1 = [obj |-> [m.obj EXCEPT ![o] = m.obj[s]], heap |-> m.heap]
    BY <1>1, <2>1, PutObject
  <2>4. m2 = [m1 EXCEPT !.obj[s] = p]
    BY <2>1, <2>2 DEF Swap
  <2>5. m1 = [obj |-> m1.obj, heap |-> m1.heap]
    BY <2>3
  <2>6. m2 = [obj |-> [m1.obj EXCEPT ![s] = p], heap |-> m1.heap]
    BY <2>4, <2>5, PutObject
  <2> QED
    BY <2>2, <2>3, <2>6
<1>3. m2.obj = [m.obj EXCEPT ![o] = m.obj[s], ![s] = m.obj[o]] /\ m2.heap = m.heap
  BY <1>2
<1>4. /\ m2.obj \in [All -> Representations] /\ m2.obj[o] = m.obj[s] /\ m2.obj[s] = m.obj[o]
      /\ \A q \in All \ {o, s} : m2.obj[q] = m.obj[q]
  BY <1>1, <1>3
<1>5. MemoryType(m2)
  BY <1>1, <1>2, <1>3, <1>4 DEF MemoryType
<1>6. PICK f : f = [q \in All |-> IF q = o THEN s ELSE IF q = s THEN o ELSE q]
  OBVIOUS
<1>7. \A q \in All : f[q] \in All /\ m2.obj[q] = m.obj[f[q]] /\ f[f[q]] = q
  BY <1>4, <1>6
<1>8. Ends(m2)
  <2>1. /\ \A q \in All : m.obj[q].type = "small" => m.obj[q].str[m.obj[q].size + 1] = Nul
        /\ \A q \in All : m.obj[q].type = "large" =>
             /\ m.obj[q].size <= m.obj[q].cap /\ Len(m.heap[m.obj[q].ptr]) = m.obj[q].cap + 1
             /\ m.heap[m.obj[q].ptr][m.obj[q].size + 1] = Nul
    BY DEF Sound, Ends, IsLarge
  <2>2. \A q \in All : m2.obj[q].type = "small" => m2.obj[q].str[m2.obj[q].size + 1] = Nul
    BY <1>7, <2>1
  <2>3. \A q \in All : m2.obj[q].type = "large" =>
             /\ m2.obj[q].size <= m2.obj[q].cap /\ Len(m2.heap[m2.obj[q].ptr]) = m2.obj[q].cap + 1
             /\ m2.heap[m2.obj[q].ptr][m2.obj[q].size + 1] = Nul
    <3> SUFFICES ASSUME NEW q \in All, m2.obj[q].type = "large"
                 PROVE  /\ m2.obj[q].size <= m2.obj[q].cap
                        /\ Len(m2.heap[m2.obj[q].ptr]) = m2.obj[q].cap + 1
                        /\ m2.heap[m2.obj[q].ptr][m2.obj[q].size + 1] = Nul
      OBVIOUS
    <3>1. PICK r \in All : m2.obj[q] = m.obj[r]
      BY <1>7
    <3> QED
      BY <1>3, <2>1, <3>1
  <2> QED
    BY <2>2, <2>3 DEF Ends, IsLarge
<1>9. Owned(m2)
  <2>1. ASSUME NEW q \in All, NEW r \in All, IsLarge(m2, q), IsLarge(m2, r), m2.obj[q].ptr = m2.obj[r].ptr
        PROVE  q = r
    <3>1. f[q] \in All /\ f[r] \in All /\ f[q] = f[r]
      BY <1>7, <2>1 DEF Sound, Owned, IsLarge
    <3> QED
      BY <1>7, <3>1
  <2>2. ASSUME NEW b \in Buffers, m2.heap[b] # <<>>
        PROVE  \E q \in All : IsLarge(m2, q) /\ m2.obj[q].ptr = b
    <3>1. PICK q \in All : IsLarge(m, q) /\ m.obj[q].ptr = b
      BY <1>3, <2>2 DEF Sound, Owned
    <3>2. f[q] \in All /\ m2.obj[f[q]] = m.obj[q]
      BY <1>7
    <3> QED
      BY <3>1, <3>2 DEF IsLarge
  <2> QED
    BY <2>1, <2>2 DEF Owned
<1>10. Others(m, m2, {o, s})
  BY <1>3, <1>4 DEF Others
<1> QED
  BY <1>3, <1>4, <1>5, <1>8, <1>9, <1>10 DEF Sound, Exchanged

\* assign_as_view() of what o does not own.
LEMMA AssignViewIs ==
  ASSUME NEW m, Sound(m), NEW o \in All, NEW ptr, Away(m, o, ptr), NEW n \in Nat,
         NEW m2, m2 = AssignView(m, o, ptr, n)
  PROVE  /\ Effect(m, m2, o) /\ m2.obj[o].type = "view" /\ m2.obj[o].ptr = ptr
         /\ Data(m2, o) = Bytes(m, ptr, 0, n)
<1>1. ptr \in Pointers
  BY EffectStays, AwayStays
<1>2. PICK p \in Representations : p = View(n, ptr)
  BY <1>1, Made
<1>3. p.type = "view" /\ p.size = n /\ p.ptr = ptr
  BY <1>2 DEF View
<1>4. m2 = Become(Dealloc(m, o), o, p) /\ Plain(p)
  BY <1>2, <1>3 DEF AssignView, Become, Plain
<1>5. Effect(m, m2, o) /\ m2.obj[o] = p
  BY <1>4, DeallocPut
<1>6. GetDataPointer(m2, o) = ptr /\ GetSize(m2, o) = n
  BY <1>3, <1>5 DEF GetDataPointer, GetSize
<1>7. Bytes(m2, ptr, 0, n) = Bytes(m, ptr, 0, n)
  BY <1>5, AwayStays
<1> QED
  BY <1>3, <1>5, <1>6, <1>7 DEF Data

\* A view of b leads to nothing of o, if b is not o.
LEMMA ShownIsAway ==
  ASSUME NEW m, Sound(m), NEW o \in All, NEW s \in All, m.obj[s].type # "dead",
         NEW b, NEW t, Shows(m, s, b, t), b # o, s # o \/ ~Own(m, s)
  PROVE  Away(m, o, GetDataPointer(m, s))
<1>1. CASE Own(m, s)
  BY <1>1, OtherIsAway
<1>2. CASE m.obj[s].type = "offset"
  <2>1. m.obj[s].ptr \in Texts
    BY <1>2, Fields DEF Sound, MemoryType, Offset
  <2> QED
    BY <1>2, <2>1 DEF Away, GetDataPointer
<1>3. CASE m.obj[s].type = "view"
  <2>1. GetDataPointer(m, s) = m.obj[s].ptr
    BY <1>3 DEF GetDataPointer
  <2>2. CASE m.obj[s].ptr \in Texts
    BY <2>1, <2>2 DEF Away
  <2>3. CASE m.obj[s].ptr \notin Texts
    <3>1. b \in All \ {o} /\ Own(m, b) /\ m.obj[s].ptr = Base(m, b)
      BY <1>3, <2>3, AllIs DEF Shows
    <3> QED
      BY <2>1, <3>1, OtherIsAway
  <2> QED
    BY <2>2, <2>3
<1> QED
  BY <1>1, <1>2, <1>3, NoCapacity

\* A view of o shows characters of o, from where they are.
LEMMA ViewOfOwn ==
  ASSUME NEW m, Sound(m), NEW o \in Objects, NEW t, Holds(m, o, t),
         NEW s \in All, m.obj[s].type = "view", NEW u \in Seq(Chars), Shows(m, s, o, u)
  PROVE  GetDataPointer(m, s) = GetDataPointer(m, o) /\ Len(u) <= Len(t)
<1>1. GetDataPointer(m, s) = GetDataPointer(m, o)
  BY MarksDiffer DEF Shows, GetDataPointer, Base
<1>2. PICK r : r = Region(m, GetDataPointer(m, o))
  OBVIOUS
<1>3. o \in All /\ Own(m, o) /\ GetSize(m, o) = Len(t)
  BY AllIs DEF Holds
<1>4. PICK l \in Nat : l = Len(t) /\ r \in Seq(Marks) /\ l + 1 <= Len(r) /\ r[l + 1] = Nul
  <2>1. /\ r \in Seq(Marks) /\ GetSize(m, o) \in Nat /\ GetCapacity(m, o) \in Nat
        /\ Len(r) = GetCapacity(m, o) + 1 /\ GetSize(m, o) <= GetCapacity(m, o)
        /\ r[GetSize(m, o) + 1] = Nul
    BY <1>2, <1>3, OwnIs
  <2> QED
    BY <1>3, <2>1
<1>5. PICK n \in Nat : n = Len(u) /\ n = GetSize(m, s)
  BY DataType DEF Sound, Shows
<1>6. u = Piece(r, 0, n) /\ 0 \in Nat
  BY <1>1, <1>2, <1>5, BytesAre DEF Shows, Data
<1>7. Reads(u, r, 0, n)
  BY <1>4, <1>6, PieceIs
<1>8. ASSUME l < n PROVE FALSE
  <2>1. l + 1 \in 1 .. n /\ 0 + (l + 1) = l + 1
    BY <1>8
  <2>2. u[l + 1] = Nul
    BY <1>4, <1>7, <2>1 DEF Reads
  <2>3. u[l + 1] \in Chars
    <3>1. u \in Seq(Chars) /\ l + 1 \in 1 .. Len(u)
      BY <1>5, <2>1
    <3> QED
      BY ONLY <3>1
  <2> QED
    BY <2>2, <2>3, CharsAssumption
<1> QED
  BY <1>1, <1>4, <1>5, <1>8

\* A text that has the same place when it is cut off has been left there.
LEMMA PlaceIs ==
  ASSUME NEW m, Sound(m), NEW o \in All, Own(m, o), NEW n \in Nat, n < GetSize(m, o),
         NEW g, g = ResizeUninitialized(m, o, n),
         GetDataPointer(g, o) = GetDataPointer(m, o)
  PROVE  Stays(m, o, n)
<1> SUFFICES ASSUME ~Stays(m, o, n) PROVE FALSE
  OBVIOUS
<1>1. PICK d \in Seq(Marks) : d = Data(m, o)
  BY DataType DEF Sound, Own
<1>2. PICK t0 : t0 = Grown(d, n)
  OBVIOUS
<1>3. PICK t \in Seq(Marks) : t = Grown(Data(m, o), n) /\ Len(t) = n
  BY <1>1, <1>2, GrownIs
<1>4. IsLarge(m, o) => GetDataPointer(m, o) \in Buffers /\ Len(m.heap[GetDataPointer(m, o)]) # 0
  <2> SUFFICES ASSUME IsLarge(m, o)
               PROVE  GetDataPointer(m, o) \in Buffers /\ Len(m.heap[GetDataPointer(m, o)]) # 0
    OBVIOUS
  <2>1. m.obj[o].ptr \in Buffers /\ m.obj[o].cap \in Nat
    BY LargePointer DEF Sound
  <2>2. Len(m.heap[m.obj[o].ptr]) = m.obj[o].cap + 1
    BY DEF Sound, Ends
  <2>3. GetDataPointer(m, o) = m.obj[o].ptr
    BY DEF GetDataPointer, IsLarge
  <2> QED
    BY <2>1, <2>2, <2>3
<1>5. CASE n <= SmallCapacity
  <2>1. g = [Free(m, o) EXCEPT !.obj[o] = Small(t)]
    BY <1>3, <1>5 DEF ResizeUninitialized
  <2>2. g = Dropped(m, o, Small(t))
    BY <2>1, DroppedForm
  <2>3. g.obj[o].type = "small"
    BY <1>3, <1>5, <2>2, DroppedSmall
  <2>4. IsLarge(m, o)
    BY <1>5 DEF Stays, Own, IsLarge
  <2> QED
    BY <1>4, <2>3, <2>4, AllIs DEF GetDataPointer
<1>6. CASE ~(n <= SmallCapacity)
  <2>1. PICK cap : cap = NewCapacity(m, o, n)
    OBVIOUS
  <2>2. cap # GetCapacity(m, o)
    BY <1>6, <2>1 DEF Stays
  <2>3. g = MoveTo(m, o, t, cap)
    BY <1>3, <1>6, <2>1, <2>2 DEF ResizeUninitialized
  <2>4. n > SmallCapacity /\ m.obj[o].type # "dead"
    BY <1>6, Sizes16 DEF Own
  <2>5. cap \in Nat /\ n <= cap
    BY <2>1, <2>4, NewCapacityIs
  <2>6. Effect(m, g, o) /\ IsLarge(g, o) /\ m.heap[g.obj[o].ptr] = <<>>
    BY <1>3, <2>3, <2>5, MoveToIs
  <2>7. g.obj[o].ptr \in Buffers /\ GetDataPointer(g, o) = g.obj[o].ptr
    BY <2>6, LargePointer DEF Effect, Sound, GetDataPointer, IsLarge
  <2>8. CASE IsLarge(m, o)
    <3>1. Len(m.heap[g.obj[o].ptr]) = 0
      BY <2>6
    <3> QED
      BY <1>4, <2>7, <2>8, <3>1
  <2>9. CASE ~IsLarge(m, o)
    <3>1. GetDataPointer(m, o) = o
      BY <2>9 DEF Own, IsLarge, GetDataPointer
    <3> QED
      BY <2>7, <3>1, AllIs
  <2> QED
    BY <2>8, <2>9
<1> QED
  BY <1>5, <1>6

\* What is behind the new end of a text that is cut off and left where it is.
LEMMA BehindTheCut ==
  ASSUME NEW m, Sound(m), NEW o \in All, NEW t, Holds(m, o, t),
         NEW i \in Nat, NEW n \in Nat, n < i, i + n <= Len(t), n < Len(t),
         NEW g, g = ResizeUninitialized(m, o, n),
         NEW ptr, ptr = GetDataPointer(m, o), GetDataPointer(g, o) = ptr
  PROVE  Bytes(g, ptr, i, n) = SubSeq(t, i + 1, i + n)
<1>1. Own(m, o) /\ n < GetSize(m, o)
  BY DEF Holds
<1>2. Stays(m, o, n)
  BY <1>1, PlaceIs
<1>3. g = Cut(m, o, n)
  BY <1>1, <1>2 DEF ResizeUninitialized
<1>4. PICK r : r = Region(m, ptr)
  OBVIOUS
<1>5. PICK r2 : r2 = Region(g, ptr)
  OBVIOUS
<1>6. Effect(m, g, o) /\ Len(r2) = Len(r) /\ \A k \in 1 .. Len(r) : k # n + 1 => r2[k] = r[k]
  BY <1>1, <1>3, <1>4, <1>5, CutOffIs
<1>7. r \in Seq(Marks) /\ r2 \in Seq(Marks)
  <2>1. ptr \in Pointers
    BY <1>1, PointerIs DEF Sound, Own
  <2> QED
    BY <1>4, <1>5, <1>6, <2>1, RegionIs DEF Effect, Sound
<1>8. PICK b : b = Piece(r, i, n)
  OBVIOUS
<1>9. PICK b2 : b2 = Piece(r2, i, n)
  OBVIOUS
<1>10. b \in Seq(Marks) /\ Len(b) = n /\ Reads(b, r, i, n)
  BY <1>7, <1>8, PieceIs
<1>11. b2 \in Seq(Marks) /\ Len(b2) = n /\ Reads(b2, r2, i, n)
  BY <1>7, <1>9, PieceIs
<1>12. \A k \in 1 .. n : b2[k] = b[k]
  <2> SUFFICES ASSUME NEW k \in 1 .. n PROVE b2[k] = b[k]
    OBVIOUS
  <2>1. i + k # n + 1 /\ i + k >= 1 /\ i + k \in Nat
    OBVIOUS
  <2>2. i + k <= Len(r) => r2[i + k] = r[i + k]
    BY <1>6, <1>7, <2>1
  <2>3. b[k] = IF i + k <= Len(r) THEN r[i + k] ELSE Wild
    BY <1>10 DEF Reads
  <2>4. b2[k] = IF i + k <= Len(r) THEN r2[i + k] ELSE Wild
    BY <1>6, <1>11 DEF Reads
  <2> QED
    BY <2>2, <2>3, <2>4
<1>13. b2 = b
  BY <1>10, <1>11, <1>12, SameText
<1>14. Bytes(g, ptr, i, n) = b2 /\ Bytes(m, ptr, i, n) = b
  BY <1>4, <1>5, <1>8, <1>9, BytesAre
<1>15. Bytes(m, ptr, i, n) = SubSeq(t, i + 1, i + n)
  BY OwnBytes
<1> QED
  BY <1>13, <1>14, <1>15

\* What TF_TString_Assign and TF_TString_Move do with a string that has no buffer.
Carries(m, m2, o, s) ==
  LET d == Dealloc(m, o)
  IN \/ d.obj[s].type \in {"small", "view"} /\ m2 = Become(d, o, d.obj[s])
     \/ d.obj[s].type = "offset" /\ m2 = AssignView(d, o, d.obj[s].ptr, GetSize(d, s))

LEMMA CarriesIs ==
  ASSUME NEW m, Sound(m), NEW o \in All, NEW s \in All \ {o}, ~IsLarge(m, s), m.obj[s].type # "dead",
         NEW b, NEW t, Shows(m, s, b, t), b # o, m.obj[s].type = "offset" => b = NoObject,
         NEW m2, Carries(m, m2, o, s)
  PROVE  Effect(m, m2, o) /\ Shows(m2, o, b, t) /\ m2.obj[o].type # "dead"
<1>1. PICK d : d = Dealloc(m, o)
  OBVIOUS
<1>2. Effect(m, d, o) /\ ~IsLarge(d, o)
  BY <1>1, DeallocIs
<1>3. PICK p \in Representations : p = m.obj[s]
  BY DEF Sound, MemoryType
<1>4. d.obj[s] = p /\ Sound(d)
  BY <1>2, <1>3 DEF Effect, Others
<1>5. CASE p.type \in {"small", "view"}
  <2>1. m2 = Become(d, o, p)
    BY <1>1, <1>4, <1>5 DEF Carries
  <2>2. Plain(p)
    BY <1>3, <1>5 DEF Plain, Sound, Ends
  <2>3. Effect(d, m2, o) /\ m2.obj[o] = p
    BY ONLY o \in All, <1>2, <1>4, <2>1, <2>2, PutOn
  <2>4. Effect(m, m2, o)
    BY <1>2, <2>3, EffectsAdd
  <2>5. Sound(m2) /\ Others(m, m2, {o}) /\ m2.obj[o] = m.obj[s] /\ b \notin {o}
    BY <1>3, <2>3, <2>4 DEF Effect
  <2>6. Shows(m2, o, b, t)
    BY <2>5, Carried DEF IsLarge
  <2> QED
    BY <1>5, <2>3, <2>4, <2>6
<1>6. CASE p.type = "offset"
  <2>1. m2 = AssignView(d, o, p.ptr, GetSize(d, s))
    BY <1>1, <1>4, <1>6 DEF Carries
  <2>2. p.ptr \in Texts
    BY <1>6, Fields DEF Offset
  <2>3. Away(m, o, GetDataPointer(m, s)) /\ GetDataPointer(m, s) = p.ptr
    BY <1>3, <1>6, <2>2 DEF Away, GetDataPointer
  <2>4. /\ GetDataPointer(d, s) = p.ptr /\ Away(d, o, p.ptr)
        /\ Data(d, s) = Data(m, s)
    BY <1>2, <2>3, DataStays
  <2>5. GetSize(d, s) \in Nat
    BY <1>3, <1>4, DataType DEF Sound
  <2>6. PICK n \in Nat : n = GetSize(d, s)
    BY <2>5
  <2>7. /\ Effect(d, m2, o) /\ m2.obj[o].type = "view" /\ m2.obj[o].ptr = p.ptr
        /\ Data(m2, o) = Bytes(d, p.ptr, 0, n)
    BY <1>4, <2>1, <2>4, <2>6, AssignViewIs
  <2>8. Data(m2, o) = t
    BY <2>4, <2>6, <2>7 DEF Data, Shows
  <2>9. b = NoObject
    BY <1>3, <1>6
  <2>10. Shows(m2, o, b, t)
    BY <2>2, <2>7, <2>8, <2>9 DEF Shows
  <2>11. Effect(m, m2, o)
    BY <1>2, <2>7, EffectsAdd
  <2> QED
    BY <2>7, <2>10, <2>11
<1> QED
  BY <1>3, <1>5, <1>6, Fields DEF IsLarge

\* TF_TString_Assign of another string: o shows what it shows.
LEMMA AssignIs ==
  ASSUME NEW m, Sound(m), NEW o \in All, m.obj[o].type # "dead",
         NEW s \in All \ {o}, m.obj[s].type # "dead",
         NEW b, NEW t, Shows(m, s, b, t), b # o, m.obj[s].type = "offset" => b = NoObject,
         NEW m2, m2 = Assign(m, o, s)
  PROVE  Effect(m, m2, o) /\ Shows(m2, o, b, t) /\ m2.obj[o].type # "dead"
<1>1. PICK d : d = Dealloc(m, o)
  OBVIOUS
<1>2. Effect(m, d, o) /\ ~IsLarge(d, o) /\ d.obj[o].type # "dead"
  BY <1>1, DeallocIs
<1>3. d.obj[s] = m.obj[s] /\ Sound(d)
  BY <1>2 DEF Effect, Others
<1>4. CASE IsLarge(m, s)
  <2>1. m2 = Copy(d, o, d.obj[s].ptr, 0, GetSize(d, s))
    BY <1>1, <1>3, <1>4 DEF Assign, IsLarge
  <2>2. Own(m, s) /\ GetDataPointer(d, s) = d.obj[s].ptr
    BY <1>3, <1>4 DEF Own, IsLarge, GetDataPointer
  <2>3. Away(m, o, GetDataPointer(m, s))
    BY <2>2, OtherIsAway
  <2>4. Away(d, o, GetDataPointer(d, s)) /\ Data(d, s) = Data(m, s)
    BY <1>2, <2>3, DataStays
  <2>5. PICK n \in Nat : n = GetSize(d, s)
    BY <1>3, DataType DEF Sound
  <2>6. PICK ptr : ptr = GetDataPointer(d, s)
    OBVIOUS
  <2>7. m2 = Copy(d, o, ptr, 0, n) /\ Away(d, o, ptr) /\ 0 \in Nat
    BY <2>1, <2>2, <2>4, <2>5, <2>6
  <2>8. Gives(d, m2, o, Bytes(d, ptr, 0, n))
    BY <1>2, <1>3, <2>7, CopyIs
  <2>9. Bytes(d, ptr, 0, n) = t
    BY <2>4, <2>5, <2>6 DEF Data, Shows
  <2>10. Effect(d, m2, o) /\ Holds(m2, o, t)
    BY <2>8, <2>9 DEF Gives
  <2>11. Effect(m, m2, o)
    BY <1>2, <2>10, EffectsAdd
  <2> QED
    BY <2>10, <2>11, HeldIsShown DEF Holds, Own
<1>5. CASE ~IsLarge(m, s)
  <2>1. d.obj[s].type \in {"small", "view", "offset"}
    BY <1>3, <1>5, Fields DEF Sound, MemoryType, IsLarge
  <2>2. Carries(m, m2, o, s)
    BY <1>1, <2>1 DEF Carries, Assign, Become
  <2> QED
    BY <1>5, <2>2, CarriesIs
<1> QED
  BY <1>4, <1>5

\* TF_TString_Move of a string that has no buffer, and of one that has.
LEMMA MoveCarries ==
  ASSUME NEW m, Sound(m), NEW o \in All, NEW s \in All \ {o}, ~IsLarge(m, s), m.obj[s].type # "dead",
         NEW m2, m2 = Move(m, o, s)
  PROVE  Carries(m, m2, o, s)
<1>1. PICK d : d = Dealloc(m, o)
  OBVIOUS
<1>2. Effect(m, d, o)
  BY <1>1, DeallocIs
<1>3. d.obj[s] = m.obj[s]
  BY <1>2 DEF Effect, Others
<1>4. d.obj[s].type \in {"small", "view", "offset"}
  BY <1>3, Fields DEF Sound, MemoryType, IsLarge
<1> QED
  BY <1>1, <1>4 DEF Carries, Move, Become

LEMMA MoveBuffer ==
  ASSUME NEW m, Sound(m), NEW o \in All, NEW s \in All \ {o}, IsLarge(m, s),
         NEW t, Holds(m, s, t), NEW m2, m2 = Move(m, o, s)
  PROVE  /\ Sound(m2) /\ Others(m, m2, {o, s}) /\ ~IsLarge(m2, s)
         /\ Holds(m2, o, t) /\ Holds(m2, s, <<>>)
<1>1. PICK d : d = Dealloc(m, o)
  OBVIOUS
<1>2. Effect(m, d, o) /\ ~IsLarge(d, o)
  BY <1>1, DeallocIs
<1>3. d.obj[s] = m.obj[s] /\ Sound(d) /\ Others(m, d, {o}) /\ Holds(d, s, t)
  BY <1>2, HoldsStays DEF Effect, Others
<1>4. PICK w : w = Swap(d, o, s)
  OBVIOUS
<1>5. /\ Sound(w) /\ Others(d, w, {o, s}) /\ w.heap = d.heap
      /\ w.obj[o] = d.obj[s] /\ w.obj[s] = d.obj[o]
      /\ w.obj = Exchanged(d.obj, o, s)
  <2>1. s \in All
    OBVIOUS
  <2> QED
    BY ONLY o \in All, <1>3, <1>4, <2>1, SwapIs
<1>6. ~IsLarge(w, s)
  BY <1>2, <1>5 DEF IsLarge
<1>7. PICK v : v = InitString(w, s)
  OBVIOUS
<1>8. /\ Gives(w, v, s, <<>>) /\ ~IsLarge(v, s) /\ v.heap = w.heap
      /\ v.obj = [w.obj EXCEPT ![s] = Small(<<>>)]
  BY <1>5, <1>6, <1>7, InitIs
<1>9. m2 = v
  <2>1. PICK c : c = Become(d, o, d.obj[s])
    OBVIOUS
  <2>2. PICK e : e = Small(<<>>)
    OBVIOUS
  <2>3. m2 = Become(c, s, e)
    BY <1>1, <1>3, <2>1, <2>2 DEF Move, InitString, Become, IsLarge
  <2>4. d = [obj |-> d.obj, heap |-> d.heap] /\ DOMAIN d.obj = All
    BY <1>3 DEF Sound, MemoryType
  <2>5. c = [obj |-> [d.obj EXCEPT ![o] = d.obj[s]], heap |-> d.heap]
    BY <2>1, <2>4, PutObject DEF Become
  <2>6. c = [obj |-> c.obj, heap |-> c.heap] /\ c.obj = [d.obj EXCEPT ![o] = d.obj[s]] /\ c.heap = d.heap
    BY <2>5
  <2>7. m2 = [obj |-> [c.obj EXCEPT ![s] = e], heap |-> c.heap]
    BY <2>3, <2>6, PutObject DEF Become
  <2>8. [c.obj EXCEPT ![s] = e] = v.obj
    BY <1>5, <1>8, <2>2, <2>4, <2>6 DEF Exchanged
  <2>9. v = [obj |-> v.obj, heap |-> v.heap]
    BY <1>8 DEF Gives, Effect, Sound, MemoryType
  <2> QED
    BY <1>5, <1>8, <2>6, <2>7, <2>8, <2>9
<1>10. Effect(w, v, s) /\ Holds(v, s, <<>>)
  BY <1>8 DEF Gives
<1>11. Others(m, v, {o, s})
  <2>1. Others(m, w, {o} \cup {o, s})
    BY <1>3, <1>5, OthersAdd
  <2>2. Others(m, v, ({o} \cup {o, s}) \cup {s})
    BY <1>10, <2>1, OthersAdd DEF Effect
  <2>3. ({o} \cup {o, s}) \cup {s} = {o, s}
    OBVIOUS
  <2> QED
    BY <2>2, <2>3
<1>12. Holds(w, o, t)
  <2>3. IsLarge(d, s) /\ d.obj[s].type # "dead"
    BY <1>3 DEF IsLarge
  <2>4. PICK b : b \notin {o, s}
    BY AllIs, BuffersAssumption
  <2>5. Shows(d, s, b, t)
    BY <1>3, HeldIsShown
  <2>6. Shows(w, o, b, t)
    BY <1>3, <1>5, <2>3, <2>4, <2>5, Carried
  <2>7. Own(w, o)
    BY <1>5, <2>3 DEF Own, IsLarge
  <2> QED
    BY <1>5, <2>6, <2>7, ShownIsHeld
<1>13. Holds(v, o, t)
  BY <1>5, <1>10, <1>12, HoldsStays
<1> QED
  BY <1>8, <1>9, <1>10, <1>11, <1>13 DEF Effect

\* o = a + b: the temporary comes and goes.
LEMMA PlusIs ==
  ASSUME NEW m, Sound(m), m.obj[Temporary] = Gone,
         NEW o \in Objects, m.obj[o].type # "dead",
         NEW a \in Objects, m.obj[a].type # "dead", NEW ba, NEW ta, Shows(m, a, ba, ta), ba # Temporary,
         NEW b \in Objects, m.obj[b].type # "dead", NEW bb, NEW tb, Shows(m, b, bb, tb), bb # Temporary,
         NEW m2, m2 = Plus(m, o, a, b)
  PROVE  Gives(m, m2, o, ta \o tb)
<1> DEFINE T == Temporary
<1>0. /\ T \in All /\ o \in All \ {T} /\ a \in All \ {T} /\ b \in All \ {T} /\ T \in All \ {o}
      /\ a \in All /\ b \in All /\ o \in All
  BY AllIs, PointersAssumption
<1>1. ~IsLarge(m, T) /\ Gone.type = "dead"
  BY Made DEF IsLarge
<1> HIDE DEF T
<1>2. /\ Away(m, T, GetDataPointer(m, a)) /\ Data(m, a) = ta
      /\ Away(m, T, GetDataPointer(m, b)) /\ Data(m, b) = tb
  BY <1>0, ShownIsAway DEF Shows, T
<1>3. PICK m0 : m0 = InitString(m, T)
  OBVIOUS
<1>4. Effect(m, m0, T) /\ Holds(m0, T, <<>>)
  BY <1>0, <1>1, <1>3, InitIs DEF Gives
<1>5. PICK n \in Nat : n = GetSize(m, a) + GetSize(m, b)
  <2>1. GetSize(m, a) \in Nat /\ GetSize(m, b) \in Nat
    BY <1>0, DataType DEF Sound
  <2> QED
    BY <2>1
<1>6. PICK m1 : m1 = Reserve(m0, T, n)
  OBVIOUS
<1>7. Sound(m0) /\ m0.obj[T].type # "dead" /\ Data(m0, T) = <<>>
  BY <1>4 DEF Effect, Holds, Own
<1>8. m1 = m0 \/ Gives(m0, m1, T, <<>>)
  BY <1>0, <1>6, <1>7, ReserveIs
<1>9. Effect(m, m1, T) /\ Holds(m1, T, <<>>)
  <2>1. CASE m1 = m0
    BY <1>4, <2>1
  <2>2. CASE Gives(m0, m1, T, <<>>)
    BY <1>4, <2>2, EffectsAdd DEF Gives
  <2> QED
    BY <1>8, <2>1, <2>2
<1>10. PICK m3 : m3 = AppendString(m1, T, a)
  OBVIOUS
<1>11. Effect(m, m3, T) /\ Holds(m3, T, ta)
  <2>1. /\ m1.obj[a] = m.obj[a] /\ Away(m1, T, GetDataPointer(m1, a)) /\ Data(m1, a) = ta
    BY <1>0, <1>2, <1>9, DataStays
  <2>2. Sound(m1) /\ m1.obj[T].type # "dead" /\ Data(m1, T) = <<>> /\ m1.obj[a].type # "dead"
    BY <1>9, <2>1 DEF Effect, Holds, Own
  <2>3. Has(m1, m3, T, <<>> \o ta)
    <3>1. Has(m1, m3, T, Data(m1, T) \o Data(m1, a))
      BY <1>0, <1>10, <2>1, <2>2, AppendStringIs
    <3> QED
      BY <2>1, <2>2, <3>1
  <2>4. <<>> \o ta = ta
    <3>1. ta \in Seq(Marks)
      BY <1>0, <1>2, DataType DEF Sound
    <3> QED
      BY <3>1
  <2>5. CASE m3 = m1 /\ Data(m1, T) = <<>> \o ta
    BY <1>9, <2>2, <2>4, <2>5
  <2>6. CASE Gives(m1, m3, T, <<>> \o ta)
    BY <1>9, <2>4, <2>6, EffectsAdd DEF Gives
  <2> QED
    BY <2>3, <2>5, <2>6 DEF Has
<1>12. PICK m4 : m4 = AppendString(m3, T, b)
  OBVIOUS
<1>13. Effect(m, m4, T) /\ Holds(m4, T, ta \o tb)
  <2>1. /\ m3.obj[b] = m.obj[b] /\ Away(m3, T, GetDataPointer(m3, b)) /\ Data(m3, b) = tb
    BY <1>0, <1>2, <1>11, DataStays
  <2>2. Sound(m3) /\ m3.obj[T].type # "dead" /\ Data(m3, T) = ta /\ m3.obj[b].type # "dead"
    BY <1>11, <2>1 DEF Effect, Holds, Own
  <2>3. Has(m3, m4, T, ta \o tb)
    <3>1. Has(m3, m4, T, Data(m3, T) \o Data(m3, b))
      BY <1>0, <1>12, <2>1, <2>2, AppendStringIs
    <3> QED
      BY <2>1, <2>2, <3>1
  <2>4. CASE m4 = m3 /\ Data(m3, T) = ta \o tb
    BY <1>11, <2>2, <2>4
  <2>5. CASE Gives(m3, m4, T, ta \o tb)
    BY <1>11, <2>5, EffectsAdd DEF Gives
  <2> QED
    BY <2>3, <2>4, <2>5 DEF Has
<1>14. PICK m5 : m5 = Move(m4, o, T)
  OBVIOUS
<1>15. Sound(m4) /\ Others(m, m4, {T}) /\ m4.obj[T].type # "dead"
  BY <1>13 DEF Effect, Holds, Own
<1>16. Sound(m5) /\ Others(m4, m5, {o, T}) /\ Holds(m5, o, ta \o tb)
  <2>1. CASE IsLarge(m4, T)
    BY <1>0, <1>13, <1>14, <1>15, <2>1, MoveBuffer
  <2>2. CASE ~IsLarge(m4, T)
    <3>1. Carries(m4, m5, o, T)
      BY <1>0, <1>14, <1>15, <2>2, MoveCarries
    <3>2. m4.obj[T].type = "small"
      BY <1>13, <2>2 DEF Holds, Own, IsLarge
    <3>3. PICK c : c # o
      BY <1>0
    <3>4. Shows(m4, T, c, ta \o tb) /\ ~(m4.obj[T].type = "offset")
      BY <1>13, <3>2, HeldIsShown
    <3>5. Effect(m4, m5, o) /\ Shows(m5, o, c, ta \o tb) /\ m5.obj[o].type # "dead"
      BY <1>0, <1>15, <2>2, <3>1, <3>3, <3>4, CarriesIs
    <3>6. m5.obj[o].type = "small"
      <4>1. PICK d : d = Dealloc(m4, o)
        OBVIOUS
      <4>2. Effect(m4, d, o) /\ ~IsLarge(d, o)
        BY <1>0, <1>15, <4>1, DeallocIs
      <4>3. d.obj[T] = m4.obj[T]
        BY <1>0, <4>2 DEF Effect, Others
      <4>4. m5 = Become(d, o, d.obj[T])
        BY <3>1, <3>2, <4>1, <4>3 DEF Carries
      <4>5. DOMAIN d.obj = All
        BY <4>2 DEF Effect, Sound, MemoryType
      <4> QED
        BY <1>0, <3>2, <4>3, <4>4, <4>5 DEF Become
    <3>7. Sound(m5) /\ Others(m4, m5, {o})
      BY <3>5 DEF Effect
    <3>8. Holds(m5, o, ta \o tb)
      BY <1>0, <3>5, <3>6, <3>7, ShownIsHeld DEF Own
    <3> QED
      BY <3>7, <3>8 DEF Others
  <2> QED
    BY <2>1, <2>2
<1>17. Plain(Gone)
  BY Made DEF Plain
<1>18. m2 = Become(Dealloc(m5, T), T, Gone)
  BY <1>3, <1>5, <1>6, <1>10, <1>12, <1>14 DEF Plus, Become, T
<1>19. Effect(m5, m2, T) /\ m2.obj[T] = Gone
  BY <1>0, <1>16, <1>17, <1>18, DeallocPut
<1>20. Holds(m2, o, ta \o tb)
  BY <1>0, <1>16, <1>19, HoldsStays
<1>21. Others(m, m2, {o})
  <2>1. Others(m, m5, {T} \cup {o, T})
    BY <1>15, <1>16, OthersAdd
  <2>2. Others(m, m2, ({T} \cup {o, T}) \cup {T})
    BY <1>19, <2>1, OthersAdd DEF Effect
  <2> QED
    BY <1>1, <1>19, <2>2 DEF Others, T
<1> QED
  BY <1>19, <1>20, <1>21 DEF Gives, Effect

-----------------------------------------------------------------------------
(* tstring: the methods keep the invariant.                                 *)

\* A call on the objects of C leaves the others what they know, and what the
\* objects of C show is in texts and bases.
Settled(m, o, b, t) ==
  /\ t = Dead <=> m.obj[o].type = "dead"
  /\ t \notin {Dead, Lost} => Shows(m, o, b, t)

Agree(f, g, C) == \A v \in Objects \ C : g[v] = f[v]

TextsAfter(bases, C, texts) ==
  [v \in Objects |-> IF v \in {w \in Objects \ C : bases[w] \in C} THEN Lost ELSE texts[v]]

BasesAfter(m, bases, C, newBases) ==
  [v \in Objects |->
     IF v \notin {w \in Objects \ C : bases[w] \in C} /\ m.obj[v].type = "view" THEN newBases[v] ELSE NoObject]

LEMMA CallIs ==
  ASSUME NEW m, NEW texts, NEW bases, Strings(m, texts, bases), NEW C \in SUBSET Objects,
         NEW m2, Sound(m2), Others(m, m2, C),
         NEW texts2 \in TheTexts, Agree(texts, texts2, C),
         NEW bases2 \in TheBases, Agree(bases, bases2, C),
         \A v \in C : Settled(m2, v, bases2[v], texts2[v]),
         NEW texts3, texts3 = TextsAfter(bases, C, texts2),
         NEW bases3, bases3 = BasesAfter(m2, bases, C, bases2)
  PROVE  Strings(m2, texts3, bases3)
<1>0. /\ Sound(m) /\ m.obj[Temporary] = Gone
      /\ texts \in TheTexts /\ bases \in TheBases /\ Known(m, texts, bases)
  BY DEF Strings
<1>1. Temporary \in All \ C
  BY AllIs, PointersAssumption
<1>2. m2.obj[Temporary] = Gone
  BY <1>0, <1>1 DEF Others
<1>3. texts3 \in TheTexts /\ bases3 \in TheBases
  BY DEF TheTexts, TheBases, TextsAfter, BasesAfter
<1>4. ASSUME NEW v \in Objects
      PROVE  /\ texts3[v] = Dead <=> m2.obj[v].type = "dead"
             /\ bases3[v] # NoObject => m2.obj[v].type = "view"
             /\ texts3[v] \notin {Dead, Lost} => Shows(m2, v, bases3[v], texts3[v])
  <2>0. bases3[v] # NoObject => m2.obj[v].type = "view"
    BY <1>4 DEF BasesAfter
  <2>1. CASE v \in C
    <3>1. texts3[v] = texts2[v] /\ bases3[v] = IF m2.obj[v].type = "view" THEN bases2[v] ELSE NoObject
      BY <1>4, <2>1 DEF TextsAfter, BasesAfter
    <3>2. Settled(m2, v, bases2[v], texts2[v])
      BY <2>1
    <3> QED
      BY <2>0, <3>1, <3>2 DEF Settled, Shows
  <2>2. CASE v \in Objects \ C /\ bases[v] \in C
    <3>1. texts3[v] = Lost
      BY <2>2 DEF TextsAfter
    <3>2. m.obj[v].type = "view"
      BY <1>0, <2>2, MarksDiffer DEF Known
    <3>3. m2.obj[v] = m.obj[v]
      BY <2>2, AllIs DEF Others
    <3> QED
      BY <2>0, <3>1, <3>2, <3>3, MarksDiffer
  <2>3. CASE v \in Objects \ C /\ bases[v] \notin C
    <3>0. v \in All \ C /\ v \in All
      BY <2>3, AllIs
    <3>1. m2.obj[v] = m.obj[v] /\ (IsLarge(m, v) => m2.heap[m.obj[v].ptr] = m.heap[m.obj[v].ptr])
      BY <3>0 DEF Others
    <3>2. texts3[v] = texts[v]
      BY <2>3 DEF TextsAfter, Agree
    <3>3. bases3[v] = IF m2.obj[v].type = "view" THEN bases[v] ELSE NoObject
      BY <2>3 DEF BasesAfter, Agree
    <3>4. /\ texts[v] = Dead <=> m.obj[v].type = "dead"
          /\ bases[v] # NoObject => m.obj[v].type = "view"
          /\ texts[v] \notin {Dead, Lost} => Shows(m, v, bases[v], texts[v])
      BY <1>0 DEF Known
    <3>5. bases3[v] = bases[v]
      BY <3>1, <3>3, <3>4
    <3>6. ASSUME texts[v] \notin {Dead, Lost} PROVE Shows(m2, v, bases[v], texts[v])
      <4>1. Shows(m, v, bases[v], texts[v]) /\ m.obj[v].type # "dead"
        BY <3>4, <3>6
      <4>2. PICK b : b = bases[v]
        OBVIOUS
      <4>3. b # v
        BY <3>4, <4>1, <4>2, MarksDiffer DEF Shows
      <4>4. Shows(m, v, b, texts[v]) /\ b \notin C /\ Sound(m)
        BY <1>0, <2>3, <4>1, <4>2
      <4>5. Shows(m2, v, b, texts[v])
        BY <3>0, <3>1, <4>1, <4>3, <4>4, Carried
      <4> QED
        BY <4>2, <4>5
    <3> QED
      BY <2>0, <3>1, <3>2, <3>4, <3>5, <3>6
  <2> QED
    BY <1>4, <2>1, <2>2, <2>3
<1>5. Known(m2, texts3, bases3)
  BY <1>4 DEF Known
<1> QED
  BY <1>2, <1>3, <1>5 DEF Strings

\* A call that changes one object.
LEMMA ReplacesKeeps ==
  ASSUME StringsInv, NEW o \in Objects, NEW m2, Effect(memory, m2, o),
         NEW b \in Objects \cup {NoObject}, NEW t \in Seq(Chars) \cup {Dead, Lost},
         Settled(m2, o, b, t), Replaces(o, m2, b, t)
  PROVE  StringsInv'
<1>1. PICK m : m = memory
  OBVIOUS
<1>2. Strings(m, text, from) /\ Sound(m2) /\ Others(m, m2, {o})
  BY <1>1 DEF StringsInv, Effect
<1>3. PICK tx \in TheTexts : tx = text
  BY <1>2 DEF Strings
<1>4. PICK fr \in TheBases : fr = from
  BY <1>2 DEF Strings
<1>5. PICK tx2 : tx2 = [tx EXCEPT ![o] = t]
  OBVIOUS
<1>6. PICK fr2 : fr2 = [fr EXCEPT ![o] = b]
  OBVIOUS
<1>7. tx2 \in TheTexts /\ Agree(tx, tx2, {o}) /\ tx2[o] = t
  BY <1>3, <1>5 DEF TheTexts, Agree
<1>8. fr2 \in TheBases /\ Agree(fr, fr2, {o}) /\ fr2[o] = b
  BY <1>4, <1>6 DEF TheBases, Agree
<1>9. PICK C \in SUBSET Objects : C = {o}
  OBVIOUS
<1>10. \A v \in C : Settled(m2, v, fr2[v], tx2[v])
  BY <1>7, <1>8, <1>9
<1>11. PICK tx3 : tx3 = TextsAfter(fr, C, tx2)
  OBVIOUS
<1>12. PICK fr3 : fr3 = BasesAfter(m2, fr, C, fr2)
  OBVIOUS
<1>13. Strings(m, tx, fr) /\ Others(m, m2, C) /\ Agree(tx, tx2, C) /\ Agree(fr, fr2, C)
  BY <1>2, <1>3, <1>4, <1>7, <1>8, <1>9
<1>14. Strings(m2, tx3, fr3)
  BY ONLY C \in SUBSET Objects, <1>2, <1>7, <1>8, <1>10, <1>11, <1>12, <1>13, CallIs
<1>15. Call(m2, {o}, fr2, tx2)
  BY <1>3, <1>4, <1>5, <1>6 DEF Replaces
<1>16. text' = tx3 /\ from' = fr3
  BY <1>4, <1>9, <1>11, <1>12, <1>15 DEF Call, TextsAfter, BasesAfter
<1>17. memory' = m2
  BY <1>2, <1>15 DEF Call, memory, Sound, MemoryType
<1> QED
  BY <1>14, <1>16, <1>17 DEF StringsInv

LEMMA ExistsIs ==
  ASSUME StringsInv, NEW o \in Objects, NEW m, m = memory
  PROVE  /\ Sound(m) /\ MemoryType(m) /\ m.obj[o] = obj[o] /\ o \in All /\ from[o] \in Objects \cup {NoObject}
         /\ text[o] = Dead <=> ~Exists(o)
         /\ Exists(o) <=> m.obj[o].type # "dead"
         /\ m.obj[Temporary] = Gone
<1>1. Strings(m, text, from)
  BY DEF StringsInv
<1>2. m.obj = obj
  BY DEF memory
<1> QED
  BY <1>1, <1>2, AllIs DEF Strings, Known, Exists, TheBases, Sound

LEMMA ReadableIs ==
  ASSUME StringsInv, NEW o \in Objects, Readable(o), NEW m, m = memory,
         NEW t, t = text[o], NEW b, b = from[o]
  PROVE  /\ Sound(m) /\ o \in All /\ m.obj[o].type # "dead" /\ Exists(o)
         /\ Shows(m, o, b, t) /\ Data(m, o) = t /\ t \in Seq(Chars) /\ t \in Seq(Marks)
         /\ Len(t) \in Nat /\ GetSize(m, o) = Len(t)
         /\ b \in Objects \cup {NoObject} /\ b # o /\ b # Temporary
         /\ m.obj[o].type # "view" => b = NoObject
<1>1. Strings(m, text, from)
  BY DEF StringsInv
<1>2. m.obj = obj
  BY DEF memory
<1>3. /\ Sound(m) /\ o \in All /\ Shows(m, o, b, t) /\ m.obj[o].type # "dead"
      /\ b \in Objects \cup {NoObject} /\ (m.obj[o].type # "view" => b = NoObject)
  BY <1>1, AllIs DEF Strings, Known, Readable, TheBases
<1>4. t \in Seq(Chars)
  BY <1>1 DEF Strings, Readable, TheTexts
<1>5. Data(m, o) = t
  BY <1>3 DEF Shows
<1>6. Len(Data(m, o)) = GetSize(m, o) /\ GetSize(m, o) \in Nat
  BY <1>3, DataType DEF Sound
<1>7. b # o /\ b # Temporary
  BY <1>3, MarksDiffer, PointersAssumption DEF Shows
<1> QED
  BY <1>2, <1>3, <1>4, <1>5, <1>6, <1>7, MarksDiffer DEF Exists

LEMMA ChangesIs ==
  ASSUME StringsInv, NEW o \in Objects, NEW m2, NEW t, Changes(o, m2, t)
  PROVE  Replaces(o, m2, from[o], t)
<1>1. from \in TheBases
  BY DEF StringsInv, Strings
<1>2. [from EXCEPT ![o] = from[o]] = from
  BY <1>1 DEF TheBases
<1> QED
  BY <1>2 DEF Changes, Replaces

\* o owns the text t after the call.
LEMMA GivesKeeps ==
  ASSUME StringsInv, NEW o \in Objects, NEW m, m = memory, NEW m2, NEW t \in Seq(Chars),
         Gives(m, m2, o, t), Changes(o, m2, t)
  PROVE  StringsInv'
<1>1. PICK b \in Objects \cup {NoObject} : b = from[o]
  BY ExistsIs
<1>2. Replaces(o, m2, b, t)
  BY <1>1, ChangesIs
<1>3. Effect(memory, m2, o) /\ Holds(m2, o, t)
  BY DEF Gives
<1>4. Settled(m2, o, b, t)
  BY <1>3, MarksDiffer, HeldIsShown DEF Settled, Holds, Own
<1>5. t \in Seq(Chars) \cup {Dead, Lost}
  OBVIOUS
<1> QED
  BY ONLY StringsInv, o \in Objects, b \in Objects \cup {NoObject}, <1>2, <1>3, <1>4, <1>5, ReplacesKeeps

LEMMA LostKeeps ==
  ASSUME StringsInv, NEW o \in Objects, NEW m, m = memory, NEW m2,
         Effect(m, m2, o), Own(m2, o), Changes(o, m2, Lost)
  PROVE  StringsInv'
<1>1. PICK b \in Objects \cup {NoObject} : b = from[o]
  BY ExistsIs
<1>2. PICK t \in Seq(Chars) \cup {Dead, Lost} : t = Lost
  OBVIOUS
<1>3. Replaces(o, m2, b, t)
  BY <1>1, <1>2, ChangesIs
<1>4. Settled(m2, o, b, t)
  BY <1>2, MarksDiffer DEF Settled, Own
<1>5. Effect(memory, m2, o)
  OBVIOUS
<1> QED
  BY ONLY StringsInv, o \in Objects, b \in Objects \cup {NoObject}, t \in Seq(Chars) \cup {Dead, Lost},
          <1>3, <1>4, <1>5, ReplacesKeeps

\* The same, or nothing has happened.
LEMMA HasKeeps ==
  ASSUME StringsInv, NEW o \in Objects, Readable(o), NEW m, m = memory, NEW m2, NEW t \in Seq(Chars),
         Has(m, m2, o, t), Changes(o, m2, t)
  PROVE  StringsInv'
<1>1. CASE m2 = m /\ Data(m, o) = t
  <2>1. PICK b \in Objects \cup {NoObject} : b = from[o]
    BY ExistsIs
  <2>2. PICK u : u = text[o]
    OBVIOUS
  <2>3. Sound(m) /\ Shows(m, o, b, u) /\ Data(m, o) = u /\ m.obj[o].type # "dead"
    BY <2>1, <2>2, ReadableIs
  <2>4. u = t
    BY <1>1, <2>3
  <2>5. Replaces(o, m2, b, t)
    BY <2>1, ChangesIs
  <2>6. Effect(memory, m2, o)
    BY <1>1, <2>3, EffectStays
  <2>7. Settled(m2, o, b, t)
    BY <1>1, <2>3, <2>4, MarksDiffer DEF Settled
  <2>8. t \in Seq(Chars) \cup {Dead, Lost}
    OBVIOUS
  <2> QED
    BY ONLY StringsInv, o \in Objects, b \in Objects \cup {NoObject}, <2>5, <2>6, <2>7, <2>8, ReplacesKeeps
<1>2. CASE Gives(m, m2, o, t)
  BY <1>2, GivesKeeps
<1> QED
  BY <1>1, <1>2 DEF Has

\* Texts of characters.
LEMMA TextsOfChars ==
  /\ \A s, t \in Seq(Chars) : s \o t \in Seq(Chars)
  /\ \A t \in Seq(Chars), n \in Nat : n <= Len(t) => SubSeq(t, 1, n) \in Seq(Chars)
  /\ \A t \in Seq(Chars), i, j \in Nat : j <= Len(t) => SubSeq(t, i + 1, j) \in Seq(Chars)
  /\ <<>> \in Seq(Chars) /\ \A c \in Chars : <<c>> \in Seq(Chars)
<1>1. \A s, t \in Seq(Chars) : s \o t \in Seq(Chars)
  OBVIOUS
<1>2. ASSUME NEW t \in Seq(Chars), NEW i \in Nat, NEW j \in Nat, j <= Len(t)
      PROVE  SubSeq(t, i + 1, j) \in Seq(Chars)
  <2>1. i + 1 \in Int /\ j \in Int /\ \A k \in i + 1 .. j : t[k] \in Chars
    <3>1. \A k \in i + 1 .. j : k \in 1 .. Len(t)
      BY <1>2
    <3> QED
      BY <1>2, <3>1
  <2> QED
    BY <2>1, SubSeqProperties
<1>3. ASSUME NEW t \in Seq(Chars), NEW n \in Nat, n <= Len(t)
      PROVE  SubSeq(t, 1, n) \in Seq(Chars)
  <2>1. 0 \in Nat /\ 0 + 1 = 1
    OBVIOUS
  <2> QED
    BY <1>2, <1>3, <2>1
<1> QED
  BY <1>1, <1>2, <1>3

\* A constructor begins with an empty string.
LEMMA ConstructedIs ==
  ASSUME StringsInv, NEW o \in Objects, NEW m, m = memory, NEW g, g = Constructed(o)
  PROVE  Effect(m, g, o) /\ g.obj[o].type # "dead" /\ (Exists(o) => g = m)
<1>1. Sound(m) /\ o \in All /\ (Exists(o) <=> m.obj[o].type # "dead")
  BY ExistsIs
<1>2. CASE Exists(o)
  BY <1>1, <1>2, EffectStays DEF Constructed
<1>3. CASE ~Exists(o)
  <2>1. g = InitString(m, o) /\ ~IsLarge(m, o)
    BY <1>1, <1>3 DEF Constructed, IsLarge
  <2>2. Gives(m, g, o, <<>>)
    BY <1>1, <2>1, InitIs
  <2> QED
    BY <1>3, <2>2 DEF Gives, Holds, Own
<1> QED
  BY <1>2, <1>3

LEMMA AssignTextKeeps ==
  ASSUME StringsInv, NEW o \in Objects, NEW t \in Texts, AssignText(o, t)
  PROVE  StringsInv'
<1>1. PICK m : m = memory
  OBVIOUS
<1>2. PICK g : g = Constructed(o)
  OBVIOUS
<1>3. Sound(m) /\ o \in All /\ Effect(m, g, o) /\ g.obj[o].type # "dead"
  BY <1>1, <1>2, ExistsIs, ConstructedIs
<1>4. t \in Seq(Chars) /\ t \in Seq(Marks)
  BY PointersAssumption, CharsAre
<1>5. PICK n \in Nat : n = Len(t)
  BY <1>4
<1>6. PICK m2 : m2 = Copy(g, o, t, 0, n) /\ 0 \in Nat
  OBVIOUS
<1>7. Sound(g) /\ MemoryType(g) /\ Away(g, o, t) /\ n <= Len(t)
  BY <1>3, <1>5 DEF Effect, Sound, Away
<1>8. Bytes(g, t, 0, n) = SubSeq(t, 1, n)
  BY <1>7, TextBytes
<1>9. Bytes(g, t, 0, n) = t
  BY <1>4, <1>5, <1>8, CutAll
<1>10. Gives(g, m2, o, Bytes(g, t, 0, n))
  BY <1>3, <1>6, <1>7, CopyIs
<1>11. Gives(m, m2, o, t)
  BY <1>3, <1>9, <1>10, EffectsAdd DEF Gives
<1>12. Changes(o, m2, t)
  BY <1>2, <1>5, <1>6 DEF AssignText
<1> QED
  BY ONLY StringsInv, o \in Objects, <1>1, <1>4, <1>11, <1>12, GivesKeeps

\* An object that owns its text, and whether that has moved.
LEMMA OwnTextIs ==
  ASSUME StringsInv, NEW o \in Objects, Readable(o), NEW m, m = memory, Own(m, o), NEW t, t = text[o]
  PROVE  Holds(m, o, t)
<1>1. PICK b : b = from[o]
  OBVIOUS
<1>2. Sound(m) /\ o \in All /\ Shows(m, o, b, t)
  BY <1>1, ReadableIs
<1> QED
  BY <1>2, ShownIsHeld

LEMMA MovesIs ==
  ASSUME NEW o, NEW m, m = memory, NEW m2
  PROVE  /\ Owns(o) <=> Own(m, o)
         /\ Moves(o, m2) <=> Own(m, o) /\ GetDataPointer(m2, o) # GetDataPointer(m, o)
BY DEF Owns, Own, Moves, memory

LEMMA NoCharacters ==
  ASSUME NEW t \in Seq(Chars), NEW i \in Nat
  PROVE  SubSeq(t, i + 1, i + 0) = <<>> /\ t \o <<>> = t
<1>1. i + 1 \in Int /\ i + 0 \in Int /\ i + 1 > i + 0
  OBVIOUS
<1> QED
  BY <1>1, SubSeqEmpty

\* What o shows is away from it if it is not its own.
LEMMA NotOwnIsAway ==
  ASSUME StringsInv, NEW o \in Objects, Readable(o), NEW m, m = memory, ~Own(m, o)
  PROVE  Away(m, o, GetDataPointer(m, o))
<1>1. PICK b : b = from[o]
  OBVIOUS
<1>2. PICK t : t = text[o]
  OBVIOUS
<1>3. Sound(m) /\ o \in All /\ m.obj[o].type # "dead" /\ Shows(m, o, b, t) /\ b # o
  BY <1>1, <1>2, ReadableIs
<1> QED
  BY <1>3, ShownIsAway

ReadsOf(m, o, t) ==
  \A i, n \in Nat :
    i + n <= Len(t) => Bytes(m, GetDataPointer(m, o), i, n) = SubSeq(t, i + 1, i + n)

LEMMA ReadsAre ==
  \A m : \A o \in All, t \in Seq(Marks) :
    Sound(m) /\ m.obj[o].type # "dead" /\ Data(m, o) = t => ReadsOf(m, o, t)
BY DataBytes DEF ReadsOf

LEMMA CharsPartIs ==
  ASSUME NEW t \in Seq(Chars), NEW i \in Nat, NEW n \in Nat, i + n <= Len(t)
  PROVE  SubSeq(t, i + 1, i + n) \in Seq(Chars)
<1>1. PICK j \in Nat : j = i + n
  OBVIOUS
<1>2. SubSeq(t, i + 1, j) \in Seq(Chars)
  BY <1>1, TextsOfChars
<1> QED
  BY <1>1, <1>2

LEMMA AssignInsideKeeps ==
  ASSUME StringsInv, NEW o \in Objects, NEW i \in Nat, NEW n \in Nat, AssignInside(o, i, n)
  PROVE  StringsInv'
<1>1. PICK m : m = memory
  OBVIOUS
<1>2. PICK t : t = text[o]
  OBVIOUS
<1>3. /\ Sound(m) /\ o \in All /\ m.obj[o].type # "dead" /\ Data(m, o) = t
      /\ t \in Seq(Chars) /\ t \in Seq(Marks) /\ Len(t) \in Nat /\ i + n <= Len(t) /\ Readable(o)
  BY <1>1, <1>2, ReadableIs DEF AssignInside
<1>4. PICK ptr \in Pointers : ptr = GetDataPointer(m, o)
  BY <1>3, PointerIs DEF Sound
<1>5. PICK m2 : m2 = Copy(m, o, ptr, i, n)
  OBVIOUS
<1>6. PICK e \in Seq(Chars) : e = SubSeq(t, i + 1, i + n)
  BY <1>3, CharsPartIs
<1>7. Changes(o, m2, IF n > 0 /\ (Moves(o, m2) \/ (Owns(o) /\ i \in 1 .. n)) THEN Lost ELSE e)
  BY <1>1, <1>2, <1>4, <1>5, <1>6 DEF AssignInside
<1>8. /\ Owns(o) <=> Own(m, o)
      /\ Moves(o, m2) <=> Own(m, o) /\ GetDataPointer(m2, o) # ptr
  BY <1>1, <1>4, MovesIs
<1>9. PICK g : g = ResizeUninitialized(m, o, n)
  OBVIOUS
<1>10. Effect(m, g, o)
  BY <1>3, <1>9, ResizeIs
<1>11. PICK s \in Seq(Marks) : s = Bytes(g, ptr, i, n) /\ Len(s) = n
  BY <1>10, BytesType DEF Effect, Sound
<1>12. Gives(m, m2, o, s) /\ GetDataPointer(m2, o) = GetDataPointer(g, o)
  BY <1>3, <1>5, <1>9, <1>11, CopyGives
<1>13. ASSUME s = e, Changes(o, m2, e) PROVE StringsInv'
  <2>1. Gives(m, m2, o, e)
    BY <1>12, <1>13
  <2> QED
    BY ONLY StringsInv, o \in Objects, e \in Seq(Chars), <1>1, <1>13, <2>1, GivesKeeps
<1>14. CASE ~Own(m, o)
  <2>1. Away(m, o, ptr)
    BY <1>1, <1>3, <1>4, <1>14, NotOwnIsAway
  <2>2. s = Bytes(m, ptr, i, n)
    BY <1>3, <1>10, <1>11, <2>1, AwayStays
  <2>3. Bytes(m, GetDataPointer(m, o), i, n) = SubSeq(t, i + 1, i + n)
    <3>1. /\ Sound(m) /\ o \in All /\ m.obj[o].type # "dead"
          /\ t \in Seq(Marks) /\ Data(m, o) = t /\ i + n <= Len(t)
      BY <1>3
    <3>2. ReadsOf(m, o, t)
      BY <3>1, ReadsAre
    <3> QED
      BY <3>1, <3>2 DEF ReadsOf
  <2>4. Changes(o, m2, e)
    BY <1>7, <1>8, <1>14
  <2> QED
    BY <1>4, <1>6, <1>13, <2>2, <2>3, <2>4
<1>15. CASE n = 0
  <2>1. s = <<>>
    BY <1>11, <1>15
  <2>2. e = <<>>
    BY <1>3, <1>6, <1>15, NoCharacters
  <2>3. Changes(o, m2, e)
    BY <1>7, <1>15
  <2> QED
    BY <1>13, <2>1, <2>2, <2>3
<1>16. CASE Own(m, o) /\ n # 0 /\ (GetDataPointer(m2, o) # ptr \/ i \in 1 .. n)
  <2>1. n > 0 /\ (Moves(o, m2) \/ (Owns(o) /\ i \in 1 .. n))
    BY <1>8, <1>16
  <2>2. Changes(o, m2, Lost)
    BY <1>7, <2>1
  <2>3. Effect(m, m2, o) /\ Own(m2, o)
    BY <1>12 DEF Gives, Holds
  <2> QED
    BY ONLY StringsInv, o \in Objects, <1>1, <2>2, <2>3, LostKeeps
<1>17. CASE Own(m, o) /\ n # 0 /\ GetDataPointer(m2, o) = ptr /\ i \notin 1 .. n
  <2>1. Holds(m, o, t) /\ GetDataPointer(g, o) = ptr
    BY <1>1, <1>2, <1>3, <1>12, <1>17, OwnTextIs
  <2>2. Changes(o, m2, e)
    BY <1>7, <1>8, <1>17
  <2>3. CASE i = 0
    <3>1. PICK u : u = Grown(t, n)
      OBVIOUS
    <3>2. u \in Seq(Marks) /\ Len(u) = n /\ Holds(g, o, u) /\ Sound(g)
      BY <1>3, <1>9, <1>10, <3>1, GrownIs, ResizeIs DEF Effect
    <3>3. i + n <= Len(u)
      BY <2>3, <3>2
    <3>4. Bytes(g, GetDataPointer(g, o), i, n) = SubSeq(u, i + 1, i + n)
      BY ONLY i \in Nat, n \in Nat, <1>3, <3>2, <3>3, OwnBytes
    <3>5. PICK j \in Nat : j = i + n /\ i <= j /\ j <= Len(t) /\ j <= n
      BY <1>3, <2>3
    <3>6. SubSeq(Grown(t, n), i + 1, j) = SubSeq(t, i + 1, j)
      <4>1. /\ t \in Seq(Marks) /\ i \in Nat /\ n \in Nat /\ j \in Nat
            /\ i <= j /\ j <= Len(t) /\ j <= n
        BY <1>3, <3>5
      <4> QED
        BY ONLY <4>1, GrownPart
    <3>7. s = e
      BY <1>6, <1>11, <2>1, <3>1, <3>4, <3>5, <3>6
    <3> QED
      BY <1>13, <2>2, <3>7
  <2>4. CASE i # 0
    <3>1. n < i /\ n < Len(t)
      BY <1>3, <1>17, <2>4
    <3>2. s = SubSeq(t, i + 1, i + n)
      BY <1>3, <1>4, <1>9, <1>11, <2>1, <3>1, BehindTheCut
    <3> QED
      BY <1>6, <1>13, <2>2, <3>2
  <2> QED
    BY <2>3, <2>4
<1> QED
  BY <1>14, <1>15, <1>16, <1>17

LEMMA ConstructFillKeeps ==
  ASSUME StringsInv, NEW o \in Objects, NEW n \in Nat, NEW c \in Chars, ConstructFill(o, n, c)
  PROVE  StringsInv'
<1>1. PICK m : m = memory
  OBVIOUS
<1>2. Sound(m) /\ o \in All /\ ~IsLarge(m, o)
  BY <1>1, ExistsIs DEF ConstructFill, IsLarge
<1>3. PICK g : g = InitString(m, o)
  OBVIOUS
<1>4. Effect(m, g, o) /\ Holds(g, o, <<>>)
  BY <1>2, <1>3, InitIs DEF Gives
<1>5. Sound(g) /\ g.obj[o].type # "dead" /\ GetSize(g, o) = 0 /\ Data(g, o) = <<>>
  BY <1>4 DEF Effect, Holds, Own
<1>6. PICK m2 : m2 = Resize(g, o, n, c)
  OBVIOUS
<1>7. GetSize(g, o) <= n
  BY <1>5
<1>8. Gives(g, m2, o, Data(g, o) \o Fill(c, n - GetSize(g, o)))
  BY <1>2, <1>5, <1>6, <1>7, ResizeFillIs
<1>9. PICK t \in Seq(Chars) : t = Fill(c, n)
  BY FillIs
<1>10. <<>> \o t = t /\ n - 0 = n
  OBVIOUS
<1>11. Gives(g, m2, o, t)
  BY <1>5, <1>8, <1>9, <1>10
<1>12. Gives(m, m2, o, t)
  BY <1>4, <1>11, EffectsAdd DEF Gives
<1>13. Changes(o, m2, t)
  BY <1>1, <1>3, <1>6, <1>9 DEF ConstructFill
<1> QED
  BY ONLY StringsInv, o \in Objects, t \in Seq(Chars), <1>1, <1>12, <1>13, GivesKeeps

LEMMA DestroyKeeps ==
  ASSUME StringsInv, NEW o \in Objects, Destroy(o)
  PROVE  StringsInv'
<1>1. PICK m : m = memory
  OBVIOUS
<1>2. Sound(m) /\ o \in All
  BY <1>1, ExistsIs
<1>3. PICK m2 : m2 = Become(Dealloc(m, o), o, Gone)
  OBVIOUS
<1>4. Plain(Gone) /\ Gone.type = "dead"
  BY Made DEF Plain
<1>5. Effect(m, m2, o) /\ m2.obj[o] = Gone
  BY <1>2, <1>3, <1>4, DeallocPut
<1>6. PICK b \in Objects \cup {NoObject} : b = from[o]
  BY ExistsIs
<1>7. PICK t \in Seq(Chars) \cup {Dead, Lost} : t = Dead
  OBVIOUS
<1>8. Changes(o, m2, t)
  BY <1>1, <1>3, <1>7 DEF Destroy, Become
<1>9. Replaces(o, m2, b, t)
  BY <1>6, <1>8, ChangesIs
<1>10. Settled(m2, o, b, t)
  BY <1>4, <1>5, <1>7 DEF Settled
<1>11. Effect(memory, m2, o)
  BY <1>1, <1>5
<1> QED
  BY ONLY StringsInv, o \in Objects, b \in Objects \cup {NoObject}, t \in Seq(Chars) \cup {Dead, Lost},
          <1>9, <1>10, <1>11, ReplacesKeeps

LEMMA AssignCharKeeps ==
  ASSUME StringsInv, NEW o \in Objects, NEW c \in Chars, AssignChar(o, c)
  PROVE  StringsInv'
<1>1. PICK m : m = memory
  OBVIOUS
<1>2. Sound(m) /\ o \in All /\ m.obj[o].type # "dead"
  BY <1>1, ReadableIs DEF AssignChar
<1>3. PICK g : g = ResizeUninitialized(m, o, 1)
  OBVIOUS
<1>4. PICK t \in Seq(Chars) : t = <<c>> /\ Len(t) = 1 /\ t \in Seq(Marks)
  BY TextsOfChars, MarksDiffer
<1>5. PICK m2 : m2 = Write(g, o, 0, t)
  OBVIOUS
<1>6. 1 \in Nat /\ 0 \in Nat /\ 0 + Len(t) <= 1
  BY <1>4
<1>7. Gives(m, m2, o, Overwrite(Grown(Data(m, o), 1), 0, t))
  BY <1>2, <1>3, <1>4, <1>5, <1>6, ResizeWrite
<1>8. PICK d \in Seq(Marks) : d = Data(m, o)
  BY <1>2, DataType DEF Sound
<1>9. PICK u : u = Grown(d, 1)
  OBVIOUS
<1>10. u \in Seq(Marks) /\ Len(u) = 1
  BY <1>6, <1>9, GrownIs
<1>11. Overwrite(u, 0, t) = t
  BY <1>4, <1>10, OverwrittenAll
<1>12. Gives(m, m2, o, t)
  BY <1>7, <1>8, <1>9, <1>11
<1>13. Changes(o, m2, t)
  BY <1>1, <1>3, <1>4, <1>5 DEF AssignChar
<1> QED
  BY ONLY StringsInv, o \in Objects, t \in Seq(Chars), <1>1, <1>12, <1>13, GivesKeeps

\* An argument is read at a pointer that leads to nothing of o.
LEMMA ArgumentIs ==
  ASSUME StringsInv, NEW o \in Objects, NEW s \in Objects, Argument(o, s), NEW m, m = memory
  PROVE  /\ Readable(s) /\ from[s] # o
         /\ s # o \/ ~Own(m, s) => Away(m, o, GetDataPointer(m, s))
<1>1. Readable(s) /\ from[s] # o
  BY DEF Argument
<1>2. PICK t : t = text[s]
  OBVIOUS
<1>3. PICK b : b = from[s]
  OBVIOUS
<1>4. Sound(m) /\ s \in All /\ m.obj[s].type # "dead" /\ Shows(m, s, b, t)
  BY <1>1, <1>2, <1>3, ReadableIs
<1>5. o \in All /\ b # o
  BY <1>1, <1>3, AllIs
<1> QED
  BY <1>1, <1>4, <1>5, ShownIsAway

\* A view of o, assigned to o or moved, is all that is left.
LEMMA OwnViewTaken ==
  ASSUME NEW m, Sound(m), NEW o \in All, NEW s \in All \ {o}, m.obj[s].type = "view",
         NEW m2, m2 = Assign(m, o, s) \/ m2 = Move(m, o, s)
  PROVE  Effect(m, m2, o) /\ m2.obj[o].type = "view"
<1>1. PICK d : d = Dealloc(m, o)
  OBVIOUS
<1>2. PICK p \in Representations : p = m.obj[s]
  BY DEF Sound, MemoryType
<1>3. d.obj[s] = p
  BY <1>1, <1>2, DeallocIs DEF Effect, Others
<1>4. m2 = Become(Dealloc(m, o), o, p)
  BY <1>1, <1>2, <1>3 DEF Assign, Move, Become
<1>5. Plain(p)
  BY <1>2 DEF Plain
<1>6. Effect(m, m2, o) /\ m2.obj[o] = p
  BY ONLY Sound(m), o \in All, <1>4, <1>5, DeallocPut
<1> QED
  BY <1>2, <1>6

LEMMA OwnViewIs ==
  ASSUME StringsInv, NEW o \in Objects, NEW s \in Objects, Readable(s), from[s] = o, NEW m, m = memory
  PROVE  /\ o # s /\ m.obj[s].type = "view" /\ Own(m, o) /\ Exists(o) /\ Sound(m)
         /\ o \in All /\ s \in All \ {o} /\ Shows(m, s, o, text[s])
<1>1. PICK t : t = text[s]
  OBVIOUS
<1>2. PICK b : b = from[s]
  OBVIOUS
<1>3. /\ Sound(m) /\ s \in All /\ Shows(m, s, b, t) /\ b # s
      /\ (m.obj[s].type # "view" => b = NoObject)
  BY <1>1, <1>2, ReadableIs
<1>4. b = o /\ o # NoObject
  BY <1>2, MarksDiffer
<1>5. m.obj[s].type = "view" /\ Own(m, o)
  BY <1>3, <1>4 DEF Shows
<1>6. Exists(o) /\ o \in All
  BY <1>5, ExistsIs DEF Own
<1> QED
  BY <1>1, <1>3, <1>4, <1>5, <1>6

LEMMA AssignStringKeeps ==
  ASSUME StringsInv, NEW o \in Objects, NEW s \in Objects, AssignString(o, s)
  PROVE  StringsInv'
<1>1. PICK m : m = memory
  OBVIOUS
<1>2. PICK g : g = Constructed(o)
  OBVIOUS
<1>3. PICK t : t = text[s]
  OBVIOUS
<1>4. PICK b : b = from[s]
  OBVIOUS
<1>5. /\ Sound(m) /\ s \in All /\ m.obj[s].type # "dead" /\ Exists(s) /\ Shows(m, s, b, t) /\ t \in Seq(Chars)
      /\ b \in Objects \cup {NoObject} /\ b # s /\ (m.obj[s].type # "view" => b = NoObject)
  BY <1>1, <1>3, <1>4, ReadableIs DEF AssignString
<1>6. o \in All /\ Effect(m, g, o) /\ g.obj[o].type # "dead" /\ (Exists(o) => g = m)
  BY <1>1, <1>2, ConstructedIs, AllIs
<1>7. PICK m2 : m2 = Assign(g, o, s)
  OBVIOUS
<1>8. CASE b = o
  <2>1. /\ s \in All \ {o} /\ m.obj[s].type = "view" /\ Exists(o)
    BY <1>1, <1>4, <1>8, OwnViewIs DEF AssignString
  <2>2. m2 = Assign(m, o, s)
    BY <1>6, <1>7, <2>1
  <2>3. Effect(m, m2, o) /\ m2.obj[o].type = "view"
    BY <1>5, <1>6, <2>1, <2>2, OwnViewTaken
  <2>4. PICK c \in Objects \cup {NoObject} : c = NoObject
    OBVIOUS
  <2>5. PICK u \in Seq(Chars) \cup {Dead, Lost} : u = Lost
    OBVIOUS
  <2>6. Replaces(o, m2, c, u)
    BY <1>2, <1>4, <1>7, <1>8, <2>4, <2>5 DEF AssignString
  <2>7. Settled(m2, o, c, u)
    BY <2>3, <2>5, MarksDiffer DEF Settled
  <2>8. Effect(memory, m2, o)
    BY <1>1, <2>3
  <2> QED
    BY ONLY StringsInv, o \in Objects, c \in Objects \cup {NoObject}, u \in Seq(Chars) \cup {Dead, Lost},
            <2>6, <2>7, <2>8, ReplacesKeeps
<1>9. CASE b # o
  <2>1. Effect(m, m2, o) /\ Shows(m2, o, b, t) /\ m2.obj[o].type # "dead"
    <3>1. CASE o = s
      <4>1. m2 = m
        BY <1>5, <1>6, <1>7, <3>1 DEF Assign
      <4> QED
        BY <1>5, <3>1, <4>1, EffectStays
    <3>2. CASE o # s
      <4>1. s \in All \ {o}
        BY <1>5, <3>2
      <4>2. Sound(g) /\ Others(m, g, {o})
        BY <1>6 DEF Effect
      <4>3. g.obj[s] = m.obj[s] /\ (IsLarge(m, s) => g.heap[m.obj[s].ptr] = m.heap[m.obj[s].ptr])
        BY <4>1, <4>2 DEF Others
      <4>4. b \notin {o}
        BY <1>9
      <4>5. Shows(g, s, b, t)
        BY <1>5, <4>2, <4>3, <4>4, Carried
      <4>6. g.obj[s].type = "offset" => b = NoObject
        BY <1>5, <4>3
      <4>7. Effect(g, m2, o) /\ Shows(m2, o, b, t) /\ m2.obj[o].type # "dead"
        BY <1>5, <1>6, <1>7, <1>9, <4>1, <4>2, <4>3, <4>5, <4>6, AssignIs
      <4> QED
        BY <1>6, <4>7, EffectsAdd
    <3> QED
      BY <3>1, <3>2
  <2>2. Replaces(o, m2, b, t)
    BY <1>2, <1>3, <1>4, <1>7, <1>9 DEF AssignString
  <2>3. Settled(m2, o, b, t)
    BY <1>5, <2>1, MarksDiffer DEF Settled
  <2>4. Effect(memory, m2, o) /\ b \in Objects \cup {NoObject} /\ t \in Seq(Chars) \cup {Dead, Lost}
    BY <1>1, <1>5, <2>1
  <2> QED
    BY ONLY StringsInv, o \in Objects, <2>2, <2>3, <2>4, ReplacesKeeps
<1> QED
  BY <1>8, <1>9

\* A call that changes two objects.
Sets(f, o, x, s, y) == [f EXCEPT ![o] = x, ![s] = y]

LEMMA PairKeeps ==
  ASSUME StringsInv, NEW o \in Objects, NEW s \in Objects, o # s,
         NEW m2, Sound(m2), Others(memory, m2, {o, s}),
         NEW b \in Objects \cup {NoObject}, NEW t \in Seq(Chars) \cup {Dead, Lost},
         NEW c \in Objects \cup {NoObject}, NEW u \in Seq(Chars) \cup {Dead, Lost},
         Settled(m2, o, b, t), Settled(m2, s, c, u),
         Call(m2, {o, s}, Sets(from, o, b, s, c), Sets(text, o, t, s, u))
  PROVE  StringsInv'
<1>1. PICK m : m = memory
  OBVIOUS
<1>2. Strings(m, text, from) /\ Others(m, m2, {o, s})
  BY <1>1 DEF StringsInv
<1>3. PICK tx \in TheTexts : tx = text
  BY <1>2 DEF Strings
<1>4. PICK fr \in TheBases : fr = from
  BY <1>2 DEF Strings
<1>5. PICK tx2 : tx2 = [tx EXCEPT ![o] = t, ![s] = u]
  OBVIOUS
<1>6. PICK fr2 : fr2 = [fr EXCEPT ![o] = b, ![s] = c]
  OBVIOUS
<1>7. tx2 \in TheTexts /\ Agree(tx, tx2, {o, s}) /\ tx2[o] = t /\ tx2[s] = u
  BY <1>3, <1>5 DEF TheTexts, Agree
<1>8. fr2 \in TheBases /\ Agree(fr, fr2, {o, s}) /\ fr2[o] = b /\ fr2[s] = c
  BY <1>4, <1>6 DEF TheBases, Agree
<1>9. PICK C \in SUBSET Objects : C = {o, s}
  OBVIOUS
<1>10. \A v \in C : Settled(m2, v, fr2[v], tx2[v])
  BY <1>7, <1>8, <1>9
<1>11. PICK tx3 : tx3 = TextsAfter(fr, C, tx2)
  OBVIOUS
<1>12. PICK fr3 : fr3 = BasesAfter(m2, fr, C, fr2)
  OBVIOUS
<1>13. Strings(m, tx, fr) /\ Others(m, m2, C) /\ Agree(tx, tx2, C) /\ Agree(fr, fr2, C) /\ Sound(m2)
  BY <1>2, <1>3, <1>4, <1>7, <1>8, <1>9
<1>14. Strings(m2, tx3, fr3)
  BY ONLY C \in SUBSET Objects, <1>7, <1>8, <1>10, <1>11, <1>12, <1>13, CallIs
<1>15. Call(m2, C, fr2, tx2)
  BY <1>3, <1>4, <1>5, <1>6, <1>9 DEF Sets
<1>16. text' = tx3 /\ from' = fr3
  BY <1>4, <1>11, <1>12, <1>15 DEF Call, TextsAfter, BasesAfter
<1>17. memory' = m2
  BY <1>15 DEF Call, memory, Sound, MemoryType
<1> QED
  BY <1>14, <1>16, <1>17 DEF StringsInv

LEMMA MoveStringKeeps ==
  ASSUME StringsInv, NEW o \in Objects, NEW s \in Objects, MoveString(o, s)
  PROVE  StringsInv'
<1>1. PICK m : m = memory
  OBVIOUS
<1>2. PICK g : g = Constructed(o)
  OBVIOUS
<1>3. PICK t : t = text[s]
  OBVIOUS
<1>4. PICK b : b = from[s]
  OBVIOUS
<1>5. /\ Sound(m) /\ s \in All /\ m.obj[s].type # "dead" /\ Exists(s) /\ Shows(m, s, b, t) /\ t \in Seq(Chars)
      /\ b \in Objects \cup {NoObject} /\ b # s /\ (m.obj[s].type # "view" => b = NoObject)
      /\ m.obj[s] = obj[s]
  BY <1>1, <1>3, <1>4, ReadableIs, ExistsIs DEF MoveString
<1>6. o \in All /\ Effect(m, g, o) /\ g.obj[o].type # "dead" /\ (Exists(o) => g = m)
  BY <1>1, <1>2, ConstructedIs, AllIs
<1>7. PICK m2 : m2 = Move(g, o, s)
  OBVIOUS
<1>8. PICK u : u = IF obj[s].type = "large" /\ o # s THEN <<>> ELSE t
  OBVIOUS
<1>9. text \in TheTexts /\ from \in TheBases
  BY DEF StringsInv, Strings
<1>10. ASSUME b # o PROVE Call(m2, {o, s}, [from EXCEPT ![o] = b], [text EXCEPT ![o] = t, ![s] = u])
  BY <1>2, <1>3, <1>4, <1>7, <1>8, <1>10 DEF MoveString
<1>11. CASE b = o
  <2>1. /\ o # s /\ s \in All \ {o} /\ m.obj[s].type = "view" /\ Exists(o)
    BY <1>1, <1>4, <1>11, OwnViewIs DEF MoveString
  <2>2. m2 = Move(m, o, s)
    BY <1>6, <1>7, <2>1
  <2>3. Effect(m, m2, o) /\ m2.obj[o].type = "view"
    BY <1>5, <1>6, <2>1, <2>2, OwnViewTaken
  <2>4. PICK c \in Objects \cup {NoObject} : c = NoObject
    OBVIOUS
  <2>5. PICK v \in Seq(Chars) \cup {Dead, Lost} : v = Lost
    OBVIOUS
  <2>6. Call(m2, {o, s}, [from EXCEPT ![o] = c], [text EXCEPT ![o] = v, ![s] = v])
    BY <1>2, <1>4, <1>7, <1>11, <2>4, <2>5 DEF MoveString
  <2>7. [from EXCEPT ![o] = c] = Sets(from, o, c, s, b)
    BY <1>4, <1>9, <2>1 DEF TheBases, Sets
  <2>8. Call(m2, {o, s}, Sets(from, o, c, s, b), Sets(text, o, v, s, v))
    BY <2>6, <2>7 DEF Sets
  <2>9. m2.obj[s].type = "view"
    BY <2>1, <2>3 DEF Effect, Others
  <2>10. Settled(m2, o, c, v) /\ Settled(m2, s, b, v)
    BY <2>3, <2>5, <2>9, MarksDiffer DEF Settled
  <2>11. Sound(m2) /\ Others(memory, m2, {o, s}) /\ b \in Objects \cup {NoObject}
    BY <1>1, <1>5, <2>3 DEF Effect, Others
  <2> QED
    BY ONLY StringsInv, o \in Objects, s \in Objects, c \in Objects \cup {NoObject},
            v \in Seq(Chars) \cup {Dead, Lost}, <2>1, <2>8, <2>10, <2>11, PairKeeps
<1>12. CASE o = s
  <2>1. m2 = m
    BY <1>5, <1>6, <1>7, <1>12 DEF Move
  <2>2. [text EXCEPT ![o] = t, ![s] = u] = [text EXCEPT ![o] = t] /\ {o, s} = {o}
    BY <1>8, <1>9, <1>12 DEF TheTexts
  <2>3. Replaces(o, m2, b, t)
    BY <1>5, <1>10, <1>12, <2>2 DEF Replaces
  <2>4. Settled(m2, o, b, t)
    BY <1>5, <1>12, <2>1, MarksDiffer DEF Settled
  <2>5. Effect(memory, m2, o) /\ b \in Objects \cup {NoObject} /\ t \in Seq(Chars) \cup {Dead, Lost}
    BY <1>1, <1>5, <2>1, EffectStays
  <2> QED
    BY ONLY StringsInv, o \in Objects, <2>3, <2>4, <2>5, ReplacesKeeps
<1>13. CASE o # s /\ b # o
  <2>1. b # o /\ s \in All \ {o} /\ b \notin {o}
    BY <1>5, <1>13
  <2>2. Sound(g) /\ Others(m, g, {o})
    BY <1>6 DEF Effect
  <2>3. g.obj[s] = m.obj[s] /\ (IsLarge(m, s) => g.heap[m.obj[s].ptr] = m.heap[m.obj[s].ptr])
    BY <2>1, <2>2 DEF Others
  <2>4. Shows(g, s, b, t)
    BY <1>5, <2>1, <2>2, <2>3, Carried
  <2>5. Sound(m2) /\ Others(m, m2, {o, s}) /\ Settled(m2, o, b, t) /\ Settled(m2, s, b, u)
    <3>1. CASE IsLarge(m, s)
      <4>1. IsLarge(g, s) /\ Own(g, s) /\ u = <<>>
        BY <1>5, <1>8, <1>13, <2>3, <3>1 DEF IsLarge, Own
      <4>2. Holds(g, s, t)
        BY <1>5, <2>2, <2>4, <4>1, ShownIsHeld
      <4>3. /\ Sound(m2) /\ Others(g, m2, {o, s})
            /\ Holds(m2, o, t) /\ Holds(m2, s, <<>>)
        BY <1>6, <1>7, <2>1, <2>2, <4>1, <4>2, MoveBuffer
      <4>4. Others(m, m2, {o} \cup {o, s}) /\ {o} \cup {o, s} = {o, s}
        BY <2>2, <4>3, OthersAdd
      <4>5. Settled(m2, o, b, t) /\ Settled(m2, s, b, u)
        BY <1>5, <4>1, <4>3, MarksDiffer, TextsOfChars, HeldIsShown DEF Settled, Holds, Own
      <4> QED
        BY <4>3, <4>4, <4>5
    <3>2. CASE ~IsLarge(m, s)
      <4>1. ~IsLarge(g, s) /\ g.obj[s].type # "dead" /\ u = t /\ (g.obj[s].type = "offset" => b = NoObject)
        BY <1>5, <1>8, <2>3, <3>2 DEF IsLarge
      <4>2. Carries(g, m2, o, s)
        BY <1>6, <1>7, <2>1, <2>2, <4>1, MoveCarries
      <4>3. Effect(g, m2, o) /\ Shows(m2, o, b, t) /\ m2.obj[o].type # "dead"
        BY <1>6, <2>1, <2>2, <2>4, <4>1, <4>2, CarriesIs
      <4>4. Sound(m2) /\ Others(m, m2, {o})
        BY <1>6, <4>3, EffectsAdd DEF Effect
      <4>5. m2.obj[s] = m.obj[s] /\ (IsLarge(m, s) => m2.heap[m.obj[s].ptr] = m.heap[m.obj[s].ptr])
        BY <2>1, <4>4 DEF Others
      <4>6. Shows(m2, s, b, t)
        BY <1>5, <2>1, <4>4, <4>5, Carried
      <4>7. Settled(m2, o, b, t) /\ Settled(m2, s, b, u)
        BY <1>5, <4>1, <4>3, <4>5, <4>6, MarksDiffer DEF Settled
      <4> QED
        BY <4>4, <4>7 DEF Others
    <3> QED
      BY <3>1, <3>2
  <2>6. [from EXCEPT ![o] = b] = Sets(from, o, b, s, b)
    BY <1>4, <1>9, <1>13 DEF TheBases, Sets
  <2>7. Call(m2, {o, s}, Sets(from, o, b, s, b), Sets(text, o, t, s, u))
    BY <1>10, <1>13, <2>6 DEF Sets
  <2>8. b \in Objects \cup {NoObject} /\ t \in Seq(Chars) \cup {Dead, Lost} /\ u \in Seq(Chars) \cup {Dead, Lost}
    BY <1>5, <1>8, TextsOfChars
  <2>9. Others(memory, m2, {o, s}) /\ Sound(m2)
    BY <1>1, <2>5
  <2> QED
    BY ONLY StringsInv, o \in Objects, s \in Objects, <1>13, <2>5, <2>7, <2>8, <2>9, PairKeeps
<1> QED
  BY <1>12, <1>13, <1>11

LEMMA ViewTextKeeps ==
  ASSUME StringsInv, NEW o \in Objects, NEW t \in Texts, NEW n \in 0 .. Len(t), ViewText(o, t, n)
  PROVE  StringsInv'
<1>1. PICK m : m = memory
  OBVIOUS
<1>2. Sound(m) /\ MemoryType(m) /\ o \in All
  BY <1>1, ExistsIs
<1>3. t \in Seq(Chars) /\ n \in Nat /\ n <= Len(t)
  BY PointersAssumption
<1>4. PICK u \in Seq(Chars) : u = SubSeq(t, 1, n)
  BY <1>3, TextsOfChars
<1>5. Bytes(m, t, 0, n) = u
  BY <1>2, <1>3, <1>4, TextBytes
<1>6. PICK m2 : m2 = AssignView(m, o, t, n)
  OBVIOUS
<1>7. Away(m, o, t)
  BY DEF Away
<1>8. /\ Effect(m, m2, o) /\ m2.obj[o].type = "view" /\ m2.obj[o].ptr = t
      /\ Data(m2, o) = Bytes(m, t, 0, n)
  BY <1>2, <1>3, <1>6, <1>7, AssignViewIs
<1>9. PICK b \in Objects \cup {NoObject} : b = NoObject
  OBVIOUS
<1>10. Settled(m2, o, b, u)
  BY <1>4, <1>5, <1>8, <1>9, MarksDiffer DEF Settled, Shows
<1>11. Replaces(o, m2, b, u)
  BY <1>1, <1>4, <1>6, <1>9 DEF ViewText
<1>12. Effect(memory, m2, o) /\ u \in Seq(Chars) \cup {Dead, Lost}
  BY <1>1, <1>8
<1> QED
  BY ONLY StringsInv, o \in Objects, b \in Objects \cup {NoObject}, <1>10, <1>11, <1>12, ReplacesKeeps

LEMMA ViewStringKeeps ==
  ASSUME StringsInv, NEW o \in Objects, NEW s \in Objects, ViewString(o, s)
  PROVE  StringsInv'
<1>1. PICK m : m = memory
  OBVIOUS
<1>2. PICK t : t = text[s]
  OBVIOUS
<1>3. PICK c : c = from[s]
  OBVIOUS
<1>4. Readable(s) /\ o # s /\ c # o /\ Away(m, o, GetDataPointer(m, s))
  BY <1>1, <1>3, ArgumentIs DEF ViewString
<1>5. /\ Sound(m) /\ s \in All /\ m.obj[s].type # "dead" /\ Shows(m, s, c, t) /\ t \in Seq(Chars)
      /\ Data(m, s) = t /\ GetSize(m, s) = Len(t) /\ Len(t) \in Nat
      /\ c \in Objects \cup {NoObject} /\ (m.obj[s].type # "view" => c = NoObject)
      /\ m.obj[s] = obj[s] /\ o \in All
  BY <1>1, <1>2, <1>3, <1>4, ReadableIs, ExistsIs
<1>6. PICK ptr : ptr = GetDataPointer(m, s)
  OBVIOUS
<1>7. PICK n \in Nat : n = GetSize(m, s)
  BY <1>5
<1>8. PICK m2 : m2 = AssignView(m, o, ptr, n)
  OBVIOUS
<1>9. /\ Effect(m, m2, o) /\ m2.obj[o].type = "view" /\ m2.obj[o].ptr = ptr
      /\ Data(m2, o) = Bytes(m, ptr, 0, n)
  BY <1>4, <1>5, <1>6, <1>8, AssignViewIs
<1>10. Data(m2, o) = t
  BY <1>5, <1>6, <1>7, <1>9 DEF Data
<1>11. PICK b : b = CASE obj[s].type = "view" -> c [] obj[s].type = "offset" -> NoObject [] OTHER -> s
  OBVIOUS
<1>12. b \in Objects \cup {NoObject} /\ Shows(m2, o, b, t)
  <2>1. CASE Own(m, s)
    <3>1. b = s
      BY <1>5, <1>11, <2>1 DEF Own
    <3>2. m2.obj[s] = m.obj[s]
      BY <1>4, <1>5, <1>9 DEF Effect, Others
    <3>3. Own(m2, s) /\ ptr = Base(m2, s)
      BY <1>6, <2>1, <3>2 DEF Own, Base, GetDataPointer
    <3> QED
      BY <1>4, <1>9, <1>10, <3>1, <3>3 DEF Shows
  <2>2. CASE m.obj[s].type = "offset"
    <3>1. b = NoObject
      BY <1>5, <1>11, <2>2
    <3>2. ptr \in Texts
      BY <1>5, <1>6, <2>2, Fields DEF Sound, MemoryType, Offset, GetDataPointer
    <3> QED
      BY <1>9, <1>10, <3>1, <3>2 DEF Shows
  <2>3. CASE m.obj[s].type = "view"
    <3>1. b = c /\ ptr = m.obj[s].ptr
      BY <1>5, <1>6, <1>11, <2>3 DEF GetDataPointer
    <3>2. CASE c = NoObject /\ ptr \in Texts
      BY <1>9, <1>10, <3>1, <3>2 DEF Shows
    <3>3. CASE ~(c = NoObject /\ ptr \in Texts)
      <4>1. c \in Objects /\ Own(m, c) /\ ptr = Base(m, c)
        BY <1>5, <2>3, <3>1, <3>3 DEF Shows
      <4>2. m2.obj[c] = m.obj[c]
        BY <1>4, <1>9, <4>1, AllIs DEF Effect, Others
      <4>3. Own(m2, c) /\ ptr = Base(m2, c)
        BY <4>1, <4>2 DEF Own, Base
      <4> QED
        BY <1>4, <1>9, <1>10, <3>1, <4>1, <4>3 DEF Shows
    <3> QED
      BY <3>2, <3>3
  <2> QED
    BY <1>5, <2>1, <2>2, <2>3, NoCapacity
<1>13. Replaces(o, m2, b, t)
  BY <1>1, <1>2, <1>3, <1>6, <1>7, <1>8, <1>11 DEF ViewString
<1>14. Settled(m2, o, b, t)
  BY <1>5, <1>9, <1>12, MarksDiffer DEF Settled
<1>15. Effect(memory, m2, o) /\ t \in Seq(Chars) \cup {Dead, Lost} /\ b \in Objects \cup {NoObject}
  BY <1>1, <1>5, <1>9, <1>12
<1> QED
  BY ONLY StringsInv, o \in Objects, <1>13, <1>14, <1>15, ReplacesKeeps

LEMMA ShortenKeeps ==
  ASSUME StringsInv, NEW o \in Objects, NEW n \in Nat, Shorten(o, n)
  PROVE  StringsInv'
<1>1. PICK m : m = memory
  OBVIOUS
<1>2. PICK t : t = text[o]
  OBVIOUS
<1>3. /\ Sound(m) /\ o \in All /\ m.obj[o].type # "dead" /\ Data(m, o) = t
      /\ t \in Seq(Chars) /\ t \in Seq(Marks) /\ n <= Len(t)
  BY <1>1, <1>2, ReadableIs DEF Shorten
<1>4. PICK m2 : m2 = ResizeUninitialized(m, o, n)
  OBVIOUS
<1>5. Gives(m, m2, o, Grown(t, n))
  BY <1>3, <1>4, ResizeIs DEF Gives
<1>6. PICK u \in Seq(Chars) : u = SubSeq(t, 1, n)
  BY <1>3, TextsOfChars
<1>7. Gives(m, m2, o, u)
  BY <1>3, <1>5, <1>6, GrownCut
<1>8. Changes(o, m2, u)
  BY <1>1, <1>2, <1>4, <1>6 DEF Shorten
<1> QED
  BY ONLY StringsInv, o \in Objects, u \in Seq(Chars), <1>1, <1>7, <1>8, GivesKeeps

LEMMA ResizeStringKeeps ==
  ASSUME StringsInv, NEW o \in Objects, NEW n \in Nat, NEW c \in Chars, ResizeString(o, n, c)
  PROVE  StringsInv'
<1>1. PICK m : m = memory
  OBVIOUS
<1>2. PICK t : t = text[o]
  OBVIOUS
<1>3. /\ Sound(m) /\ o \in All /\ m.obj[o].type # "dead" /\ Data(m, o) = t
      /\ t \in Seq(Chars) /\ GetSize(m, o) = Len(t) /\ Len(t) \in Nat /\ n > Len(t)
  BY <1>1, <1>2, ReadableIs DEF ResizeString
<1>4. PICK m2 : m2 = Resize(m, o, n, c)
  OBVIOUS
<1>5. GetSize(m, o) <= n /\ n - Len(t) \in Nat
  BY <1>3
<1>6. Gives(m, m2, o, t \o Fill(c, n - Len(t)))
  <2>1. Gives(m, m2, o, Data(m, o) \o Fill(c, n - GetSize(m, o)))
    BY <1>3, <1>4, <1>5, ResizeFillIs
  <2> QED
    BY <1>3, <2>1
<1>7. PICK u \in Seq(Chars) : u = t \o Fill(c, n - Len(t))
  BY <1>3, <1>5, FillIs, TextsOfChars
<1>8. Changes(o, m2, u)
  BY <1>1, <1>2, <1>4, <1>7 DEF ResizeString
<1>9. Gives(m, m2, o, u)
  BY <1>6, <1>7
<1> QED
  BY ONLY StringsInv, o \in Objects, u \in Seq(Chars), <1>1, <1>8, <1>9, GivesKeeps

LEMMA ReserveStringKeeps ==
  ASSUME StringsInv, NEW o \in Objects, NEW n \in Nat, ReserveString(o, n)
  PROVE  StringsInv'
<1>1. PICK m : m = memory
  OBVIOUS
<1>2. PICK t : t = text[o]
  OBVIOUS
<1>3. /\ Readable(o) /\ Sound(m) /\ o \in All /\ m.obj[o].type # "dead" /\ Data(m, o) = t
      /\ t \in Seq(Chars)
  BY <1>1, <1>2, ReadableIs DEF ReserveString
<1>4. PICK m2 : m2 = Reserve(m, o, n)
  OBVIOUS
<1>5. Has(m, m2, o, t)
  BY <1>3, <1>4, ReserveIs DEF Has
<1>6. Changes(o, m2, t)
  BY <1>1, <1>2, <1>4 DEF ReserveString
<1> QED
  BY ONLY StringsInv, o \in Objects, <1>1, <1>3, <1>5, <1>6, HasKeeps

\* One character is written over.
LEMMA ReplacedIs ==
  ASSUME NEW t \in Seq(Chars), NEW i \in Nat, i < Len(t), NEW c \in Chars
  PROVE  /\ Overwrite(t, i, <<c>>) = ReplaceAt(t, i + 1, c)
         /\ ReplaceAt(t, i + 1, c) \in Seq(Chars)
<1>0. <<c>> \in Seq(Chars) /\ Len(<<c>>) = 1 /\ <<c>>[1] = c
  BY TextsOfChars
<1>1. PICK s \in Seq(Chars) : s = <<c>> /\ Len(s) = 1 /\ s[1] = c
  BY <1>0
<1>2. PICK v : v = Overwrite(t, i, s)
  OBVIOUS
<1>3. t \in Seq(Marks) /\ s \in Seq(Marks) /\ i + Len(s) <= Len(t)
  <2>1. t \in Seq(Marks) /\ s \in Seq(Marks)
    BY MarksDiffer
  <2>2. Len(t) \in Nat
    OBVIOUS
  <2> QED
    BY <1>1, <2>1, <2>2
<1>4. v \in Seq(Marks) /\ Len(v) = Len(t) /\ Over(v, t, i, s)
  BY <1>2, <1>3, OverwriteIs
<1>5. PICK w : w = [t EXCEPT ![i + 1] = c]
  OBVIOUS
<1>6. w \in Seq(Chars) /\ Len(w) = Len(t) /\ \A k \in 1 .. Len(t) : w[k] = IF k = i + 1 THEN c ELSE t[k]
  BY <1>5
<1>7. \A k \in 1 .. Len(w) : v[k] = w[k]
  <2> SUFFICES ASSUME NEW k \in 1 .. Len(t) PROVE v[k] = w[k]
    BY <1>6
  <2>1. v[k] = IF i < k /\ k <= i + Len(s) THEN s[k - i] ELSE t[k]
    BY <1>4 DEF Over
  <2>2. (i < k /\ k <= i + Len(s)) <=> k = i + 1
    BY <1>1
  <2>3. k = i + 1 => k - i = 1
    OBVIOUS
  <2> QED
    BY <1>1, <1>6, <2>1, <2>2, <2>3
<1>8. v = w
  BY <1>4, <1>6, <1>7, SameText
<1> QED
  BY <1>1, <1>2, <1>5, <1>6, <1>8 DEF ReplaceAt

LEMMA MutateKeeps ==
  ASSUME StringsInv, NEW o \in Objects, NEW i \in Nat, NEW c \in Chars, Mutate(o, i, c)
  PROVE  StringsInv'
<1>1. PICK m : m = memory
  OBVIOUS
<1>2. PICK t : t = text[o]
  OBVIOUS
<1>3. /\ Sound(m) /\ o \in All /\ m.obj[o].type # "dead" /\ Data(m, o) = t
      /\ t \in Seq(Chars) /\ t \in Seq(Marks) /\ i < Len(t) /\ Len(t) \in Nat
  BY <1>1, <1>2, ReadableIs DEF Mutate
<1>4. PICK g : g = GetMutable(m, o)
  OBVIOUS
<1>5. Effect(m, g, o) /\ Holds(g, o, t)
  BY <1>3, <1>4, MutableIs DEF Gives
<1>6. Sound(g) /\ Own(g, o) /\ Data(g, o) = t /\ GetSize(g, o) = Len(t)
  BY <1>5 DEF Effect, Holds
<1>7. PICK s \in Seq(Marks) : s = <<c>> /\ Len(s) = 1
  BY TextsOfChars, MarksDiffer
<1>8. PICK m2 : m2 = Write(g, o, i, s)
  OBVIOUS
<1>9. i + Len(s) <= GetSize(g, o)
  BY <1>3, <1>6, <1>7
<1>10. Effect(g, m2, o) /\ Holds(m2, o, Overwrite(Data(g, o), i, s))
  BY <1>3, <1>6, <1>8, <1>9, WriteIs
<1>11. PICK u \in Seq(Chars) : u = ReplaceAt(t, i + 1, c) /\ Overwrite(t, i, s) = u
  BY <1>3, <1>7, ReplacedIs
<1>12. Gives(m, m2, o, u)
  BY <1>5, <1>6, <1>10, <1>11, EffectsAdd DEF Gives
<1>13. Changes(o, m2, u)
  BY <1>1, <1>2, <1>4, <1>7, <1>8, <1>11 DEF Mutate
<1> QED
  BY ONLY StringsInv, o \in Objects, u \in Seq(Chars), <1>1, <1>12, <1>13, GivesKeeps

LEMMA EraseFromKeeps ==
  ASSUME StringsInv, NEW o \in Objects, NEW pos \in Nat, NEW len \in Nat, EraseFrom(o, pos, len)
  PROVE  StringsInv'
<1>1. PICK m : m = memory
  OBVIOUS
<1>2. PICK t : t = text[o]
  OBVIOUS
<1>3. /\ Sound(m) /\ o \in All /\ m.obj[o].type # "dead" /\ Data(m, o) = t
      /\ t \in Seq(Chars) /\ GetSize(m, o) = Len(t) /\ Len(t) \in Nat /\ pos + len <= Len(t)
  BY <1>1, <1>2, ReadableIs DEF EraseFrom
<1>4. PICK m2 : m2 = Erase(m, o, pos, len)
  OBVIOUS
<1>5. pos + len \in Nat /\ pos <= Len(t) /\ Len(t) <= Len(t) /\ pos + len <= GetSize(m, o)
  BY <1>3
<1>6. Gives(m, m2, o, SubSeq(t, 1, pos) \o SubSeq(t, pos + len + 1, Len(t)))
  BY <1>3, <1>4, <1>5, EraseIs
<1>7. SubSeq(t, 1, pos) \in Seq(Chars) /\ SubSeq(t, (pos + len) + 1, Len(t)) \in Seq(Chars)
  BY <1>3, <1>5, TextsOfChars
<1>8. PICK u \in Seq(Chars) : u = SubSeq(t, 1, pos) \o SubSeq(t, pos + len + 1, Len(t))
  BY <1>7, TextsOfChars
<1>9. Changes(o, m2, u)
  BY <1>1, <1>2, <1>4, <1>8 DEF EraseFrom
<1>10. Gives(m, m2, o, u)
  BY <1>6, <1>8
<1> QED
  BY ONLY StringsInv, o \in Objects, u \in Seq(Chars), <1>1, <1>9, <1>10, GivesKeeps

\* A text between the characters of another.
LEMMA InsertedType ==
  ASSUME NEW t \in Seq(Chars), NEW pos \in Nat, pos <= Len(t), NEW s \in Seq(Chars)
  PROVE  SubSeq(t, 1, pos) \o s \o SubSeq(t, pos + 1, Len(t)) \in Seq(Chars)
<1>1. Len(t) \in Nat /\ Len(t) <= Len(t)
  OBVIOUS
<1>2. SubSeq(t, 1, pos) \in Seq(Chars) /\ SubSeq(t, pos + 1, Len(t)) \in Seq(Chars)
  BY <1>1, TextsOfChars
<1> QED
  BY <1>2, TextsOfChars

LEMMA InsertCharsKeeps ==
  ASSUME StringsInv, NEW o \in Objects, NEW pos \in Nat, NEW n \in Nat, NEW c \in Chars,
         InsertChars(o, pos, n, c)
  PROVE  StringsInv'
<1>1. PICK m : m = memory
  OBVIOUS
<1>2. PICK t : t = text[o]
  OBVIOUS
<1>3. /\ Sound(m) /\ o \in All /\ m.obj[o].type # "dead" /\ Data(m, o) = t
      /\ t \in Seq(Chars) /\ GetSize(m, o) = Len(t) /\ pos <= Len(t)
  BY <1>1, <1>2, ReadableIs DEF InsertChars
<1>4. PICK m2 : m2 = InsertFill(m, o, pos, n, c)
  OBVIOUS
<1>5. pos <= GetSize(m, o)
  BY <1>3
<1>6. Gives(m, m2, o, SubSeq(t, 1, pos) \o Fill(c, n) \o SubSeq(t, pos + 1, Len(t)))
  BY <1>3, <1>4, <1>5, InsertFillIs
<1>7. PICK u \in Seq(Chars) : u = SubSeq(t, 1, pos) \o Fill(c, n) \o SubSeq(t, pos + 1, Len(t))
  BY <1>3, FillIs, InsertedType
<1>8. Changes(o, m2, u)
  BY <1>1, <1>2, <1>4, <1>7 DEF InsertChars, Inserted
<1>9. Gives(m, m2, o, u)
  BY <1>6, <1>7
<1> QED
  BY ONLY StringsInv, o \in Objects, u \in Seq(Chars), <1>1, <1>8, <1>9, GivesKeeps

\* Characters of o's own text are appended to it.
LEMMA InsideAppended ==
  ASSUME StringsInv, NEW o \in Objects, Readable(o), NEW m, m = memory, Own(m, o), NEW t, t = text[o],
         NEW i \in Nat, NEW n \in Nat, i + n <= Len(t), NEW w, w = t \o SubSeq(t, i + 1, i + n),
         NEW m2, m2 = AppendN(m, o, GetDataPointer(m, o), i, n),
         Changes(o, m2, IF Moves(o, m2) THEN Lost ELSE w)
  PROVE  StringsInv'
<1>1. /\ Sound(m) /\ o \in All /\ m.obj[o].type # "dead" /\ Data(m, o) = t
      /\ t \in Seq(Chars) /\ Len(t) \in Nat
  BY ReadableIs
<1>2. Holds(m, o, t)
  BY OwnTextIs
<1>3. PICK ptr \in Pointers : ptr = GetDataPointer(m, o)
  BY <1>1, PointerIs DEF Sound
<1>4. PICK e \in Seq(Chars) : e = SubSeq(t, i + 1, i + n)
  BY <1>1, CharsPartIs
<1>5. w = t \o e /\ w \in Seq(Chars)
  BY <1>1, <1>4, TextsOfChars
<1>6. Moves(o, m2) <=> GetDataPointer(m2, o) # ptr
  BY <1>3, MovesIs
<1>7. CASE n = 0
  <2>1. m2 = m
    BY <1>7 DEF AppendN
  <2>2. e = <<>> /\ t \o <<>> = t
    BY <1>1, <1>4, <1>7, NoCharacters
  <2>3. Has(m, m2, o, w)
    BY <1>1, <1>5, <2>1, <2>2 DEF Has
  <2>4. Changes(o, m2, w)
    BY <1>3, <1>6, <2>1
  <2> QED
    BY ONLY StringsInv, o \in Objects, Readable(o), m = memory, <1>5, <2>3, <2>4, HasKeeps
<1>8. CASE n # 0 /\ GetDataPointer(m2, o) = ptr
  <2>1. n \in Nat \ {0} /\ Sound(m) /\ o \in All
    BY <1>1, <1>8
  <2>2. Gives(m, m2, o, w)
    BY <1>2, <1>3, <1>4, <1>5, <1>8, <2>1, SelfAppendIs
  <2>3. Changes(o, m2, w)
    BY <1>6, <1>8
  <2> QED
    BY ONLY StringsInv, o \in Objects, m = memory, <1>5, <2>2, <2>3, GivesKeeps
<1>9. CASE n # 0 /\ GetDataPointer(m2, o) # ptr
  <2>1. n \in Nat \ {0}
    BY <1>9
  <2>2. Effect(m, m2, o) /\ Own(m2, o)
    BY <1>1, <1>3, <2>1, AppendEffect
  <2>3. Changes(o, m2, Lost)
    BY <1>6, <1>9
  <2> QED
    BY ONLY StringsInv, o \in Objects, m = memory, <2>2, <2>3, LostKeeps
<1> QED
  BY <1>7, <1>8, <1>9

LEMMA AppendInsideKeeps ==
  ASSUME StringsInv, NEW o \in Objects, NEW i \in Nat, NEW n \in Nat, AppendInside(o, i, n)
  PROVE  StringsInv'
<1>1. PICK m : m = memory
  OBVIOUS
<1>2. PICK t : t = text[o]
  OBVIOUS
<1>3. /\ Sound(m) /\ o \in All /\ m.obj[o].type # "dead" /\ Data(m, o) = t
      /\ t \in Seq(Chars) /\ t \in Seq(Marks) /\ Len(t) \in Nat /\ i + n <= Len(t) /\ Readable(o)
  BY <1>1, <1>2, ReadableIs DEF AppendInside
<1>4. PICK m2 : m2 = AppendN(m, o, GetDataPointer(m, o), i, n)
  OBVIOUS
<1>5. PICK e \in Seq(Chars) : e = SubSeq(t, i + 1, i + n)
  BY <1>3, CharsPartIs
<1>6. PICK w \in Seq(Chars) : w = t \o e
  BY <1>3, TextsOfChars
<1>7. Changes(o, m2, IF Moves(o, m2) THEN Lost ELSE w)
  BY <1>1, <1>2, <1>4, <1>5, <1>6 DEF AppendInside
<1>8. CASE Own(m, o)
  <2>1. w = t \o SubSeq(t, i + 1, i + n)
    BY <1>5, <1>6
  <2> QED
    BY ONLY StringsInv, o \in Objects, i \in Nat, n \in Nat, <1>1, <1>2, <1>3, <1>4, <1>7, <1>8, <2>1,
            InsideAppended
<1>9. CASE ~Own(m, o)
  <2>1. Changes(o, m2, w)
    BY <1>1, <1>7, <1>9, MovesIs
  <2>2. PICK ptr : ptr = GetDataPointer(m, o)
    OBVIOUS
  <2>3. Away(m, o, ptr)
    BY <1>1, <1>3, <1>9, <2>2, NotOwnIsAway
  <2>4. Bytes(m, ptr, i, n) = e
    <3>1. /\ Sound(m) /\ o \in All /\ m.obj[o].type # "dead"
          /\ t \in Seq(Marks) /\ Data(m, o) = t /\ i + n <= Len(t)
      BY <1>3
    <3>2. ReadsOf(m, o, t)
      BY <3>1, ReadsAre
    <3> QED
      BY <1>5, <2>2, <3>1, <3>2 DEF ReadsOf
  <2>5. Has(m, m2, o, w)
    <3>1. CASE n = 0
      <4>1. m2 = m
        BY <1>4, <3>1 DEF AppendN
      <4>2. e = <<>> /\ t \o <<>> = t
        BY <1>3, <1>5, <3>1, NoCharacters
      <4> QED
        BY <1>3, <1>6, <4>1, <4>2 DEF Has
    <3>2. CASE n # 0
      <4>1. n \in Nat \ {0} /\ m2 = AppendN(m, o, ptr, i, n)
        BY <1>4, <2>2, <3>2
      <4>2. Gives(m, m2, o, Data(m, o) \o Bytes(m, ptr, i, n))
        BY <1>3, <2>3, <4>1, AppendIs
      <4> QED
        BY <1>3, <1>6, <2>4, <4>2 DEF Has
    <3> QED
      BY <3>1, <3>2
  <2> QED
    BY ONLY StringsInv, o \in Objects, w \in Seq(Chars), <1>1, <1>3, <2>1, <2>5, HasKeeps
<1> QED
  BY <1>8, <1>9

LEMMA AppendToKeeps ==
  ASSUME StringsInv, NEW o \in Objects, NEW s \in Objects, AppendTo(o, s)
  PROVE  StringsInv'
<1>1. PICK m : m = memory
  OBVIOUS
<1>2. PICK t : t = text[o]
  OBVIOUS
<1>3. PICK u : u = text[s]
  OBVIOUS
<1>4. Readable(o) /\ Readable(s)
  BY DEF AppendTo
<1>5. /\ Sound(m) /\ o \in All /\ m.obj[o].type # "dead" /\ Data(m, o) = t
      /\ t \in Seq(Chars) /\ t \in Seq(Marks) /\ GetSize(m, o) = Len(t) /\ Len(t) \in Nat
  BY <1>1, <1>2, <1>4, ReadableIs
<1>6. /\ s \in All /\ m.obj[s].type # "dead" /\ Data(m, s) = u /\ u \in Seq(Chars)
      /\ GetSize(m, s) = Len(u) /\ Len(u) \in Nat
  BY <1>1, <1>3, <1>4, ReadableIs
<1>7. PICK m2 : m2 = AppendString(m, o, s)
  OBVIOUS
<1>8. PICK w \in Seq(Chars) : w = t \o u
  BY <1>5, <1>6, TextsOfChars
<1>9. Changes(o, m2, IF Aliases(o, s) /\ Moves(o, m2) THEN Lost ELSE w)
  BY <1>1, <1>2, <1>3, <1>7, <1>8 DEF AppendTo
<1>10. m2 = AppendN(m, o, GetDataPointer(m, s), 0, Len(u)) /\ 0 \in Nat
  BY <1>6, <1>7 DEF AppendString
<1>11. ASSUME Away(m, o, GetDataPointer(m, s)), Changes(o, m2, w) PROVE StringsInv'
  <2>1. Has(m, m2, o, Data(m, o) \o Data(m, s))
    BY <1>5, <1>6, <1>7, <1>11, AppendStringIs
  <2>2. Has(m, m2, o, w)
    BY <1>5, <1>6, <1>8, <2>1
  <2> QED
    BY ONLY StringsInv, o \in Objects, w \in Seq(Chars), <1>1, <1>4, <1>11, <2>2, HasKeeps
<1>12. ASSUME Own(m, o), Aliases(o, s), GetDataPointer(m, s) = GetDataPointer(m, o), Len(u) <= Len(t),
              SubSeq(t, 1, Len(u)) = u
       PROVE  StringsInv'
  <2>1. PICK n \in Nat : n = Len(u)
    BY <1>6
  <2>2. m2 = AppendN(m, o, GetDataPointer(m, o), 0, n)
    BY <1>10, <1>12, <2>1
  <2>3. 0 + n <= Len(t) /\ w = t \o SubSeq(t, 0 + 1, 0 + n)
    BY <1>8, <1>12, <2>1
  <2>4. Changes(o, m2, IF Moves(o, m2) THEN Lost ELSE w)
    BY <1>9, <1>12
  <2> QED
    BY ONLY StringsInv, o \in Objects, n \in Nat, <1>1, <1>2, <1>4, <1>10, <1>12, <2>2, <2>3, <2>4,
            InsideAppended
<1>13. CASE ~Aliases(o, s)
  <2>1. PICK c : c = from[s]
    OBVIOUS
  <2>2. Shows(m, s, c, u) /\ c # o /\ s # o
    BY <1>1, <1>3, <1>4, <1>13, <2>1, ReadableIs DEF Aliases
  <2>3. Away(m, o, GetDataPointer(m, s))
    BY <1>5, <1>6, <2>2, ShownIsAway
  <2> QED
    BY <1>9, <1>11, <1>13, <2>3
<1>14. CASE s = o /\ ~Own(m, o)
  <2>1. Away(m, o, GetDataPointer(m, s))
    BY <1>1, <1>4, <1>14, NotOwnIsAway
  <2>2. Changes(o, m2, w)
    BY <1>1, <1>9, <1>14, MovesIs
  <2> QED
    BY <1>11, <2>1, <2>2
<1>15. CASE s = o /\ Own(m, o)
  <2>1. u = t /\ SubSeq(t, 1, Len(t)) = t /\ Len(t) <= Len(t)
    BY <1>2, <1>3, <1>5, <1>15, CutAll
  <2> QED
    BY <1>12, <1>15, <2>1 DEF Aliases
<1>16. CASE from[s] = o
  <2>1. s \in All /\ m.obj[s].type = "view" /\ Own(m, o) /\ Shows(m, s, o, u)
    BY <1>1, <1>3, <1>4, <1>16, OwnViewIs
  <2>2. Holds(m, o, t)
    BY <1>1, <1>2, <1>4, <2>1, OwnTextIs
  <2>3. GetDataPointer(m, s) = GetDataPointer(m, o) /\ Len(u) <= Len(t)
    BY <1>5, <1>6, <2>1, <2>2, ViewOfOwn
  <2>4. PICK n \in Nat : n = Len(u) /\ n <= Len(t) /\ 0 + n <= Len(t)
    BY <1>5, <1>6, <2>3
  <2>5. Bytes(m, GetDataPointer(m, o), 0, n) = SubSeq(t, 0 + 1, 0 + n)
    <3>1. Sound(m) /\ o \in All /\ Holds(m, o, t) /\ 0 \in Nat /\ 0 + n <= Len(t)
      BY <1>5, <2>2, <2>4
    <3> QED
      BY ONLY n \in Nat, <3>1, OwnBytes
  <2>6. SubSeq(t, 1, Len(u)) = u
    BY <1>6, <2>3, <2>4, <2>5 DEF Data
  <2> QED
    BY <1>12, <1>16, <2>1, <2>3, <2>6 DEF Aliases
<1> QED
  BY <1>13, <1>14, <1>15, <1>16 DEF Aliases

LEMMA InsertStringKeeps ==
  ASSUME StringsInv, NEW o \in Objects, NEW pos \in Nat, NEW s \in Objects,
         NEW subpos \in Nat, NEW sublen \in Nat, InsertString(o, pos, s, subpos, sublen)
  PROVE  StringsInv'
<1>1. PICK m : m = memory
  OBVIOUS
<1>2. PICK t : t = text[o]
  OBVIOUS
<1>3. PICK u : u = text[s]
  OBVIOUS
<1>4. Readable(o) /\ Readable(s) /\ pos <= Len(t) /\ subpos + sublen <= Len(u)
  BY <1>2, <1>3 DEF InsertString
<1>5. /\ Sound(m) /\ o \in All /\ m.obj[o].type # "dead" /\ Data(m, o) = t
      /\ t \in Seq(Chars) /\ GetSize(m, o) = Len(t) /\ Len(t) \in Nat
  BY <1>1, <1>2, <1>4, ReadableIs
<1>6. /\ s \in All /\ m.obj[s].type # "dead" /\ Data(m, s) = u /\ u \in Seq(Chars)
      /\ GetSize(m, s) = Len(u) /\ Len(u) \in Nat
  BY <1>1, <1>3, <1>4, ReadableIs
<1>7. PICK m2 : m2 = Insert(m, o, pos, s, subpos, sublen)
  OBVIOUS
<1>8. subpos + sublen \in Nat /\ pos <= GetSize(m, o) /\ subpos + sublen <= GetSize(m, s)
  BY <1>4, <1>5, <1>6
<1>9. PICK b \in Seq(Chars) : b = SubSeq(u, subpos + 1, subpos + sublen) /\ b \in Seq(Marks)
  BY <1>4, <1>6, <1>8, TextsOfChars, MarksDiffer
<1>10. PICK w \in Seq(Chars) : w = SubSeq(t, 1, pos) \o b \o SubSeq(t, pos + 1, Len(t))
  BY <1>4, <1>5, InsertedType
<1>11. Changes(o, m2, IF Aliases(o, s) /\ sublen > 0 /\ (subpos > pos \/ (o # s /\ Moves(o, m2)))
                      THEN Lost ELSE w)
  BY <1>1, <1>2, <1>3, <1>7, <1>9, <1>10 DEF InsertString, Inserted
<1>12. Bytes(m, GetDataPointer(m, s), subpos, sublen) = b
  <2>1. u \in Seq(Marks) /\ subpos + sublen <= Len(u)
    BY <1>4, <1>6, MarksDiffer
  <2>2. Sound(m) /\ s \in All /\ m.obj[s].type # "dead" /\ Data(m, s) = u
    BY <1>5, <1>6
  <2>3. Bytes(m, GetDataPointer(m, s), subpos, sublen) = SubSeq(u, subpos + 1, subpos + sublen)
    BY ONLY subpos \in Nat, sublen \in Nat, <2>1, <2>2, DataBytes
  <2> QED
    BY <1>9, <2>3
<1>13. PICK g : g = Open(m, o, pos, sublen)
  OBVIOUS
<1>14. /\ Effect(m, m2, o) /\ Own(m2, o) /\ Effect(m, g, o)
       /\ GetDataPointer(m2, o) = GetDataPointer(g, o)
  BY <1>5, <1>6, <1>7, <1>8, <1>13, InsertEffect
<1>15. ASSUME Gives(m, m2, o, w), Changes(o, m2, w) PROVE StringsInv'
  BY ONLY StringsInv, o \in Objects, w \in Seq(Chars), <1>1, <1>15, GivesKeeps
<1>16. ASSUME Changes(o, m2, Lost) PROVE StringsInv'
  BY ONLY StringsInv, o \in Objects, <1>1, <1>14, <1>16, LostKeeps
<1>17. ASSUME GetDataPointer(g, s) = GetDataPointer(g, o), sublen = 0 \/ subpos <= pos,
              subpos + sublen <= GetSize(m, o), b = SubSeq(t, subpos + 1, subpos + sublen)
       PROVE  Gives(m, m2, o, w)
  BY <1>5, <1>7, <1>8, <1>10, <1>13, <1>17, SelfInsertIs
<1>18. CASE ~Aliases(o, s)
  <2>1. PICK c : c = from[s]
    OBVIOUS
  <2>2. Shows(m, s, c, u) /\ c # o /\ s # o
    BY <1>1, <1>3, <1>4, <1>18, <2>1, ReadableIs DEF Aliases
  <2>3. Away(m, o, GetDataPointer(m, s)) /\ s \in All \ {o}
    BY <1>5, <1>6, <2>2, ShownIsAway
  <2>4. Gives(m, m2, o, w)
    BY <1>5, <1>6, <1>7, <1>8, <1>10, <1>12, <2>3, InsertIs
  <2> QED
    BY <1>11, <1>15, <1>18, <2>4
<1>19. CASE s = o /\ (sublen = 0 \/ subpos <= pos)
  <2>1. Gives(m, m2, o, w)
    BY <1>2, <1>3, <1>8, <1>9, <1>17, <1>19
  <2>2. ~(sublen > 0 /\ (subpos > pos \/ (o # s /\ Moves(o, m2))))
    BY <1>19
  <2> QED
    BY <1>11, <1>15, <2>1, <2>2
<1>20. CASE Aliases(o, s) /\ sublen # 0 /\ (~(subpos <= pos) \/ (o # s /\ Moves(o, m2)))
  <2>1. sublen > 0 /\ (subpos > pos \/ (o # s /\ Moves(o, m2)))
    BY <1>20
  <2> QED
    BY <1>11, <1>16, <1>20, <2>1
<1>21. CASE from[s] = o /\ (sublen = 0 \/ (subpos <= pos /\ ~Moves(o, m2)))
  <2>1. s \in All \ {o} /\ m.obj[s].type = "view" /\ Own(m, o) /\ Shows(m, s, o, u)
    BY <1>1, <1>3, <1>4, <1>21, OwnViewIs
  <2>2. Holds(m, o, t)
    BY <1>1, <1>2, <1>4, <2>1, OwnTextIs
  <2>3. GetDataPointer(m, s) = GetDataPointer(m, o) /\ Len(u) <= Len(t)
    BY <1>5, <1>6, <2>1, <2>2, ViewOfOwn
  <2>4. Changes(o, m2, w)
    BY <1>11, <1>21
  <2>5. subpos + sublen <= Len(t) /\ subpos + sublen <= GetSize(m, o)
    BY <1>4, <1>5, <1>6, <1>8, <2>3
  <2>6. GetDataPointer(g, s) = GetDataPointer(m, s)
    BY <1>14, <2>1 DEF Effect, Others, GetDataPointer
  <2>7. CASE sublen = 0
    <3>1. PICK ptr \in Pointers : ptr = GetDataPointer(g, s)
      BY <1>5, <1>6, <2>6, PointerIs DEF Sound
    <3>2. PICK e \in Seq(Marks) : e = Bytes(g, ptr, subpos, sublen) /\ Len(e) = sublen
      BY <1>14, BytesType DEF Effect, Sound
    <3>3. e = <<>>
      BY <2>7, <3>2
    <3>4. b = <<>>
      BY <1>6, <1>9, <2>7, NoCharacters
    <3>5. Gives(m, m2, o, SubSeq(t, 1, pos) \o e \o SubSeq(t, pos + 1, Len(t)))
      <4>1. Sound(m) /\ o \in All /\ m.obj[o].type # "dead" /\ t = Data(m, o) /\ pos <= GetSize(m, o)
        BY <1>5, <1>8
      <4>2. e \in Seq(Marks) /\ Len(e) = sublen /\ Bytes(g, GetDataPointer(g, s), subpos, sublen) = e
        BY <3>1, <3>2
      <4> QED
        BY ONLY pos \in Nat, sublen \in Nat, <1>7, <1>13, <4>1, <4>2, InsertGives
    <3>6. Gives(m, m2, o, w)
      BY <1>10, <3>3, <3>4, <3>5
    <3> QED
      BY <1>15, <2>4, <3>6
  <2>8. CASE sublen # 0
    <3>1. GetDataPointer(g, o) = GetDataPointer(m, o)
      BY <1>1, <1>14, <1>21, <2>1, <2>8, MovesIs
    <3>2. b = SubSeq(t, subpos + 1, subpos + sublen)
      <4>1. Bytes(m, GetDataPointer(m, o), subpos, sublen) = SubSeq(t, subpos + 1, subpos + sublen)
        <5>1. Sound(m) /\ o \in All /\ Holds(m, o, t) /\ subpos + sublen <= Len(t)
          BY <1>5, <2>2, <2>5
        <5> QED
          BY ONLY subpos \in Nat, sublen \in Nat, <5>1, OwnBytes
      <4> QED
        BY <1>12, <2>3, <4>1
    <3>3. Gives(m, m2, o, w)
      BY <1>17, <1>21, <2>3, <2>5, <2>6, <2>8, <3>1, <3>2
    <3> QED
      BY <1>15, <2>4, <3>3
  <2> QED
    BY <2>7, <2>8
<1> QED
  BY <1>18, <1>19, <1>20, <1>21 DEF Aliases

LEMMA SwapStringsKeeps ==
  ASSUME StringsInv, NEW o \in Objects, NEW s \in Objects, SwapStrings(o, s)
  PROVE  StringsInv'
<1>1. PICK m : m = memory
  OBVIOUS
<1>2. PICK t : t = text[o]
  OBVIOUS
<1>3. PICK u : u = text[s]
  OBVIOUS
<1>4. PICK b : b = from[o]
  OBVIOUS
<1>5. PICK c : c = from[s]
  OBVIOUS
<1>6. Readable(o) /\ Readable(s) /\ c # o /\ b # s
  BY <1>4, <1>5 DEF SwapStrings, Argument
<1>7. /\ Sound(m) /\ o \in All /\ m.obj[o].type # "dead" /\ Shows(m, o, b, t) /\ t \in Seq(Chars)
      /\ b \in Objects \cup {NoObject} /\ b # o
  BY <1>1, <1>2, <1>4, <1>6, ReadableIs
<1>8. /\ s \in All /\ m.obj[s].type # "dead" /\ Shows(m, s, c, u) /\ u \in Seq(Chars)
      /\ c \in Objects \cup {NoObject} /\ c # s
  BY <1>1, <1>3, <1>5, <1>6, ReadableIs
<1>9. PICK m2 : m2 = Swap(m, o, s)
  OBVIOUS
<1>10. /\ Sound(m2) /\ Others(m, m2, {o, s}) /\ m2.heap = m.heap
       /\ m2.obj[o] = m.obj[s] /\ m2.obj[s] = m.obj[o]
  BY <1>7, <1>8, <1>9, SwapIs
<1>11. Call(m2, {o, s}, Sets(from, o, c, s, b), Sets(text, o, u, s, t))
  BY <1>1, <1>2, <1>3, <1>4, <1>5, <1>9 DEF SwapStrings, Sets
<1>12. PICK C : C = {o, s}
  OBVIOUS
<1>13. Others(m, m2, C) /\ b \notin C /\ c \notin C
  BY <1>6, <1>7, <1>8, <1>10, <1>12
<1>14. Shows(m2, o, c, u)
  BY <1>6, <1>7, <1>8, <1>10, <1>13, Carried
<1>15. Shows(m2, s, b, t)
  BY <1>6, <1>7, <1>8, <1>10, <1>13, Carried
<1>16. Settled(m2, o, c, u) /\ Settled(m2, s, b, t)
  BY <1>7, <1>8, <1>10, <1>14, <1>15, MarksDiffer DEF Settled
<1>17. t \in Seq(Chars) \cup {Dead, Lost} /\ u \in Seq(Chars) \cup {Dead, Lost}
  BY <1>7, <1>8
<1>18. CASE o # s
  <2>1. Others(memory, m2, {o, s}) /\ Sound(m2)
    BY <1>1, <1>10
  <2> QED
    BY ONLY StringsInv, o \in Objects, s \in Objects, <1>7, <1>8, <1>11, <1>16, <1>17, <1>18, <2>1, PairKeeps
<1>19. CASE o = s
  <2>1. text \in TheTexts /\ from \in TheBases
    BY DEF StringsInv, Strings
  <2>2. Sets(from, o, c, s, b) = [from EXCEPT ![o] = b] /\ Sets(text, o, u, s, t) = [text EXCEPT ![o] = t]
    BY <1>19, <2>1 DEF Sets, TheTexts, TheBases
  <2>3. {o, s} = {o}
    BY <1>19
  <2>4. Replaces(o, m2, b, t)
    BY <1>11, <2>2, <2>3 DEF Replaces
  <2>5. Effect(memory, m2, o) /\ Settled(m2, o, b, t)
    BY <1>1, <1>10, <1>16, <1>19, <2>3 DEF Effect
  <2> QED
    BY ONLY StringsInv, o \in Objects, <1>7, <1>17, <2>4, <2>5, ReplacesKeeps
<1> QED
  BY <1>18, <1>19

LEMMA ConcatenateKeeps ==
  ASSUME StringsInv, NEW o \in Objects, NEW a \in Objects, NEW b \in Objects, Concatenate(o, a, b)
  PROVE  StringsInv'
<1>1. PICK m : m = memory
  OBVIOUS
<1>2. PICK t : t = text[a]
  OBVIOUS
<1>3. PICK u : u = text[b]
  OBVIOUS
<1>4. PICK c : c = from[a]
  OBVIOUS
<1>5. PICK d : d = from[b]
  OBVIOUS
<1>6. Readable(a) /\ Readable(b)
  BY DEF Concatenate
<1>7. /\ Sound(m) /\ m.obj[Temporary] = Gone /\ m.obj[o].type # "dead"
  BY <1>1, ExistsIs DEF Concatenate
<1>8. m.obj[a].type # "dead" /\ Shows(m, a, c, t) /\ t \in Seq(Chars) /\ c # Temporary
  BY <1>1, <1>2, <1>4, <1>6, ReadableIs
<1>9. m.obj[b].type # "dead" /\ Shows(m, b, d, u) /\ u \in Seq(Chars) /\ d # Temporary
  BY <1>1, <1>3, <1>5, <1>6, ReadableIs
<1>10. PICK m2 : m2 = Plus(m, o, a, b)
  OBVIOUS
<1>11. Gives(m, m2, o, t \o u)
  BY <1>7, <1>8, <1>9, <1>10, PlusIs
<1>12. PICK w \in Seq(Chars) : w = t \o u
  BY <1>8, <1>9, TextsOfChars
<1>13. Changes(o, m2, w)
  BY <1>1, <1>2, <1>3, <1>10, <1>12 DEF Concatenate
<1>14. Gives(m, m2, o, w)
  BY <1>11, <1>12
<1> QED
  BY ONLY StringsInv, o \in Objects, w \in Seq(Chars), <1>1, <1>13, <1>14, GivesKeeps

-----------------------------------------------------------------------------
(* tstring: the theorems.                                                   *)

LEMMA StringsInit ==
  ASSUME Init PROVE StringsInv
<1>1. PICK m : m = memory
  OBVIOUS
<1>2. m.obj = obj /\ m.heap = heap /\ m = [obj |-> m.obj, heap |-> m.heap]
  BY <1>1 DEF memory
<1>3. obj \in [All -> {Gone} \cup {Offset(t) : t \in Texts}] /\ obj[Temporary] = Gone
  BY DEF Init, All
<1>4. m.obj \in [All -> Representations]
  BY <1>2, <1>3, Made DEF Representations, Offsets
<1>5. m.heap = [b \in Buffers |-> <<>>] /\ m.heap \in [Buffers -> Seq(Marks)]
  BY <1>2, EmptyIs DEF Init
<1>6. \A o \in All : m.obj[o].type \notin {"small", "large", "view"}
  <2> SUFFICES ASSUME NEW o \in All PROVE m.obj[o].type \notin {"small", "large", "view"}
    OBVIOUS
  <2>1. CASE obj[o] = Gone
    BY <1>2, <2>1, Made
  <2>2. CASE \E t \in Texts : obj[o] = Offset(t)
    BY <1>2, <2>2 DEF Offset
  <2> QED
    BY <1>3, <2>1, <2>2
<1>7. Sound(m)
  <2>1. MemoryType(m)
    BY <1>2, <1>4, <1>5 DEF MemoryType
  <2>2. Ends(m) /\ Owned(m)
    BY <1>5, <1>6 DEF Ends, Owned, IsLarge
  <2> QED
    BY <2>1, <2>2 DEF Sound
<1>8. \A o \in Objects : /\ from[o] = NoObject
                         /\ text[o] = IF obj[o] = Gone THEN Dead ELSE IF Misread(o) THEN Lost ELSE obj[o].ptr
  BY DEF Init
<1>9. from \in TheBases
  BY DEF Init, TheBases
<1>10. ASSUME NEW o \in Objects
       PROVE  /\ text[o] \in Seq(Chars) \cup {Dead, Lost}
              /\ text[o] = Dead <=> m.obj[o].type = "dead"
              /\ from[o] # NoObject => m.obj[o].type = "view"
              /\ text[o] \notin {Dead, Lost} => Shows(m, o, from[o], text[o])
  <2>0. o \in All
    BY AllIs
  <2>1. CASE obj[o] = Gone
    BY <1>2, <1>8, <1>10, <2>1, Made
  <2>2. CASE obj[o] # Gone
    <3>1. PICK t \in Texts : obj[o] = Offset(t)
      BY <1>3, <2>0, <2>2
    <3>2. obj[o].type = "offset" /\ obj[o].ptr = t
      BY <3>1 DEF Offset
    <3>3. t \in Seq(Chars) /\ t \notin {Dead, Lost} /\ t \in Seq(Marks)
      BY PointersAssumption, MarksDiffer
    <3>4. CASE Misread(o)
      <4>1. text[o] = Lost
        BY <1>8, <2>2, <3>4
      <4> QED
        BY <1>2, <1>8, <3>2, <4>1, MarksDiffer
    <3>5. CASE ~Misread(o)
      <4>1. text[o] = t
        BY <1>8, <2>2, <3>2, <3>5
      <4>2. PICK n \in Nat : n = Len(t) /\ n <= Len(t)
        BY <3>3
      <4>3. GetSize(m, o) = n
        BY <1>1, <3>2, <3>5, <4>2 DEF Misread
      <4>4. Bytes(m, t, 0, n) = SubSeq(t, 1, n)
        BY <1>7, <4>2, TextBytes DEF Sound
      <4>5. SubSeq(t, 1, n) = t
        BY <3>3, <4>2, CutAll
      <4>6. Data(m, o) = t
        BY <1>2, <3>2, <4>3, <4>4, <4>5 DEF Data, GetDataPointer
      <4> QED
        BY <1>2, <1>8, <3>2, <3>3, <4>1, <4>6 DEF Shows
    <3> QED
      BY <3>4, <3>5
  <2> QED
    BY <2>1, <2>2
<1>11. text \in TheTexts
  BY <1>10 DEF Init, TheTexts
<1>12. Known(m, text, from)
  BY <1>10 DEF Known
<1>13. m.obj[Temporary] = Gone
  BY <1>2, <1>3
<1> QED
  BY <1>1, <1>7, <1>9, <1>11, <1>12, <1>13 DEF StringsInv, Strings

LEMMA StringsStep ==
  ASSUME StringsInv, [Next]_vars PROVE StringsInv'
<1>1. CASE UNCHANGED vars
  BY <1>1 DEF vars, StringsInv, memory
<1>2. Sizes \subseteq Nat /\ Reserves \subseteq Nat
  BY SizesAssumption DEF Sizes
<1>3. ASSUME NEW o \in Objects, Assignments(o) PROVE StringsInv'
  <2>1. ASSUME NEW t \in Texts, AssignText(o, t) PROVE StringsInv'
    BY <2>1, AssignTextKeeps
  <2>2. ASSUME NEW t \in Texts, NEW n \in 0 .. Len(t), ViewText(o, t, n) PROVE StringsInv'
    BY <2>2, ViewTextKeeps
  <2>3. ASSUME NEW s \in Objects, AssignString(o, s) PROVE StringsInv'
    BY <2>3, AssignStringKeeps
  <2>4. ASSUME NEW s \in Objects, MoveString(o, s) PROVE StringsInv'
    BY <2>4, MoveStringKeeps
  <2>5. ASSUME NEW s \in Objects, ViewString(o, s) PROVE StringsInv'
    BY <2>5, ViewStringKeeps
  <2>6. ASSUME NEW c \in Chars, AssignChar(o, c) PROVE StringsInv'
    BY <2>6, AssignCharKeeps
  <2>7. ASSUME NEW c \in Chars, NEW n \in Sizes, ConstructFill(o, n, c) PROVE StringsInv'
    BY <1>2, <2>7, ConstructFillKeeps
  <2>8. ASSUME NEW a \in Objects, NEW b \in Objects, Concatenate(o, a, b) PROVE StringsInv'
    BY <2>8, ConcatenateKeeps
  <2>9. ASSUME NEW i \in Sizes, NEW n \in Sizes, AssignInside(o, i, n) PROVE StringsInv'
    BY <1>2, <2>9, AssignInsideKeeps
  <2> QED
    BY <1>3, <2>1, <2>2, <2>3, <2>4, <2>5, <2>6, <2>7, <2>8, <2>9 DEF Assignments
<1>4. ASSUME NEW o \in Objects, Modifiers(o) PROVE StringsInv'
  <2>1. ASSUME NEW n \in Sizes, Shorten(o, n) PROVE StringsInv'
    BY <1>2, <2>1, ShortenKeeps
  <2>2. ASSUME NEW n \in Sizes, NEW c \in Chars, ResizeString(o, n, c) PROVE StringsInv'
    BY <1>2, <2>2, ResizeStringKeeps
  <2>3. ASSUME NEW n \in Reserves, ReserveString(o, n) PROVE StringsInv'
    BY <1>2, <2>3, ReserveStringKeeps
  <2>4. ASSUME NEW i \in Sizes, NEW c \in Chars, Mutate(o, i, c) PROVE StringsInv'
    BY <1>2, <2>4, MutateKeeps
  <2>5. ASSUME NEW pos \in Sizes, NEW n \in Sizes, EraseFrom(o, pos, n) PROVE StringsInv'
    BY <1>2, <2>5, EraseFromKeeps
  <2>6. ASSUME NEW pos \in Sizes, NEW n \in Sizes, NEW c \in Chars, InsertChars(o, pos, n, c)
        PROVE  StringsInv'
    BY <1>2, <2>6, InsertCharsKeeps
  <2>7. ASSUME NEW s \in Objects, AppendTo(o, s) PROVE StringsInv'
    BY <2>7, AppendToKeeps
  <2>8. ASSUME NEW s \in Objects, SwapStrings(o, s) PROVE StringsInv'
    BY <2>8, SwapStringsKeeps
  <2>9. ASSUME NEW s \in Objects, NEW pos \in Sizes, NEW subpos \in Sizes, NEW sublen \in Sizes,
               InsertString(o, pos, s, subpos, sublen)
        PROVE  StringsInv'
    BY <1>2, <2>9, InsertStringKeeps
  <2>10. ASSUME NEW i \in Sizes, NEW n \in Sizes, AppendInside(o, i, n) PROVE StringsInv'
    BY <1>2, <2>10, AppendInsideKeeps
  <2> QED
    BY <1>4, <2>1, <2>2, <2>3, <2>4, <2>5, <2>6, <2>7, <2>8, <2>9, <2>10 DEF Modifiers
<1> QED
  BY <1>1, <1>3, <1>4, DestroyKeeps DEF Next

\* After any sequence of calls memory is sound, what can be read shows its text,
\* and a view points to an array or to the characters of the object whose view
\* it is known to be.
THEOREM StringsInvariance == Spec => []StringsInv
<1>1. Init => StringsInv
  BY StringsInit
<1>2. StringsInv /\ [Next]_vars => StringsInv'
  BY StringsStep
<1> QED
  BY <1>1, <1>2, PTL DEF Spec

LEMMA HeapHolds ==
  ASSUME StringsInv PROVE HeapInv
<1>1. PICK m : m = memory
  OBVIOUS
<1>2. m.obj = obj /\ m.heap = heap
  BY <1>1 DEF memory
<1>3. /\ Sound(m) /\ obj[Temporary] = Gone /\ text \in TheTexts /\ from \in TheBases
      /\ Known(m, text, from)
  BY <1>1, <1>2 DEF StringsInv, Strings
<1>4. obj \in [All -> Representations] /\ heap \in [Buffers -> Seq(Marks)]
  BY <1>2, <1>3 DEF Sound, MemoryType
<1>5. TypeOK
  BY <1>2, <1>3, <1>4 DEF TypeOK, Known, Exists, TheTexts, Marks, All
<1>6. ASSUME NEW b \in Buffers
      PROVE  /\ Cardinality(Owners(b)) = (IF heap[b] = <<>> THEN 0 ELSE 1)
             /\ \A o \in Owners(b) : Len(heap[b]) = obj[o].cap + 1
  <2>1. \A o \in Owners(b) : o \in All /\ o \in Objects /\ IsLarge(m, o) /\ m.obj[o].ptr = b
    BY <1>2, AllIs DEF Owners, IsLarge
  <2>2. \A o \in Owners(b) : Len(heap[b]) = obj[o].cap + 1
    BY <1>2, <1>3, <2>1 DEF Sound, Ends
  <2>3. \A o \in Owners(b) : obj[o].cap \in Nat
    BY <1>2, <1>3, <2>1, LargePointer DEF Sound
  <2>4. CASE heap[b] = <<>>
    <3>1. Owners(b) = {}
      BY <2>2, <2>3, <2>4
    <3> QED
      BY <2>2, <2>4, <3>1, FS_EmptySet
  <2>5. CASE heap[b] # <<>>
    <3>1. PICK o \in All : IsLarge(m, o) /\ m.obj[o].ptr = b
      BY <1>2, <1>3, <2>5 DEF Sound, Owned
    <3>2. o # Temporary
      BY <1>2, <1>3, <3>1, Made DEF IsLarge
    <3>3. o \in Owners(b)
      BY <1>2, <3>1, <3>2 DEF Owners, IsLarge, All
    <3>4. Owners(b) = {o}
      BY <1>3, <2>1, <3>1, <3>3 DEF Sound, Owned
    <3> QED
      BY <2>2, <2>5, <3>4, FS_Singleton
  <2> QED
    BY <2>4, <2>5
<1> QED
  BY <1>5, <1>6 DEF HeapInv, OneOwner

LEMMA EndsHold ==
  ASSUME StringsInv PROVE OwnedTextEnds
<1> SUFFICES ASSUME NEW o \in Objects, obj[o].type \in {"small", "large"}
             PROVE  /\ GetSize(memory, o) <= GetCapacity(memory, o)
                    /\ Bytes(memory, GetDataPointer(memory, o), GetSize(memory, o), 1) = <<Nul>>
  BY DEF OwnedTextEnds
<1>1. PICK m : m = memory
  OBVIOUS
<1>2. m.obj = obj
  BY <1>1 DEF memory
<1>3. Sound(m) /\ o \in All /\ Own(m, o)
  BY <1>1, <1>2, AllIs DEF StringsInv, Strings, Own
<1>4. PICK r : r = Region(m, GetDataPointer(m, o))
  OBVIOUS
<1>5. /\ r \in Seq(Marks) /\ GetSize(m, o) \in Nat /\ GetCapacity(m, o) \in Nat
      /\ Len(r) = GetCapacity(m, o) + 1 /\ GetSize(m, o) <= GetCapacity(m, o)
      /\ r[GetSize(m, o) + 1] = Nul
  BY <1>3, <1>4, OwnIs
<1>6. PICK i \in Nat : i = GetSize(m, o)
  BY <1>5
<1>7. PICK v : v = Piece(r, i, 1)
  OBVIOUS
<1>8. v \in Seq(Marks) /\ Len(v) = 1 /\ Reads(v, r, i, 1)
  <2>1. PICK n \in Nat : n = 1
    OBVIOUS
  <2>2. v = Piece(r, i, n) /\ r \in Seq(Marks)
    BY <1>5, <1>7, <2>1
  <2>3. v \in Seq(Marks) /\ Len(v) = n /\ Reads(v, r, i, n)
    BY <2>2, PieceIs
  <2> QED
    BY <2>1, <2>3
<1>9. v[1] = Nul
  BY <1>5, <1>6, <1>8 DEF Reads
<1>10. PICK w \in Seq(Marks) : w = <<Nul>> /\ Len(w) = 1 /\ w[1] = Nul
  <2>1. Nul \in Marks
    BY CharsAre
  <2>2. <<Nul>> \in Seq(Marks) /\ Len(<<Nul>>) = 1 /\ <<Nul>>[1] = Nul
    BY <2>1
  <2> QED
    BY <2>2
<1>11. v = w
  BY <1>8, <1>9, <1>10, SameText
<1>12. Bytes(m, GetDataPointer(m, o), GetSize(m, o), 1) = v
  BY <1>4, <1>6, <1>7, BytesAre
<1> QED
  BY <1>1, <1>5, <1>10, <1>11, <1>12

-----------------------------------------------------------------------------
(* tstring: compare() is an order.                                          *)

\* s and t agree up to position n, both being that long.
Common(s, t, n) == n <= Len(s) /\ n <= Len(t) /\ \A i \in 1 .. n : s[i] = t[i]

\* s is in front of t: their first difference tells, or s is where t begins.
Precedes(s, t) ==
  \E n \in Nat : /\ Common(s, t, n) /\ n < Len(t)
                 /\ n < Len(s) => s[n + 1] < t[n + 1]

\* Two texts are equal or one of them is in front of the other, and compare()
\* tells which.
Decides(s, t, c) ==
  \/ c = -1 /\ Precedes(s, t)
  \/ c = 1 /\ Precedes(t, s)
  \/ c = 0 /\ s = t

LEMMA CompareIs ==
  ASSUME NEW s \in Seq(Chars), NEW t \in Seq(Chars)
  PROVE  Decides(s, t, Compare(s, t))
<1>1. Len(s) \in Nat /\ Len(t) \in Nat
  OBVIOUS
<1>2. PICK m \in Nat : m = IF Len(s) < Len(t) THEN Len(s) ELSE Len(t)
  BY <1>1
<1>3. PICK D \in SUBSET (1 .. m) : D = {i \in 1 .. m : s[i] # t[i]}
  OBVIOUS
<1>4. CASE D # {}
  <2>1. D \in SUBSET Nat
    OBVIOUS
  <2>2. \E i \in D : \A j \in D : i <= j
    BY <1>4, <2>1, MinIsLeast
  <2>3. PICK f \in D : f = (CHOOSE i \in D : \A j \in D : i <= j) /\ \A j \in D : f <= j
    BY <2>2
  <2>4. f \in 1 .. m /\ s[f] # t[f]
    BY <1>3
  <2>5. PICK n \in Nat : n = f - 1 /\ n + 1 = f
    BY <2>4
  <2>6. \A i \in 1 .. n : s[i] = t[i]
    <3> SUFFICES ASSUME NEW i \in 1 .. n PROVE s[i] = t[i]
      OBVIOUS
    <3>1. i \in 1 .. m /\ ~(f <= i)
      BY <2>4, <2>5
    <3>2. i \notin D
      BY <2>3, <3>1
    <3> QED
      BY <1>3, <3>1, <3>2
  <2>7. f <= Len(s) /\ f <= Len(t) /\ s[f] \in Chars /\ t[f] \in Chars
    BY <1>1, <1>2, <2>4
  <2>8. s[f] \in Nat /\ t[f] \in Nat
    BY <2>7, CharsAssumption
  <2>9. n < Len(s) /\ n < Len(t) /\ Common(s, t, n) /\ Common(t, s, n)
    BY <1>1, <2>5, <2>6, <2>7 DEF Common
  <2>10. Compare(s, t) = IF s[f] < t[f] THEN -1 ELSE 1
    BY <1>2, <1>3, <1>4, <2>3 DEF Compare
  <2>11. CASE s[f] < t[f]
    BY <2>5, <2>9, <2>10, <2>11 DEF Decides, Precedes
  <2>12. CASE ~(s[f] < t[f])
    <3>1. t[n + 1] < s[n + 1]
      BY <2>4, <2>5, <2>8, <2>12
    <3>2. Precedes(t, s)
      BY <2>9, <3>1 DEF Precedes
    <3> QED
      BY <2>10, <2>12, <3>2 DEF Decides
  <2> QED
    BY <2>11, <2>12
<1>5. CASE D = {}
  <2>1. \A i \in 1 .. m : s[i] = t[i]
    BY <1>3, <1>5
  <2>2. m <= Len(s) /\ m <= Len(t) /\ Common(s, t, m) /\ Common(t, s, m)
    BY <1>1, <1>2, <2>1 DEF Common
  <2>3. Compare(s, t) = IF Len(s) < Len(t) THEN -1 ELSE IF Len(s) > Len(t) THEN 1 ELSE 0
    BY <1>2, <1>3, <1>5 DEF Compare
  <2>4. CASE Len(s) < Len(t)
    <3>1. m = Len(s)
      BY <1>2, <2>4
    <3>2. Precedes(s, t)
      BY <1>1, <2>2, <2>4, <3>1 DEF Precedes
    <3> QED
      BY <2>3, <2>4, <3>2 DEF Decides
  <2>5. CASE Len(s) > Len(t)
    <3>1. m = Len(t) /\ ~(Len(s) < Len(t))
      BY <1>1, <1>2, <2>5
    <3>2. Precedes(t, s)
      BY <1>1, <2>2, <2>5, <3>1 DEF Precedes
    <3> QED
      BY <2>3, <2>5, <3>1, <3>2 DEF Decides
  <2>6. CASE Len(s) = Len(t)
    <3>1. m = Len(s) /\ ~(Len(s) < Len(t)) /\ ~(Len(s) > Len(t))
      BY <1>1, <1>2, <2>6
    <3>2. s = t
      <4>1. \A i \in 1 .. Len(s) : s[i] = t[i]
        BY <2>1, <3>1
      <4> QED
        BY <2>6, <4>1, SeqEqual
    <3> QED
      BY <2>3, <3>1, <3>2 DEF Decides
  <2> QED
    BY <1>1, <2>4, <2>5, <2>6
<1> QED
  BY <1>4, <1>5

\* No text is in front of one that is not behind it,
LEMMA PrecedesOneWay ==
  ASSUME NEW s \in Seq(Chars), NEW t \in Seq(Chars), Precedes(s, t), s = t \/ Precedes(t, s)
  PROVE  FALSE
<1>1. Len(s) \in Nat /\ Len(t) \in Nat
  OBVIOUS
<1>0. \A i \in Nat : (i < Len(s) => s[i + 1] \in Nat) /\ (i < Len(t) => t[i + 1] \in Nat)
  <2> SUFFICES ASSUME NEW i \in Nat
               PROVE  (i < Len(s) => s[i + 1] \in Nat) /\ (i < Len(t) => t[i + 1] \in Nat)
    OBVIOUS
  <2>1. i < Len(s) => s[i + 1] \in Chars
    BY <1>1
  <2>2. i < Len(t) => t[i + 1] \in Chars
    BY <1>1
  <2> QED
    BY <2>1, <2>2, CharsAssumption
<1>2. PICK n \in Nat : Common(s, t, n) /\ n < Len(t) /\ (n < Len(s) => s[n + 1] < t[n + 1])
  BY DEF Precedes
<1>3. CASE s = t
  BY <1>0, <1>2, <1>3
<1>4. CASE Precedes(t, s)
  <2>1. PICK k \in Nat : Common(t, s, k) /\ k < Len(s) /\ (k < Len(t) => t[k + 1] < s[k + 1])
    BY <1>4 DEF Precedes
  <2>2. n <= Len(s) /\ n <= Len(t) /\ k <= Len(s) /\ k <= Len(t)
    BY <1>2, <2>1 DEF Common
  <2>3. CASE n < k
    <3>1. n + 1 \in 1 .. k /\ n < Len(s)
      BY <1>1, <2>2, <2>3
    <3>2. t[n + 1] = s[n + 1]
      BY <2>1, <3>1 DEF Common
    <3> QED
      BY <1>0, <1>2, <3>1, <3>2
  <2>4. CASE k < n
    <3>1. k + 1 \in 1 .. n /\ k < Len(t)
      BY <1>1, <2>2, <2>4
    <3>2. t[k + 1] = s[k + 1]
      BY <1>2, <3>1 DEF Common
    <3> QED
      BY <1>0, <2>1, <3>1, <3>2
  <2>5. CASE n = k
    <3>1. n < Len(s) /\ n < Len(t)
      BY <1>2, <2>1, <2>5
    <3>2. s[n + 1] < t[n + 1] /\ t[n + 1] < s[n + 1]
      BY <1>2, <2>1, <2>5, <3>1
    <3> QED
      BY <1>0, <3>1, <3>2
  <2> QED
    BY <2>3, <2>4, <2>5
<1> QED
  BY <1>3, <1>4

\* and what is in front of a text is in front of what comes behind that.
LEMMA PrecedesOn ==
  ASSUME NEW s \in Seq(Chars), NEW t \in Seq(Chars), NEW u \in Seq(Chars),
         Precedes(s, t), Precedes(t, u)
  PROVE  Precedes(s, u)
<1>1. Len(s) \in Nat /\ Len(t) \in Nat /\ Len(u) \in Nat
  OBVIOUS
<1>0. \A i \in Nat : /\ (i < Len(s) => s[i + 1] \in Nat) /\ (i < Len(t) => t[i + 1] \in Nat)
                     /\ (i < Len(u) => u[i + 1] \in Nat)
  <2> SUFFICES ASSUME NEW i \in Nat
               PROVE  /\ (i < Len(s) => s[i + 1] \in Nat) /\ (i < Len(t) => t[i + 1] \in Nat)
                      /\ (i < Len(u) => u[i + 1] \in Nat)
    OBVIOUS
  <2>1. i < Len(s) => s[i + 1] \in Chars
    BY <1>1
  <2>2. i < Len(t) => t[i + 1] \in Chars
    BY <1>1
  <2>3. i < Len(u) => u[i + 1] \in Chars
    BY <1>1
  <2> QED
    BY <2>1, <2>2, <2>3, CharsAssumption
<1>2. PICK n \in Nat : Common(s, t, n) /\ n < Len(t) /\ (n < Len(s) => s[n + 1] < t[n + 1])
  BY DEF Precedes
<1>3. PICK k \in Nat : Common(t, u, k) /\ k < Len(u) /\ (k < Len(t) => t[k + 1] < u[k + 1])
  BY DEF Precedes
<1>4. n <= Len(s) /\ n <= Len(t) /\ k <= Len(t) /\ k <= Len(u)
  BY <1>2, <1>3 DEF Common
<1>5. CASE n <= k
  <2>1. n <= Len(u) /\ n < Len(u)
    BY <1>1, <1>3, <1>4, <1>5
  <2>2. \A i \in 1 .. n : s[i] = u[i]
    <3> SUFFICES ASSUME NEW i \in 1 .. n PROVE s[i] = u[i]
      OBVIOUS
    <3>1. s[i] = t[i]
      BY <1>2 DEF Common
    <3>2. i \in 1 .. k
      BY <1>5
    <3>3. t[i] = u[i]
      BY <1>3, <3>2 DEF Common
    <3> QED
      BY <3>1, <3>3
  <2>3. Common(s, u, n)
    BY <1>4, <2>1, <2>2 DEF Common
  <2>4. n < Len(s) => s[n + 1] < u[n + 1]
    <3> SUFFICES ASSUME n < Len(s) PROVE s[n + 1] < u[n + 1]
      OBVIOUS
    <3>1. s[n + 1] < t[n + 1] /\ n < Len(t)
      BY <1>2
    <3>2. CASE n < k
      <4>1. n + 1 \in 1 .. k
        BY <3>2
      <4> QED
        BY <1>3, <3>1, <4>1 DEF Common
    <3>3. CASE n = k
      <4>1. t[n + 1] < u[n + 1]
        BY <1>2, <1>3, <3>3
      <4>2. s[n + 1] \in Nat /\ t[n + 1] \in Nat /\ u[n + 1] \in Nat
        BY <1>0, <2>1, <3>1
      <4> QED
        BY <3>1, <4>1, <4>2
    <3> QED
      BY <1>5, <3>2, <3>3
  <2> QED
    BY <2>1, <2>3, <2>4 DEF Precedes
<1>6. CASE k < n
  <2>1. k <= Len(s) /\ k < Len(s) /\ k < Len(t)
    BY <1>1, <1>4, <1>6
  <2>2. \A i \in 1 .. k : s[i] = u[i]
    <3> SUFFICES ASSUME NEW i \in 1 .. k PROVE s[i] = u[i]
      OBVIOUS
    <3>1. i \in 1 .. n
      BY <1>6
    <3>2. s[i] = t[i]
      BY <1>2, <3>1 DEF Common
    <3>3. t[i] = u[i]
      BY <1>3 DEF Common
    <3> QED
      BY <3>2, <3>3
  <2>3. Common(s, u, k)
    BY <1>4, <2>1, <2>2 DEF Common
  <2>4. k + 1 \in 1 .. n
    BY <1>6
  <2>5. s[k + 1] = t[k + 1]
    BY <1>2, <2>4 DEF Common
  <2>6. s[k + 1] < u[k + 1]
    BY <1>3, <2>1, <2>5
  <2> QED
    BY <1>3, <2>3, <2>6 DEF Precedes
<1> QED
  BY <1>5, <1>6

\* compare() of three texts.
LEMMA CompareOrders ==
  ASSUME NEW s \in Seq(Chars), NEW t \in Seq(Chars), NEW u \in Seq(Chars)
  PROVE  /\ Compare(s, t) = -Compare(t, s) /\ (Compare(s, t) = 0 <=> s = t)
         /\ Compare(s, t) <= 0 /\ Compare(t, u) <= 0 => Compare(s, u) <= 0
<1>1. PICK a : a = Compare(s, t)
  OBVIOUS
<1>2. PICK b : b = Compare(t, s)
  OBVIOUS
<1>3. PICK c : c = Compare(t, u)
  OBVIOUS
<1>4. PICK d : d = Compare(s, u)
  OBVIOUS
<1>5. Decides(s, t, a) /\ Decides(t, s, b) /\ Decides(t, u, c) /\ Decides(s, u, d)
  BY <1>1, <1>2, <1>3, <1>4, CompareIs
<1>6. ~(Precedes(s, t) /\ Precedes(t, s)) /\ ~(s = t /\ (Precedes(s, t) \/ Precedes(t, s)))
  BY PrecedesOneWay
<1>7. a = -b /\ (a = 0 <=> s = t)
  BY <1>5, <1>6 DEF Decides
<1>8. a <= 0 /\ c <= 0 => d <= 0
  <2> SUFFICES ASSUME a <= 0, c <= 0 PROVE d <= 0
    OBVIOUS
  <2>1. s = t \/ Precedes(s, t)
    BY <1>5 DEF Decides
  <2>2. t = u \/ Precedes(t, u)
    BY <1>5 DEF Decides
  <2>3. s = u \/ Precedes(s, u)
    BY <2>1, <2>2, PrecedesOn
  <2>4. ~Precedes(u, s)
    BY <2>3, PrecedesOneWay
  <2> QED
    BY <1>5, <2>4 DEF Decides
<1> QED
  BY <1>1, <1>2, <1>3, <1>4, <1>7, <1>8

LEMMA TextHolds ==
  ASSUME StringsInv PROVE TextInv
<1>1. PICK m : m = memory
  OBVIOUS
<1>2. \A o \in Objects : Readable(o) => text[o] \in Seq(Chars) /\ Data(m, o) = text[o]
  <2> SUFFICES ASSUME NEW o \in Objects, Readable(o)
               PROVE  text[o] \in Seq(Chars) /\ Data(m, o) = text[o]
    OBVIOUS
  <2>1. Data(m, o) = text[o] /\ text[o] \in Seq(Chars)
    BY <1>1, ReadableIs
  <2> QED
    BY <2>1
<1>3. HoldsItsText
  BY <1>1, <1>2 DEF HoldsItsText
<1>4. ComparesAsAnOrder
  <2> SUFFICES ASSUME NEW a \in Comparable, NEW b \in Comparable, NEW c \in Comparable
               PROVE  LET s == Data(memory, a)  t == Data(memory, b)  u == Data(memory, c)
                      IN /\ Compare(s, t) = -Compare(t, s) /\ (Compare(s, t) = 0 <=> s = t)
                         /\ Compare(s, t) <= 0 /\ Compare(t, u) <= 0 => Compare(s, u) <= 0
    BY DEF ComparesAsAnOrder
  <2>1. PICK s \in Seq(Chars) : s = Data(memory, a)
    BY <1>1, <1>2 DEF Comparable
  <2>2. PICK t \in Seq(Chars) : t = Data(memory, b)
    BY <1>1, <1>2 DEF Comparable
  <2>3. PICK u \in Seq(Chars) : u = Data(memory, c)
    BY <1>1, <1>2 DEF Comparable
  <2>4. /\ Compare(s, t) = -Compare(t, s) /\ (Compare(s, t) = 0 <=> s = t)
        /\ Compare(s, t) <= 0 /\ Compare(t, u) <= 0 => Compare(s, u) <= 0
    BY CompareOrders
  <2> QED
    BY <2>1, <2>2, <2>3, <2>4
<1> QED
  BY <1>3, <1>4 DEF TextInv

\* Whatever was copied, moved, swapped, appended, inserted and added: every
\* buffer of the heap is free or has one LARGE string as its owner, which knows
\* its capacity (TF_TString_Dealloc, _Move, _ResizeUninitialized).
THEOREM HeapInvariance == Spec => []HeapInv
BY StringsInvariance, HeapHolds, PTL

\* Every string that owns its text has the terminator behind it, within its
\* capacity, so that c_str() ends.
THEOREM EndsInvariance == Spec => []OwnedTextEnds
BY StringsInvariance, EndsHold, PTL

\* Every object that can be read holds the text of a std::string after the same
\* calls, and compare() of any three of them is an order that is 0 exactly for
\* equal texts.
THEOREM TextInvariance == Spec => []TextInv
BY StringsInvariance, TextHolds, PTL
==============================================================================
