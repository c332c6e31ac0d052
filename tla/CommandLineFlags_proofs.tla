----------------------- MODULE CommandLineFlags_proofs -----------------------
(***************************************************************************)
(* Flags::Parse leaves in argv the arguments that no flag took, stores what *)
(* the flags were given and says whether all was well, proved for any      *)
(* arguments, any flags and any number of calls on one argv.               *)
(*                                                                         *)
(* A call is followed argument by argument: what holds of the whole line   *)
(* when it has returned holds of the part before i while it is read.       *)
(***************************************************************************)
EXTENDS CommandLineFlags, FiniteSetTheorems, SequenceTheorems, TLAPS

\* The caller's array ends with nullptr behind the argc arguments, or later.
Shape ==
  /\ \E n \in argc .. MaxArgs + 1 : argv \in [0 .. n -> Args \cup {Program, Null}]
  /\ \A k \in 1 .. argc - 1 : argv[k] \in Args

KeptBefore(j) == {k \in Kept : k < j}

\* Where a kept argument goes.
Place(k) == Cardinality({m \in Kept : m <= k})

\* The arguments seen so far that were kept are in unknown, in their order.
Collected ==
  /\ given \in [1 .. argc - 1 -> Args]
  /\ \A k \in 1 .. argc - 1 : argv[k] = given[k]
  /\ i <= argc
  /\ i < argc => \A m \in 1 .. i - 1 : given[m] # Dashes
  /\ Len(unknown) = Cardinality(KeptBefore(i))
  /\ \A k \in KeptBefore(i) : Place(k) \in 1 .. Len(unknown) /\ unknown[Place(k)] = given[k]
  /\ \A n \in 1 .. Len(unknown) : \E k \in KeptBefore(i) : Place(k) = n

\* At the return all of them are in argv, and nothing else is.
WrittenBack ==
  /\ given \in Seq(Args)
  /\ argc = Cardinality(Kept) + 1
  /\ \A k \in Kept : Place(k) \in 1 .. argc - 1 /\ argv[Place(k)] = given[k]
  /\ \A n \in 1 .. argc - 1 : \E k \in Kept : Place(k) = n

FInv ==
  /\ TypeOK /\ Shape
  /\ pc = "scan" => Collected
  /\ Returned => WrittenBack

-----------------------------------------------------------------------------
(* Counting the arguments that are kept.                                   *)

\* The kept arguments before one, up to one, and all of them.
LEMMA Counting ==
  ASSUME NEW n \in Nat, DOMAIN given = 1 .. n
  PROVE  /\ IsFiniteSet(Kept) /\ \A k \in Kept : k \in 1 .. n
         /\ \A j \in 1 .. n + 1 : Cardinality(KeptBefore(j)) \in Nat
                                  /\ Cardinality(KeptBefore(j)) <= j - 1
         /\ \A j \in Kept : /\ Place(j) = Cardinality(KeptBefore(j)) + 1
                            /\ Cardinality(KeptBefore(j + 1)) = Place(j)
                            /\ KeptBefore(j + 1) = KeptBefore(j) \cup {j}
         /\ \A j \in 1 .. n : j \notin Kept => KeptBefore(j + 1) = KeptBefore(j)
         /\ KeptBefore(n + 1) = Kept
<1>0. \A k \in Kept : k \in 1 .. n
  BY DEF Kept
<1>1. KeptBefore(n + 1) = Kept
  BY <1>0 DEF KeptBefore
<1>2. IsFiniteSet(Kept)
  <2>1. IsFiniteSet(1 .. n)
    BY FS_Interval
  <2>2. Kept \subseteq 1 .. n
    BY <1>0
  <2> QED
    BY <2>1, <2>2, FS_Subset
<1>3. ASSUME NEW j \in 1 .. n + 1
      PROVE  /\ IsFiniteSet(KeptBefore(j)) /\ Cardinality(KeptBefore(j)) \in Nat
             /\ Cardinality(KeptBefore(j)) <= j - 1
  <2>1. KeptBefore(j) \subseteq 1 .. (j - 1)
    BY <1>0 DEF KeptBefore
  <2>2. IsFiniteSet(1 .. (j - 1)) /\ Cardinality(1 .. (j - 1)) = j - 1
    BY FS_Interval
  <2> QED
    BY <2>1, <2>2, FS_Subset, FS_CardinalityType
<1>4. ASSUME NEW j \in Kept
      PROVE  /\ Place(j) = Cardinality(KeptBefore(j)) + 1
             /\ Cardinality(KeptBefore(j + 1)) = Place(j)
             /\ KeptBefore(j + 1) = KeptBefore(j) \cup {j}
  <2>1. /\ {m \in Kept : m <= j} = KeptBefore(j) \cup {j}
        /\ KeptBefore(j + 1) = KeptBefore(j) \cup {j}
        /\ j \notin KeptBefore(j) /\ j \in 1 .. n + 1
    BY <1>0 DEF KeptBefore
  <2> QED
    BY <2>1, <1>3, FS_AddElement DEF Place
<1>5. \A j \in 1 .. n : j \notin Kept => KeptBefore(j + 1) = KeptBefore(j)
  BY <1>0 DEF KeptBefore
<1> QED
  BY <1>0, <1>1, <1>2, <1>3, <1>4, <1>5

\* The elements of two sets that have none in common.
LEMMA DisjointSum ==
  ASSUME NEW S, NEW T, IsFiniteSet(S), IsFiniteSet(T), S \cap T = {}
  PROVE  Cardinality(S \cup T) = Cardinality(S) + Cardinality(T)
<1>1. Cardinality(S \cup T) = Cardinality(S) + Cardinality(T) - Cardinality(S \cap T)
  BY FS_Union
<1>2. Cardinality(S \cap T) = 0
  BY FS_EmptySet
<1> QED
  BY <1>1, <1>2, FS_CardinalityType

\* From "--" on everything is kept.
LEMMA CountingTheRest ==
  ASSUME NEW n \in Nat, DOMAIN given = 1 .. n, NEW j \in 1 .. n, j .. n \subseteq Kept
  PROVE  /\ Cardinality(Kept) = Cardinality(KeptBefore(j)) + (n + 1 - j)
         /\ \A k \in j .. n : Place(k) = Cardinality(KeptBefore(j)) + (k + 1 - j)
<1>1. ASSUME NEW k \in j .. n
      PROVE  Place(k) = Cardinality(KeptBefore(j)) + (k + 1 - j)
  <2>1. {m \in Kept : m <= k} = KeptBefore(j) \cup (j .. k)
    BY Counting DEF KeptBefore
  <2>2. KeptBefore(j) \cap (j .. k) = {}
    BY Counting DEF KeptBefore
  <2>3. IsFiniteSet(KeptBefore(j)) /\ Cardinality(KeptBefore(j)) \in Nat
    <3>1. KeptBefore(j) \subseteq Kept
      BY DEF KeptBefore
    <3> QED
      BY <3>1, Counting, FS_Subset, FS_CardinalityType
  <2>4. IsFiniteSet(j .. k) /\ Cardinality(j .. k) = k + 1 - j
    BY FS_Interval
  <2>5. Cardinality(KeptBefore(j) \cup (j .. k)) =
           Cardinality(KeptBefore(j)) + Cardinality(j .. k)
    BY <2>2, <2>3, <2>4, DisjointSum
  <2>6. Place(k) = Cardinality(KeptBefore(j)) + Cardinality(j .. k)
    BY <2>1, <2>5 DEF Place
  <2> QED
    BY <2>3, <2>4, <2>6
<1>2. {m \in Kept : m <= n} = Kept
  BY Counting
<1> QED
  BY <1>1, <1>2 DEF Place

\* What is in front of the first "--" is open, the rest is not.
LEMMA FrontIsOpen ==
  ASSUME NEW n \in Nat, DOMAIN given = 1 .. n, NEW j \in 1 .. n,
         \A m \in 1 .. j - 1 : given[m] # Dashes
  PROVE  /\ given[j] = Dashes => \A k \in j .. n : k \notin Open /\ k \in Kept
         /\ given[j] # Dashes =>
              /\ j \in Open
              /\ \A f \in FlagIds : IsFoundBy(f, list, given[j]) => j \in GivenTo(f) /\ j \notin Kept
              /\ Candidates(list, given[j]) = {} => j \in Kept /\ \A f \in FlagIds : j \notin GivenTo(f)
<1>1. ASSUME given[j] = Dashes, NEW k \in j .. n PROVE k \notin Open /\ k \in Kept
  <2>1. k \notin Open
    BY <1>1 DEF Open
  <2> QED
    BY <2>1 DEF Kept, GivenTo
<1>2. given[j] # Dashes => j \in Open
  BY DEF Open
<1>3. ASSUME given[j] # Dashes, NEW f \in FlagIds, IsFoundBy(f, list, given[j])
      PROVE  j \in GivenTo(f) /\ j \notin Kept
  BY <1>2, <1>3 DEF GivenTo, Kept
<1>4. Candidates(list, given[j]) = {} => j \in Kept /\ \A f \in FlagIds : j \notin GivenTo(f)
  BY DEF GivenTo, Kept, IsFoundBy
<1> QED
  BY <1>1, <1>2, <1>3, <1>4
-----------------------------------------------------------------------------
(* The steps.                                                              *)

\* Any line may be given to the first call.
LEMMA FInvInit == Init => FInv
<1> SUFFICES ASSUME Init PROVE FInv
  OBVIOUS
<1>1. PICK n \in 0 .. MaxArgs : \E args \in [1 .. n -> Args] :
        /\ argv = [k \in 0 .. (n + 1) |-> IF k = 0 THEN Program
                                         ELSE IF k = n + 1 THEN Null ELSE args[k]]
        /\ argc = n + 1 /\ given = args
  BY DEF Init
<1>2. PICK args \in [1 .. n -> Args] :
        /\ argv = [k \in 0 .. (n + 1) |-> IF k = 0 THEN Program
                                         ELSE IF k = n + 1 THEN Null ELSE args[k]]
        /\ argc = n + 1 /\ given = args
  BY <1>1
<1>3. n \in Nat /\ n <= MaxArgs /\ MaxArgs \in Nat /\ MaxCalls \in Nat
  BY ArgsAssumption
<1>4. argv \in [0 .. argc -> Args \cup {Program, Null}] /\ \A k \in 1 .. argc - 1 : argv[k] \in Args
  BY <1>2, <1>3
<1>5. Shape
  BY <1>2, <1>3, <1>4 DEF Shape
<1>6. TypeOK
  <2>1. argc \in 1 .. (MaxArgs + 1) /\ argv[0] = Program /\ argv[argc] = Null
    BY <1>2, <1>3
  <2>2. given \in Seq(Args) /\ unknown \in Seq(Args)
    BY <1>2, <1>3 DEF Init
  <2>3. i \in 1 .. (MaxArgs + 1) /\ calls \in 0 .. MaxCalls
    BY <1>3 DEF Init
  <2>4. \A k \in DOMAIN argv : argv[k] \in Args \cup {Program, Null}
    BY <1>4
  <2>5. list \in Lists \cup {<<>>} /\ pc \in {"idle", "scan"}
    BY DEF Init
  <2>6. result \in BOOLEAN /\ updated \in [FlagIds -> BOOLEAN]
    BY DEF Init
  <2> QED
    BY <2>1, <2>2, <2>3, <2>4, <2>5, <2>6 DEF TypeOK
<1>7. pc = "idle" /\ calls = 0
  BY DEF Init
<1> QED
  BY <1>5, <1>6, <1>7 DEF FInv, Returned

\* A call begins with what the last one has left.
LEMMA CallKeeps ==
  ASSUME FInv, NEW l \in Lists, Call(l)
  PROVE  FInv'
<1>0. TypeOK /\ Shape
  BY DEF FInv
<1>1. /\ pc' = "scan" /\ list' = l /\ i' = 1 /\ unknown' = <<>> /\ result' = TRUE
      /\ given' = [k \in 1 .. (argc - 1) |-> argv[1 + k - 1]]
      /\ calls' = calls + 1 /\ calls < MaxCalls /\ UNCHANGED <<argv, argc, updated>>
  BY DEF Call, Rest, dsts
<1>2. argc \in Nat /\ argc >= 1 /\ \A k \in 1 .. argc - 1 : argv[k] \in Args
  BY <1>0, ArgsAssumption DEF TypeOK, Shape
<1>3. given' \in [1 .. argc - 1 -> Args] /\ \A k \in 1 .. argc - 1 : argv[k] = given'[k]
  BY <1>1, <1>2
<1>4. given' \in Seq(Args) /\ unknown' \in Seq(Args)
  BY <1>1, <1>2, <1>3
<1>5. Shape'
  BY <1>0, <1>1 DEF Shape
<1>6. TypeOK'
  <2>1. calls' \in 0 .. MaxCalls /\ i' \in 1 .. (MaxArgs + 1)
    BY <1>0, <1>1, ArgsAssumption DEF TypeOK
  <2>2. result' \in BOOLEAN
    BY <1>1
  <2> QED
    BY <1>0, <1>1, <1>4, <2>1, <2>2 DEF TypeOK
<1>7. Collected'
  <2>1. DOMAIN given' = 1 .. argc - 1
    BY <1>3
  <2>2. KeptBefore(1)' = {}
    BY <2>1 DEF KeptBefore, Kept
  <2>3. KeptBefore(i)' = {} /\ Len(unknown') = 0 /\ Cardinality({}) = 0
    BY <1>1, <2>2, FS_EmptySet
  <2>4. argc' = argc /\ argv' = argv /\ i' = 1
    BY <1>1
  <2> QED
    BY <1>2, <1>3, <2>3, <2>4 DEF Collected
<1> QED
  BY <1>1, <1>5, <1>6, <1>7 DEF FInv, Returned

\* While a call reads its arguments, given and list stay as they are.
LEMMA LineStays ==
  ASSUME UNCHANGED <<given, list>>
  PROVE  /\ Kept' = Kept
         /\ \A f \in FlagIds : GivenTo(f)' = GivenTo(f) /\ AcceptedBy(f)' = AcceptedBy(f)
         /\ \A j : KeptBefore(j)' = KeptBefore(j) /\ Place(j)' = Place(j)
<1>1. Kept' = Kept
  BY DEF Kept, GivenTo, Open
<1>2. \A f \in FlagIds : GivenTo(f)' = GivenTo(f) /\ AcceptedBy(f)' = AcceptedBy(f)
  BY DEF AcceptedBy, GivenTo, Open
<1> QED
  BY <1>1, <1>2 DEF KeptBefore, Place

\* Where the loop stands.
LEMMA LoopFacts ==
  ASSUME FInv, pc = "scan"
  PROVE  /\ argc \in Nat /\ argc >= 1 /\ argc - 1 \in Nat /\ DOMAIN given = 1 .. argc - 1
         /\ i \in 1 .. argc /\ unknown \in Seq(Args) /\ Len(unknown) \in Nat
         /\ Collected /\ TypeOK /\ Shape
<1>1. Collected /\ TypeOK /\ Shape
  BY DEF FInv
<1>2. argc \in Nat /\ argc >= 1 /\ argc - 1 \in Nat /\ i \in Nat /\ i >= 1
  BY <1>1, ArgsAssumption DEF TypeOK
<1>3. DOMAIN given = 1 .. argc - 1 /\ i <= argc
  BY <1>1 DEF Collected
<1>4. unknown \in Seq(Args) /\ Len(unknown) \in Nat
  BY <1>1 DEF TypeOK
<1> QED
  BY <1>1, <1>2, <1>3, <1>4

\* The rest of the line from "--" on is collected as it is.
LEMMA ScanDashesKeeps ==
  ASSUME FInv, ScanDashes
  PROVE  FInv'
<1>1. /\ pc = "scan" /\ i < argc /\ argv[i] = Dashes /\ unknown' = unknown \o Rest(i) /\ i' = argc
      /\ UNCHANGED <<argv, argc, list, result, value, updated, pc, calls, given, before>>
  BY DEF ScanDashes, Scanning, dsts, history
<1>2. /\ argc \in Nat /\ argc - 1 \in Nat /\ DOMAIN given = 1 .. argc - 1
      /\ i \in 1 .. argc - 1 /\ unknown \in Seq(Args) /\ Len(unknown) \in Nat
      /\ Collected /\ TypeOK /\ Shape
  BY <1>1, LoopFacts
<1>3. given[i] = Dashes /\ \A m \in 1 .. i - 1 : given[m] # Dashes
  BY <1>1, <1>2 DEF Collected
<1>4. i .. (argc - 1) \subseteq Kept
  BY <1>2, <1>3, FrontIsOpen
<1>5. /\ Cardinality(Kept) = Len(unknown) + (argc - i)
      /\ \A k \in i .. (argc - 1) : Place(k) = Len(unknown) + (k + 1 - i)
  <2>1. /\ Cardinality(Kept) = Cardinality(KeptBefore(i)) + ((argc - 1) + 1 - i)
        /\ \A k \in i .. (argc - 1) : Place(k) = Cardinality(KeptBefore(i)) + (k + 1 - i)
    BY <1>2, <1>4, CountingTheRest
  <2>2. Cardinality(KeptBefore(i)) = Len(unknown)
    BY <1>2 DEF Collected
  <2> QED
    BY <2>1, <2>2, <1>2
<1>6. /\ Rest(i) \in Seq(Args) /\ Len(Rest(i)) = argc - i
      /\ \A k \in 1 .. argc - i : Rest(i)[k] = given[i + k - 1]
  <2>1. \A k \in 1 .. argc - i : argv[i + k - 1] = given[i + k - 1] /\ argv[i + k - 1] \in Args
    BY <1>2 DEF Collected, Shape
  <2>2. Rest(i) = [k \in 1 .. (argc - i) |-> argv[i + k - 1]]
    BY DEF Rest
  <2>3. argc - i \in Nat
    BY <1>2
  <2> QED
    BY <2>1, <2>2, <2>3
<1>7. /\ unknown' \in Seq(Args) /\ Len(unknown') = Len(unknown) + (argc - i)
      /\ \A n \in 1 .. Len(unknown) : unknown'[n] = unknown[n]
      /\ \A n \in 1 .. argc - i : unknown'[Len(unknown) + n] = given[i + n - 1]
  <2>1. /\ unknown \o Rest(i) \in Seq(Args)
        /\ Len(unknown \o Rest(i)) = Len(unknown) + Len(Rest(i))
        /\ \A n \in 1 .. Len(unknown) + Len(Rest(i)) : (unknown \o Rest(i))[n] =
              IF n <= Len(unknown) THEN unknown[n] ELSE Rest(i)[n - Len(unknown)]
    BY <1>2, <1>6, ConcatProperties
  <2>2. \A n \in 1 .. argc - i : unknown'[Len(unknown) + n] = Rest(i)[n]
    <3> SUFFICES ASSUME NEW n \in 1 .. argc - i PROVE unknown'[Len(unknown) + n] = Rest(i)[n]
      OBVIOUS
    <3>1. /\ Len(unknown) + n \in 1 .. Len(unknown) + Len(Rest(i))
          /\ ~(Len(unknown) + n <= Len(unknown)) /\ (Len(unknown) + n) - Len(unknown) = n
      BY <1>2, <1>6
    <3> QED
      BY <3>1, <2>1, <1>1
  <2>3. \A n \in 1 .. Len(unknown) : unknown'[n] = unknown[n]
    BY <2>1, <1>1, <1>2, <1>6
  <2> QED
    BY <2>1, <2>2, <2>3, <1>1, <1>6
<1>8. /\ KeptBefore(i)' = Kept /\ Kept' = Kept /\ \A k \in Kept : Place(k)' = Place(k)
  <2>1. KeptBefore(argc) = Kept
    BY <1>2, Counting
  <2> QED
    BY <1>1, <2>1, LineStays
<1>9. ASSUME NEW k \in Kept
      PROVE  Place(k) \in 1 .. Len(unknown') /\ unknown'[Place(k)] = given[k]
  <2>1. k \in 1 .. argc - 1
    BY <1>2, Counting
  <2>2. CASE k < i
    <3>1. k \in KeptBefore(i)
      BY <2>2 DEF KeptBefore
    <3>2. Place(k) \in 1 .. Len(unknown) /\ unknown[Place(k)] = given[k]
      BY <3>1, <1>2 DEF Collected
    <3> QED
      BY <3>2, <1>2, <1>7
  <2>3. CASE k >= i
    <3>1. Place(k) = Len(unknown) + (k + 1 - i) /\ k + 1 - i \in 1 .. argc - i
      BY <2>1, <2>3, <1>2, <1>5
    <3>2. unknown'[Len(unknown) + (k + 1 - i)] = given[i + (k + 1 - i) - 1]
      BY <3>1, <1>7
    <3> QED
      BY <3>1, <3>2, <2>1, <1>2, <1>7
  <2> QED
    BY <2>1, <2>2, <2>3, <1>2
<1>10. ASSUME NEW n \in 1 .. Len(unknown')
       PROVE  \E k \in Kept : Place(k) = n
  <2>1. CASE n <= Len(unknown)
    <3>1. PICK k \in KeptBefore(i) : Place(k) = n
      BY <2>1, <1>2 DEF Collected
    <3> QED
      BY <3>1 DEF KeptBefore
  <2>2. CASE n > Len(unknown)
    <3>1. n - Len(unknown) + i - 1 \in i .. (argc - 1)
      BY <2>2, <1>2, <1>7
    <3>2. /\ Place(n - Len(unknown) + i - 1) = Len(unknown) + ((n - Len(unknown) + i - 1) + 1 - i)
          /\ n - Len(unknown) + i - 1 \in Kept
      BY <3>1, <1>4, <1>5
    <3> QED
      BY <3>2, <1>2, <1>7
  <2> QED
    BY <2>1, <2>2, <1>2, <1>7
<1>11. Collected'
  <2>1. /\ given' \in [1 .. argc' - 1 -> Args] /\ \A k \in 1 .. argc' - 1 : argv'[k] = given'[k]
        /\ i' <= argc' /\ ~(i' < argc')
    BY <1>1, <1>2 DEF Collected
  <2>2. Len(unknown') = Cardinality(KeptBefore(i)')
    BY <1>5, <1>7, <1>8
  <2>3. \A k \in KeptBefore(i)' : Place(k)' \in 1 .. Len(unknown') /\ unknown'[Place(k)'] = given'[k]
    BY <1>1, <1>8, <1>9
  <2>4. \A n \in 1 .. Len(unknown') : \E k \in KeptBefore(i)' : Place(k)' = n
    BY <1>8, <1>10
  <2> QED
    BY <2>1, <2>2, <2>3, <2>4 DEF Collected
<1> QED
  <2>1. TypeOK'
    BY <1>1, <1>2, <1>7 DEF TypeOK
  <2>2. Shape'
    BY <1>1, <1>2 DEF Shape
  <2> QED
    BY <2>1, <2>2, <1>11, <1>1 DEF FInv, Returned

\* A flag's argument is not kept.
LEMMA ScanFlagKeeps ==
  ASSUME FInv, NEW f \in FlagIds, ScanFlag(f)
  PROVE  FInv'
<1>1. /\ pc = "scan" /\ i < argc /\ argv[i] # Dashes /\ i' = i + 1
      /\ IsFoundBy(f, list, argv[i])
      /\ UNCHANGED <<argv, argc, list, unknown, pc, calls, given, before>>
  BY DEF ScanFlag, Scanning, history
<1>2. /\ argc \in Nat /\ argc - 1 \in Nat /\ DOMAIN given = 1 .. argc - 1
      /\ i \in 1 .. argc - 1 /\ unknown \in Seq(Args) /\ Len(unknown) \in Nat
      /\ Collected /\ TypeOK /\ Shape
  BY <1>1, LoopFacts
<1>3. argv[i] = given[i] /\ given[i] # Dashes /\ \A m \in 1 .. i - 1 : given[m] # Dashes
  BY <1>1, <1>2 DEF Collected
<1>4. i \notin Kept
  BY <1>1, <1>2, <1>3, FrontIsOpen
<1>5. KeptBefore(i)' = KeptBefore(i) /\ \A k : Place(k)' = Place(k)
  <2>1. KeptBefore(i + 1) = KeptBefore(i)
    BY <1>2, <1>4, Counting
  <2> QED
    BY <1>1, <2>1, LineStays
<1>6. Collected'
  <2>1. i' <= argc /\ \A m \in 1 .. i' - 1 : given[m] # Dashes
    BY <1>1, <1>2, <1>3
  <2> QED
    BY <1>1, <1>2, <1>5, <2>1 DEF Collected
<1>7. TypeOK'
  <2>1. result' \in BOOLEAN /\ updated' \in [FlagIds -> BOOLEAN]
    <3>1. CASE Parses(FlagOf[f], argv[i])
      BY <3>1, <1>2 DEF ScanFlag, TypeOK
    <3>2. CASE ~Parses(FlagOf[f], argv[i])
      BY <3>2, <1>2 DEF ScanFlag, TypeOK, dsts
    <3> QED
      BY <3>1, <3>2
  <2>2. i' \in 1 .. (MaxArgs + 1)
    BY <1>1, <1>2, ArgsAssumption DEF TypeOK
  <2> QED
    BY <1>1, <1>2, <2>1, <2>2 DEF TypeOK
<1>8. Shape'
  BY <1>1, <1>2 DEF Shape
<1> QED
  BY <1>1, <1>6, <1>7, <1>8 DEF FInv, Returned

\* An argument no flag recognises is collected.
LEMMA ScanUnknownKeeps ==
  ASSUME FInv, ScanUnknown
  PROVE  FInv'
<1>1. /\ pc = "scan" /\ i < argc /\ argv[i] # Dashes /\ i' = i + 1
      /\ Candidates(list, argv[i]) = {} /\ unknown' = Append(unknown, argv[i])
      /\ UNCHANGED <<argv, argc, list, result, value, updated, pc, calls, given, before>>
  BY DEF ScanUnknown, Scanning, history, dsts
<1>2. /\ argc \in Nat /\ argc - 1 \in Nat /\ DOMAIN given = 1 .. argc - 1
      /\ i \in 1 .. argc - 1 /\ unknown \in Seq(Args) /\ Len(unknown) \in Nat
      /\ Collected /\ TypeOK /\ Shape
  BY <1>1, LoopFacts
<1>3. /\ argv[i] = given[i] /\ given[i] # Dashes /\ given[i] \in Args
      /\ \A m \in 1 .. i - 1 : given[m] # Dashes
  BY <1>1, <1>2 DEF Collected
<1>4. i \in Kept
  BY <1>1, <1>2, <1>3, FrontIsOpen
<1>5. /\ KeptBefore(i + 1) = KeptBefore(i) \cup {i} /\ Cardinality(KeptBefore(i)) = Len(unknown)
      /\ Place(i) = Len(unknown) + 1 /\ Cardinality(KeptBefore(i + 1)) = Len(unknown) + 1
  BY <1>2, <1>4, Counting DEF Collected
<1>6. KeptBefore(i)' = KeptBefore(i) \cup {i} /\ \A k : Place(k)' = Place(k)
  BY <1>1, <1>5, LineStays
<1>7. /\ unknown' \in Seq(Args) /\ Len(unknown') = Len(unknown) + 1
      /\ unknown'[Len(unknown) + 1] = given[i]
      /\ \A n \in 1 .. Len(unknown) : unknown'[n] = unknown[n]
  BY <1>1, <1>2, <1>3
<1>8. Collected'
  <2>1. i' <= argc /\ \A m \in 1 .. i' - 1 : given[m] # Dashes
    BY <1>1, <1>2, <1>3
  <2>2. Len(unknown') = Cardinality(KeptBefore(i)')
    BY <1>5, <1>6, <1>7
  <2>3. ASSUME NEW k \in KeptBefore(i) \cup {i}
        PROVE  Place(k) \in 1 .. Len(unknown') /\ unknown'[Place(k)] = given[k]
    <3>1. CASE k = i
      BY <3>1, <1>2, <1>5, <1>7
    <3>2. CASE k \in KeptBefore(i)
      <4>1. Place(k) \in 1 .. Len(unknown) /\ unknown[Place(k)] = given[k]
        BY <3>2, <1>2 DEF Collected
      <4> QED
        BY <4>1, <1>2, <1>7
    <3> QED
      BY <3>1, <3>2
  <2>4. ASSUME NEW n \in 1 .. Len(unknown')
        PROVE  \E k \in KeptBefore(i) \cup {i} : Place(k) = n
    <3>1. CASE n = Len(unknown) + 1
      BY <3>1, <1>5
    <3>2. CASE n \in 1 .. Len(unknown)
      BY <3>2, <1>2 DEF Collected
    <3> QED
      BY <3>1, <3>2, <1>2, <1>7
  <2>5. /\ given' = given /\ argc' = argc /\ argv' = argv
        /\ given \in [1 .. argc - 1 -> Args] /\ \A k \in 1 .. argc - 1 : argv[k] = given[k]
    BY <1>1, <1>2 DEF Collected
  <2> QED
    BY <1>6, <2>1, <2>2, <2>3, <2>4, <2>5 DEF Collected
<1>9. TypeOK'
  <2>1. i' \in 1 .. (MaxArgs + 1)
    BY <1>1, <1>2, ArgsAssumption DEF TypeOK
  <2> QED
    BY <1>1, <1>2, <1>7, <2>1 DEF TypeOK
<1>10. Shape'
  BY <1>1, <1>2 DEF Shape
<1> QED
  BY <1>1, <1>8, <1>9, <1>10 DEF FInv, Returned

\* The collected arguments, all that were kept, go to the front of argv.
LEMMA ReturnKeeps ==
  ASSUME FInv, Return
  PROVE  FInv'
<1>1. /\ pc = "scan" /\ i = argc /\ pc' = "idle" /\ argc' = Len(unknown) + 1
      /\ argv' = [k \in DOMAIN argv |->
                    IF k \in DOMAIN unknown THEN unknown[k]
                    ELSE IF k = Len(unknown) + 1 THEN Null ELSE argv[k]]
      /\ UNCHANGED <<list, i, unknown, value, updated, calls, given, before>>
  BY DEF Return, dsts, history
<1>2. /\ argc \in Nat /\ argc - 1 \in Nat /\ DOMAIN given = 1 .. argc - 1
      /\ unknown \in Seq(Args) /\ Len(unknown) \in Nat /\ argc <= MaxArgs + 1
      /\ Collected /\ TypeOK /\ Shape
  BY <1>1, LoopFacts DEF TypeOK
<1>3. /\ KeptBefore(i) = Kept /\ Len(unknown) = Cardinality(Kept) /\ Len(unknown) < argc
  <2>1. KeptBefore(argc) = Kept /\ Cardinality(KeptBefore(argc)) <= argc - 1
    BY <1>2, Counting
  <2> QED
    BY <1>1, <1>2, <2>1 DEF Collected
<1>4. PICK n \in argc .. MaxArgs + 1 : argv \in [0 .. n -> Args \cup {Program, Null}]
  BY <1>2 DEF Shape
<1>5. DOMAIN unknown = 1 .. Len(unknown) /\ \A k \in 1 .. Len(unknown) : unknown[k] \in Args
  BY <1>2
<1>6. /\ argv' \in [0 .. n -> Args \cup {Program, Null}]
      /\ \A k \in 1 .. Len(unknown) : argv'[k] = unknown[k] /\ argv'[k] \in Args
      /\ argv'[0] = argv[0] /\ argv'[argc'] = Null
  <2>1. ASSUME NEW k \in 0 .. n PROVE argv'[k] \in Args \cup {Program, Null}
    BY <1>1, <1>4, <1>5
  <2>2. ASSUME NEW k \in 1 .. Len(unknown) PROVE argv'[k] = unknown[k]
    BY <1>1, <1>2, <1>3, <1>4, <1>5
  <2>3. argv'[0] = argv[0] /\ argv'[argc'] = Null
    BY <1>1, <1>2, <1>3, <1>4, <1>5
  <2> QED
    BY <2>1, <2>2, <2>3, <1>1, <1>4, <1>5
<1>7. TypeOK'
  <2>1. argc' \in 1 .. (MaxArgs + 1)
    BY <1>1, <1>2, <1>3, ArgsAssumption
  <2>2. result' \in BOOLEAN
    BY <1>2 DEF Return, TypeOK
  <2>3. \A k \in DOMAIN argv' : argv'[k] \in Args \cup {Program, Null}
    BY <1>6
  <2>4. argv'[0] = Program /\ argv'[argc'] = Null
    BY <1>2, <1>6 DEF TypeOK
  <2> QED
    BY <1>1, <1>2, <2>1, <2>2, <2>3, <2>4 DEF TypeOK
<1>8. Shape'
  <2>1. n \in argc' .. MaxArgs + 1
    BY <1>1, <1>2, <1>3, <1>4, ArgsAssumption
  <2> QED
    BY <1>1, <1>2, <1>6, <2>1 DEF Shape
<1>9. WrittenBack'
  <2>1. Kept' = Kept /\ \A k : Place(k)' = Place(k)
    BY <1>1, LineStays
  <2>2. argc' - 1 = Len(unknown) /\ argc' = Cardinality(Kept) + 1 /\ given' \in Seq(Args)
    BY <1>1, <1>2, <1>3 DEF TypeOK
  <2>3. ASSUME NEW k \in Kept
        PROVE  Place(k) \in 1 .. argc' - 1 /\ argv'[Place(k)] = given[k]
    <3>1. Place(k) \in 1 .. Len(unknown) /\ unknown[Place(k)] = given[k]
      BY <1>2, <1>3 DEF Collected
    <3> QED
      BY <3>1, <1>6, <2>2
  <2>4. \A m \in 1 .. argc' - 1 : \E k \in Kept : Place(k) = m
    BY <1>2, <1>3, <2>2 DEF Collected
  <2> QED
    BY <1>1, <2>1, <2>2, <2>3, <2>4 DEF WrittenBack
<1> QED
  BY <1>1, <1>7, <1>8, <1>9 DEF FInv, Returned

LEMMA FInvStep == FInv /\ [Next]_vars => FInv'
<1> SUFFICES ASSUME FInv, [Next]_vars PROVE FInv'
  OBVIOUS
<1>1. ASSUME NEW l \in Lists, Call(l) PROVE FInv'
  BY <1>1, CallKeeps
<1>2. ASSUME NEW f \in FlagIds, ScanFlag(f) PROVE FInv'
  BY <1>2, ScanFlagKeeps
<1>3. CASE UNCHANGED vars
  <2>1. /\ UNCHANGED <<argv, argc, list, i, unknown, result, value, updated, pc, calls, given, before>>
        /\ Kept' = Kept /\ \A j : KeptBefore(j)' = KeptBefore(j) /\ Place(j)' = Place(j)
    BY <1>3, LineStays DEF vars, parse, dsts, history
  <2>2. TypeOK' /\ Shape' /\ (pc' = "scan" => Collected')
    BY <2>1 DEF FInv, TypeOK, Shape, Collected
  <2> QED
    BY <2>1, <2>2 DEF FInv, WrittenBack, Returned
<1> QED
  BY <1>1, <1>2, <1>3, ScanDashesKeeps, ScanUnknownKeeps, ReturnKeeps DEF Next

LEMMA Invariance == Spec => []FInv
  BY FInvInit, FInvStep, PTL DEF Spec

\* Whatever the arguments and the flags are: argv stays a well formed array,
\* unknown_flags never outgrows what was read, and afterwards argv holds the
\* arguments no flag took, each one once and in order, closed by nullptr.
THEOREM UnknownArgumentsStay == Spec => []ArgvInv
<1>1. FInv => ArgvInv
  <2> SUFFICES ASSUME FInv PROVE ArgvInv
    OBVIOUS
  <2>1. TypeOK
    BY DEF FInv
  <2>2. WriteBackFits
    <3> SUFFICES ASSUME pc = "scan" PROVE Len(unknown) < i /\ i <= argc
      BY DEF WriteBackFits
    <3>1. /\ argc \in Nat /\ argc - 1 \in Nat /\ DOMAIN given = 1 .. argc - 1
          /\ i \in 1 .. (argc - 1) + 1 /\ Len(unknown) = Cardinality(KeptBefore(i))
      BY LoopFacts DEF Collected
    <3>2. Cardinality(KeptBefore(i)) <= i - 1
      BY <3>1, Counting
    <3> QED
      BY <3>1, <3>2, LoopFacts
  <2>3. UnknownArgumentsRemain
    <3> SUFFICES ASSUME Returned
                 PROVE  /\ argc = Cardinality(Kept) + 1 /\ argv[argc] = Null
                        /\ \A k \in Kept : argv[Cardinality({m \in Kept : m <= k})] = given[k]
      BY DEF UnknownArgumentsRemain
    <3>1. WrittenBack /\ argv[argc] = Null
      BY <2>1 DEF FInv, TypeOK
    <3> QED
      BY <3>1 DEF WrittenBack, Place
  <2> QED
    BY <2>1, <2>2, <2>3 DEF ArgvInv
<1> QED
  BY <1>1, Invariance, PTL

\* A flag that is still in argv after a call stands behind a "--": for any
\* arguments and flags a second call with the same list finds nothing.
THEOREM OneParseIsEnough == Spec => SecondParseFindsNothing
<1>1. ASSUME FInv, Returned, NEW f \in FlagIds, NEW n \in 1 .. (argc - 1),
             IsFoundBy(f, list, argv[n])
      PROVE  \E m \in 1 .. n : argv[m] = Dashes
  <2>1. WrittenBack
    BY <1>1 DEF FInv
  <2>2. PICK k \in Kept : Place(k) = n
    BY <1>1, <2>1 DEF WrittenBack
  <2>3. argv[n] = given[k] /\ k \in DOMAIN given
    BY <2>1, <2>2 DEF WrittenBack, Kept
  <2>4. PICK d \in 1 .. k : given[d] = Dashes
    <3>1. k \notin Open
      BY <1>1, <2>2, <2>3 DEF Kept, GivenTo
    <3> QED
      BY <2>3, <3>1 DEF Open
  <2>5. PICK size \in Nat : DOMAIN given = 1 .. size
    BY <2>1 DEF WrittenBack
  <2>6. d \in Kept /\ d <= k
    <3>1. d \in DOMAIN given /\ d \notin Open
      BY <2>3, <2>4, <2>5 DEF Open
    <3> QED
      BY <2>3, <2>4, <2>5, <3>1 DEF Kept, GivenTo
  <2>7. Place(d) <= Place(k)
    <3>1. /\ IsFiniteSet({m \in Kept : m <= k})
          /\ {m \in Kept : m <= d} \subseteq {m \in Kept : m <= k}
      <4>1. IsFiniteSet(Kept) /\ \A m \in Kept : m \in 1 .. size
        BY <2>5, Counting
      <4>2. {m \in Kept : m <= k} \subseteq Kept
        OBVIOUS
      <4>3. IsFiniteSet({m \in Kept : m <= k})
        BY <4>1, <4>2, FS_Subset
      <4>4. \A m \in Kept : m <= d => m <= k
        BY <4>1, <2>2, <2>6
      <4> QED
        BY <4>3, <4>4
    <3> QED
      BY <3>1, FS_Subset DEF Place
  <2>8. Place(d) \in 1 .. argc - 1 /\ argv[Place(d)] = given[d]
    BY <2>1, <2>6 DEF WrittenBack
  <2>9. Place(d) \in 1 .. n
    BY <2>2, <2>7, <2>8
  <2> QED
    BY <2>4, <2>8, <2>9
<1>2. FInv =>
        [Returned /\ pc' = "scan" /\ list' = list
           => \A f \in FlagIds : \A k \in 1..(argc - 1) :
                IsFoundBy(f, list, argv[k]) => \E m \in 1..k : argv[m] = Dashes]_vars
  BY <1>1
<1> QED
  BY <1>2, Invariance, PTL DEF SecondParseFindsNothing

-----------------------------------------------------------------------------
(* What is stored and returned.                                            *)

GotBefore(f, j) == {k \in AcceptedBy(f) : k < j}

\* Of the arguments read so far the last good one decides.
StoredSoFar ==
  \A f \in FlagIds :
    IF GotBefore(f, i) = {} THEN value[f] = before[f]
    ELSE value[f] = ReadBy(FlagOf[f], given[Max(GotBefore(f, i))]) /\ updated[f]

GoodSoFar ==
  result <=> \A f \in FlagIds : \A k \in GivenTo(f) : k < i => k \in AcceptedBy(f)

\* What was stored, cut or not, and what was returned in the end.
LastStored ==
  \A f \in FlagIds :
    IF AcceptedBy(f) = {} THEN value[f] = before[f]
    ELSE value[f] = ReadBy(FlagOf[f], given[Max(AcceptedBy(f))]) /\ updated[f]

FalseIffRefused ==
  result <=> /\ \A f \in FlagIds : GivenTo(f) = AcceptedBy(f)
             /\ argc > 1 => argv[1] # Help

OInv ==
  /\ DOMAIN value = FlagIds
  /\ pc = "scan" => StoredSoFar /\ GoodSoFar
  /\ Returned => LastStored /\ FalseIffRefused

LEMMA MaxIsLast ==
  ASSUME NEW S, \A k \in S : k \in Int, NEW m \in S, \A k \in S : k <= m
  PROVE  Max(S) = m
<1>1. m \in S /\ \A k \in S : m >= k
  OBVIOUS
<1>2. Max(S) \in S /\ \A k \in S : Max(S) >= k
  BY <1>1 DEF Max
<1> QED
  BY <1>2

\* One flag gets an argument, no other.
LEMMA OneFlagGets ==
  ASSUME NEW l \in Seq(FlagIds), NEW arg, NEW f, NEW g,
         IsFoundBy(f, l, arg), IsFoundBy(g, l, arg)
  PROVE  f = g
<1>1. PICK k \in Candidates(l, arg) : l[k] = f /\ \A m \in Candidates(l, arg) : k <= m
  BY DEF IsFoundBy
<1>2. PICK n \in Candidates(l, arg) : l[n] = g /\ \A m \in Candidates(l, arg) : n <= m
  BY DEF IsFoundBy
<1>3. k \in Nat /\ n \in Nat /\ k <= n /\ n <= k
  BY <1>1, <1>2 DEF Candidates
<1> QED
  BY <1>1, <1>2, <1>3

LEMMA OInvInit == Init => OInv
  BY DEF Init, OInv, Returned

LEMMA CallStores ==
  ASSUME FInv, OInv, NEW l \in Lists, Call(l)
  PROVE  OInv'
<1>1. /\ pc' = "scan" /\ i' = 1 /\ result' = TRUE /\ before' = value
      /\ given' = [k \in 1 .. (argc - 1) |-> argv[1 + k - 1]]
      /\ value' = value /\ updated' = updated
  BY DEF Call, Rest, dsts
<1>2. \A k \in DOMAIN given' : k >= 1 /\ k \in Int
  BY <1>1 DEF FInv, TypeOK
<1>3. \A f \in FlagIds : GotBefore(f, i)' = {}
  BY <1>1, <1>2 DEF GotBefore, AcceptedBy, GivenTo, Open
<1>4. GoodSoFar'
  BY <1>1, <1>2 DEF GoodSoFar, GivenTo, Open
<1>5. StoredSoFar'
  BY <1>1, <1>3 DEF StoredSoFar
<1> QED
  BY <1>1, <1>4, <1>5 DEF OInv, Returned

\* A step after which no flag has got anything more.
LEMMA NobodyGets ==
  ASSUME FInv, OInv, pc = "scan", UNCHANGED <<list, result, value, updated, pc, given, before>>,
         \A f \in FlagIds : \A k \in GivenTo(f) : k < i' <=> k < i
  PROVE  OInv'
<1>1. \A f \in FlagIds : GivenTo(f)' = GivenTo(f) /\ AcceptedBy(f)' = AcceptedBy(f)
  BY LineStays
<1>2. \A f \in FlagIds : AcceptedBy(f) \subseteq GivenTo(f)
  BY DEF AcceptedBy
<1>3. ASSUME NEW f \in FlagIds PROVE GotBefore(f, i)' = GotBefore(f, i)
  BY <1>1, <1>2 DEF GotBefore
<1>4. StoredSoFar'
  BY <1>3 DEF OInv, StoredSoFar
<1>5. GoodSoFar'
  BY <1>1 DEF OInv, GoodSoFar
<1> QED
  BY <1>4, <1>5 DEF OInv, Returned

LEMMA ScanDashesStores ==
  ASSUME FInv, OInv, ScanDashes
  PROVE  OInv'
<1>1. /\ pc = "scan" /\ i < argc /\ argv[i] = Dashes /\ i' = argc
      /\ UNCHANGED <<list, result, value, updated, pc, given, before>>
  BY DEF ScanDashes, Scanning, dsts, history
<1>2. /\ argc \in Nat /\ argc - 1 \in Nat /\ DOMAIN given = 1 .. argc - 1 /\ i \in 1 .. argc - 1
      /\ given[i] = Dashes /\ \A m \in 1 .. i - 1 : given[m] # Dashes
  BY <1>1, LoopFacts DEF Collected
<1>3. \A k \in i .. argc - 1 : k \notin Open
  BY <1>2, FrontIsOpen
<1>4. ASSUME NEW f \in FlagIds, NEW k \in GivenTo(f) PROVE k < i' <=> k < i
  BY <1>1, <1>2, <1>3 DEF GivenTo, Open
<1> QED
  BY <1>1, <1>4, NobodyGets

LEMMA ScanUnknownStores ==
  ASSUME FInv, OInv, ScanUnknown
  PROVE  OInv'
<1>1. /\ pc = "scan" /\ i < argc /\ argv[i] # Dashes /\ i' = i + 1
      /\ Candidates(list, argv[i]) = {}
      /\ UNCHANGED <<list, result, value, updated, pc, given, before>>
  BY DEF ScanUnknown, Scanning, dsts, history
<1>2. /\ argc \in Nat /\ argc - 1 \in Nat /\ DOMAIN given = 1 .. argc - 1 /\ i \in 1 .. argc - 1
      /\ argv[i] = given[i] /\ \A m \in 1 .. i - 1 : given[m] # Dashes
  BY <1>1, LoopFacts DEF Collected
<1>3. \A f \in FlagIds : i \notin GivenTo(f)
  BY <1>1, <1>2, FrontIsOpen
<1>4. ASSUME NEW f \in FlagIds, NEW k \in GivenTo(f) PROVE k < i' <=> k < i
  <2>1. k \in 1 .. argc - 1 /\ k # i
    BY <1>2, <1>3 DEF GivenTo, Open
  <2> QED
    BY <2>1, <1>1, <1>2
<1> QED
  BY <1>1, <1>4, NobodyGets

LEMMA ScanFlagStores ==
  ASSUME FInv, OInv, NEW f \in FlagIds, ScanFlag(f)
  PROVE  OInv'
<1>1. /\ pc = "scan" /\ i < argc /\ argv[i] # Dashes /\ i' = i + 1
      /\ IsFoundBy(f, list, argv[i])
      /\ UNCHANGED <<list, pc, given, before>>
  BY DEF ScanFlag, Scanning, history
<1>2. /\ argc \in Nat /\ argc - 1 \in Nat /\ DOMAIN given = 1 .. argc - 1 /\ i \in 1 .. argc - 1
      /\ argv[i] = given[i] /\ \A m \in 1 .. i - 1 : given[m] # Dashes
  BY <1>1, LoopFacts DEF Collected
<1>3. list \in Seq(FlagIds)
  <2>1. list \in Lists \cup {<<>>}
    BY DEF FInv, TypeOK
  <2>2. <<>> \in Seq(FlagIds)
    OBVIOUS
  <2> QED
    BY <2>1, <2>2, ArgsAssumption
<1>4. \A g \in FlagIds : i \in GivenTo(g) <=> g = f
  <2>1. i \in GivenTo(f)
    BY <1>1, <1>2, FrontIsOpen
  <2>2. ASSUME NEW g \in FlagIds, i \in GivenTo(g) PROVE g = f
    BY <2>2, <1>1, <1>2, <1>3, OneFlagGets DEF GivenTo
  <2> QED
    BY <2>1, <2>2
<1>5. /\ \A g \in FlagIds : GivenTo(g)' = GivenTo(g) /\ AcceptedBy(g)' = AcceptedBy(g)
      /\ \A g \in FlagIds : AcceptedBy(g) \subseteq GivenTo(g)
  BY <1>1, LineStays DEF AcceptedBy
<1>6. \A g \in FlagIds : \A k \in GivenTo(g) : k \in 1 .. argc - 1 /\ (k < i + 1 <=> k < i \/ k = i)
  BY <1>2 DEF GivenTo, Open
<1>7. i \in AcceptedBy(f) <=> Parses(FlagOf[f], argv[i])
  BY <1>2, <1>4 DEF AcceptedBy
<1>8. ASSUME NEW g \in FlagIds, g # f PROVE GotBefore(g, i)' = GotBefore(g, i)
  BY <1>1, <1>4, <1>5, <1>6, <1>8 DEF GotBefore
<1>9. CASE Parses(FlagOf[f], argv[i])
  <2>1. /\ value' = [value EXCEPT ![f] = ReadBy(FlagOf[f], given[i])]
        /\ updated' = [updated EXCEPT ![f] = TRUE] /\ result' = result
    BY <1>2, <1>9 DEF ScanFlag
  <2>2. updated \in [FlagIds -> BOOLEAN] /\ DOMAIN value = FlagIds
    BY DEF FInv, TypeOK, OInv
  <2>3. GotBefore(f, i)' = GotBefore(f, i) \cup {i}
    BY <1>1, <1>5, <1>6, <1>7, <1>9 DEF GotBefore
  <2>4. Max(GotBefore(f, i) \cup {i}) = i
    <3>1. \A k \in GotBefore(f, i) \cup {i} : k \in Int /\ k <= i
      BY <1>2, <1>5, <1>6 DEF GotBefore
    <3> QED
      BY <3>1, MaxIsLast
  <2>5. StoredSoFar'
    <3>1. ASSUME NEW g \in FlagIds
          PROVE  IF GotBefore(g, i)' = {} THEN value'[g] = before'[g]
                 ELSE value'[g] = ReadBy(FlagOf[g], given'[Max(GotBefore(g, i)')]) /\ updated'[g]
      <4>1. CASE g = f
        BY <4>1, <1>1, <2>1, <2>2, <2>3, <2>4
      <4>2. CASE g # f
        BY <4>2, <1>1, <1>8, <2>1, <2>2 DEF OInv, StoredSoFar
      <4> QED
        BY <4>1, <4>2
    <3> QED
      BY <3>1 DEF StoredSoFar
  <2>6. GoodSoFar'
    BY <1>1, <1>4, <1>5, <1>6, <1>7, <1>9, <2>1 DEF OInv, GoodSoFar
  <2>7. DOMAIN value' = FlagIds
    BY <2>1, <2>2
  <2> QED
    BY <1>1, <2>5, <2>6, <2>7 DEF OInv, Returned
<1>10. CASE ~Parses(FlagOf[f], argv[i])
  <2>1. value' = value /\ updated' = updated /\ result' = FALSE
    BY <1>10 DEF ScanFlag, dsts
  <2>2. GotBefore(f, i)' = GotBefore(f, i)
    BY <1>1, <1>5, <1>6, <1>7, <1>10 DEF GotBefore
  <2>3. StoredSoFar'
    BY <1>1, <1>8, <2>1, <2>2 DEF OInv, StoredSoFar
  <2>4. GoodSoFar'
    <3>1. i \in GivenTo(f)' /\ i < i' /\ i \notin AcceptedBy(f)'
      BY <1>1, <1>2, <1>4, <1>5, <1>7, <1>10
    <3> QED
      BY <2>1, <3>1 DEF GoodSoFar
  <2> QED
    BY <1>1, <2>1, <2>3, <2>4 DEF OInv, Returned
<1> QED
  BY <1>9, <1>10

LEMMA ReturnStores ==
  ASSUME FInv, OInv, Return
  PROVE  OInv'
<1>1. /\ pc = "scan" /\ i = argc /\ pc' = "idle" /\ argc' \in Int
      /\ result' = (result /\ (argc' < 2 \/ argv'[1] # Help))
      /\ UNCHANGED <<list, i, value, updated, given, before>>
  BY LoopFacts DEF Return, dsts, history
<1>2. argc \in Nat /\ DOMAIN given = 1 .. argc - 1 /\ argc - 1 \in Nat
  BY <1>1, LoopFacts
<1>3. \A f \in FlagIds : GivenTo(f)' = GivenTo(f) /\ AcceptedBy(f)' = AcceptedBy(f)
  BY <1>1, LineStays
<1>4. \A f \in FlagIds : \A k \in GivenTo(f) : k < i
  BY <1>1, <1>2 DEF GivenTo, Open
<1>5. \A f \in FlagIds : AcceptedBy(f) \subseteq GivenTo(f) /\ GotBefore(f, i) = AcceptedBy(f)
  BY <1>4 DEF AcceptedBy, GotBefore
<1>6. LastStored'
  BY <1>1, <1>3, <1>5 DEF OInv, StoredSoFar, LastStored
<1>7. FalseIffRefused'
  <2>1. result <=> \A f \in FlagIds : GivenTo(f) = AcceptedBy(f)
    BY <1>1, <1>4, <1>5 DEF OInv, GoodSoFar
  <2>2. argc' < 2 <=> ~(argc' > 1)
    BY <1>1
  <2>3. result \in BOOLEAN
    BY DEF FInv, TypeOK
  <2>4. (\A f \in FlagIds : GivenTo(f)' = AcceptedBy(f)') <=> \A f \in FlagIds : GivenTo(f) = AcceptedBy(f)
    BY <1>3
  <2>5. result' <=> /\ \A f \in FlagIds : GivenTo(f)' = AcceptedBy(f)'
                    /\ argc' > 1 => argv'[1] # Help
    BY <1>1, <2>1, <2>2, <2>3, <2>4, Zenon
  <2> QED
    BY <2>5 DEF FalseIffRefused
<1> QED
  BY <1>1, <1>6, <1>7 DEF OInv, Returned

LEMMA OInvStep == FInv /\ OInv /\ [Next]_vars => OInv'
<1> SUFFICES ASSUME FInv, OInv, [Next]_vars PROVE OInv'
  OBVIOUS
<1>1. ASSUME NEW l \in Lists, Call(l) PROVE OInv'
  BY <1>1, CallStores
<1>2. ASSUME NEW f \in FlagIds, ScanFlag(f) PROVE OInv'
  BY <1>2, ScanFlagStores
<1>3. CASE UNCHANGED vars
  <2>1. /\ UNCHANGED <<argv, argc, list, i, result, value, updated, pc, calls, given, before>>
        /\ \A f \in FlagIds : GivenTo(f)' = GivenTo(f) /\ AcceptedBy(f)' = AcceptedBy(f)
    BY <1>3, LineStays DEF vars, parse, dsts, history
  <2>2. \A f \in FlagIds : GotBefore(f, i)' = GotBefore(f, i)
    BY <2>1 DEF GotBefore
  <2> QED
    BY <2>1, <2>2 DEF OInv, StoredSoFar, GoodSoFar, LastStored, FalseIffRefused, Returned
<1> QED
  BY <1>1, <1>2, <1>3, ScanDashesStores, ScanUnknownStores, ReturnStores DEF Next

-----------------------------------------------------------------------------
(* Which flag gets a named argument.                                       *)

Tokens == STRING \cup {"--", "="}

\* IsPrefix, position by position.
LEMMA PrefixAt ==
  ASSUME NEW s \in Seq(Tokens), NEW t \in Seq(Tokens)
  PROVE  IsPrefix(s, t) <=> Len(s) <= Len(t) /\ \A k \in 1 .. Len(s) : s[k] = t[k]
<1>1. ASSUME Len(s) <= Len(t)
      PROVE  SubSeq(s, 1, Len(s)) = SubSeq(t, 1, Len(s)) <=> \A k \in 1 .. Len(s) : s[k] = t[k]
  <2>1. /\ SubSeq(s, 1, Len(s)) \in Seq(Tokens) /\ Len(SubSeq(s, 1, Len(s))) = Len(s)
        /\ \A k \in 1 .. Len(s) : SubSeq(s, 1, Len(s))[k] = s[k]
    OBVIOUS
  <2>2. /\ SubSeq(t, 1, Len(s)) \in Seq(Tokens) /\ Len(SubSeq(t, 1, Len(s))) = Len(s)
        /\ \A k \in 1 .. Len(s) : SubSeq(t, 1, Len(s))[k] = t[k]
    BY <1>1
  <2> QED
    BY <2>1, <2>2, SeqEqual
<1> QED
  BY <1>1 DEF IsPrefix

\* A sequence with one token before it, and with one behind it.
LEMMA OneBefore ==
  ASSUME NEW u \in Seq(Tokens), NEW s \in Seq(Tokens), Len(u) = 1
  PROVE  /\ u \o s \in Seq(Tokens) /\ Len(u \o s) = Len(s) + 1 /\ (u \o s)[1] = u[1]
         /\ \A k \in 1 .. Len(s) : (u \o s)[k + 1] = s[k]
<1>1. Len(s) \in Nat
  OBVIOUS
<1>2. /\ u \o s \in Seq(Tokens) /\ Len(u \o s) = Len(u) + Len(s)
      /\ \A k \in 1 .. Len(u) + Len(s) :
           (u \o s)[k] = IF k <= Len(u) THEN u[k] ELSE s[k - Len(u)]
  BY ConcatProperties
<1>3. \A k \in 1 .. Len(s) : /\ k + 1 \in 1 .. Len(u) + Len(s)
                             /\ ~(k + 1 <= Len(u)) /\ (k + 1) - Len(u) = k
  BY <1>1
<1> QED
  BY <1>1, <1>2, <1>3

LEMMA OneBehind ==
  ASSUME NEW u \in Seq(Tokens), NEW s \in Seq(Tokens), Len(u) = 1
  PROVE  /\ s \o u \in Seq(Tokens) /\ Len(s \o u) = Len(s) + 1 /\ (s \o u)[Len(s) + 1] = u[1]
         /\ \A k \in 1 .. Len(s) : (s \o u)[k] = s[k]
<1>1. Len(s) \in Nat
  OBVIOUS
<1>2. /\ s \o u \in Seq(Tokens) /\ Len(s \o u) = Len(s) + Len(u)
      /\ \A k \in 1 .. Len(s) + Len(u) :
           (s \o u)[k] = IF k <= Len(s) THEN s[k] ELSE u[k - Len(s)]
  BY ConcatProperties
<1> QED
  BY <1>1, <1>2

LEMMA OneToken ==
  ASSUME NEW x \in Tokens
  PROVE  <<x>> \in Seq(Tokens) /\ Len(<<x>>) = 1 /\ <<x>>[1] = x
  OBVIOUS

\* "--" and a name, and the same with the "=".
LEMMA NamedTexts ==
  ASSUME NEW name \in Seq(Tokens)
  PROVE  /\ Dashes \o name \in Seq(Tokens) /\ Len(Dashes \o name) = Len(name) + 1
         /\ \A k \in 1 .. Len(name) : (Dashes \o name)[k + 1] = name[k]
         /\ Dashes \o name \o <<"=">> \in Seq(Tokens)
         /\ Len(Dashes \o name \o <<"=">>) = Len(name) + 2
         /\ \A k \in 1 .. Len(name) : (Dashes \o name \o <<"=">>)[k + 1] = name[k]
         /\ (Dashes \o name \o <<"=">>)[Len(name) + 2] = "="
         /\ (Dashes \o name)[1] = "--" /\ (Dashes \o name \o <<"=">>)[1] = "--"
<1>1. "--" \in Tokens /\ "=" \in Tokens
  BY DEF Tokens
<1>2. Dashes \in Seq(Tokens) /\ Len(Dashes) = 1 /\ Dashes[1] = "--"
  BY <1>1, OneToken DEF Dashes
<1>3. PICK equals : equals = <<"=">> /\ equals \in Seq(Tokens) /\ Len(equals) = 1 /\ equals[1] = "="
  BY <1>1, OneToken
<1>4. /\ Dashes \o name \in Seq(Tokens) /\ Len(Dashes \o name) = Len(name) + 1
      /\ (Dashes \o name)[1] = "--"
      /\ \A k \in 1 .. Len(name) : (Dashes \o name)[k + 1] = name[k]
  BY <1>2, OneBefore
<1>5. PICK text : text = Dashes \o name
  OBVIOUS
<1>6. /\ text \o equals \in Seq(Tokens) /\ Len(text \o equals) = Len(text) + 1
      /\ (text \o equals)[Len(text) + 1] = "="
      /\ \A k \in 1 .. Len(text) : (text \o equals)[k] = text[k]
  BY <1>3, <1>4, <1>5, OneBehind
<1>7. Len(name) \in Nat /\ Len(text) = Len(name) + 1
  BY <1>4, <1>5
<1>8. ASSUME NEW k \in 1 .. Len(name) PROVE (text \o equals)[k + 1] = name[k]
  <2>1. k + 1 \in 1 .. Len(text)
    BY <1>7
  <2> QED
    BY <2>1, <1>4, <1>5, <1>6
<1>9. /\ Len(text \o equals) = Len(name) + 2 /\ (text \o equals)[Len(name) + 2] = "="
      /\ (text \o equals)[1] = "--"
  <2>1. (Len(name) + 1) + 1 = Len(name) + 2 /\ 1 \in 1 .. Len(text)
    BY <1>7
  <2> QED
    BY <2>1, <1>4, <1>5, <1>6, <1>7
<1> QED
  BY <1>3, <1>4, <1>5, <1>6, <1>8, <1>9

\* What a text looks like that begins with these.
LEMMA NamedAt ==
  ASSUME NEW name \in Seq(Tokens), NEW t \in Seq(Tokens)
  PROVE  LET Begins == t[1] = "--" /\ \A k \in 1 .. Len(name) : t[k + 1] = name[k]
         IN /\ IsPrefix(Dashes \o name, t) <=> Len(name) + 1 <= Len(t) /\ Begins
            /\ IsPrefix(Dashes \o name \o <<"=">>, t) <=>
                 Len(name) + 2 <= Len(t) /\ Begins /\ t[Len(name) + 2] = "="
<1> DEFINE Begins == t[1] = "--" /\ \A k \in 1 .. Len(name) : t[k + 1] = name[k]
<1>1. Len(name) \in Nat
  OBVIOUS
<1>2. ASSUME NEW s \in Seq(Tokens), s[1] = "--", \A k \in 1 .. Len(name) : s[k + 1] = name[k]
      PROVE  (\A k \in 1 .. Len(name) + 1 : s[k] = t[k]) <=> Begins
  <2>1. ASSUME \A k \in 1 .. Len(name) + 1 : s[k] = t[k] PROVE Begins
    <3>1. 1 \in 1 .. Len(name) + 1 /\ \A k \in 1 .. Len(name) : k + 1 \in 1 .. Len(name) + 1
      BY <1>1
    <3> QED
      BY <1>2, <2>1, <3>1
  <2>2. ASSUME Begins, NEW k \in 1 .. Len(name) + 1 PROVE s[k] = t[k]
    <3>1. CASE k = 1
      BY <3>1, <1>2, <2>2
    <3>2. CASE k # 1
      <4>1. PICK n \in 1 .. Len(name) : k = n + 1
        <5>1. k - 1 \in 1 .. Len(name) /\ k = (k - 1) + 1
          BY <3>2, <1>1
        <5> QED
          BY <5>1
      <4> QED
        BY <4>1, <1>2, <2>2
    <3> QED
      BY <3>1, <3>2
  <2> QED
    BY <2>1, <2>2
<1>3. PICK s \in Seq(Tokens) : /\ s = Dashes \o name /\ Len(s) = Len(name) + 1
                              /\ s[1] = "--" /\ \A k \in 1 .. Len(name) : s[k + 1] = name[k]
  BY NamedTexts
<1>4. PICK u \in Seq(Tokens) : /\ u = Dashes \o name \o <<"=">> /\ Len(u) = Len(name) + 2
                              /\ u[1] = "--" /\ \A k \in 1 .. Len(name) : u[k + 1] = name[k]
                              /\ u[Len(name) + 2] = "="
  BY NamedTexts
<1>5. IsPrefix(s, t) <=> Len(name) + 1 <= Len(t) /\ Begins
  <2>1. IsPrefix(s, t) <=> Len(s) <= Len(t) /\ \A k \in 1 .. Len(s) : s[k] = t[k]
    BY PrefixAt
  <2>2. (\A k \in 1 .. Len(name) + 1 : s[k] = t[k]) <=> Begins
    BY <1>2, <1>3
  <2> QED
    BY <2>1, <2>2, <1>3
<1>6. IsPrefix(u, t) <=> Len(name) + 2 <= Len(t) /\ Begins /\ t[Len(name) + 2] = "="
  <2>1. IsPrefix(u, t) <=> Len(u) <= Len(t) /\ \A k \in 1 .. Len(u) : u[k] = t[k]
    BY PrefixAt
  <2>2. (\A k \in 1 .. Len(name) + 1 : u[k] = t[k]) <=> Begins
    BY <1>2, <1>4
  <2>3. (\A k \in 1 .. Len(u) : u[k] = t[k]) <=>
          (\A k \in 1 .. Len(name) + 1 : u[k] = t[k]) /\ t[Len(name) + 2] = "="
    <3>1. \A k : k \in 1 .. Len(name) + 2 <=> k \in 1 .. Len(name) + 1 \/ k = Len(name) + 2
      BY <1>1
    <3> QED
      BY <3>1, <1>4
  <2> QED
    BY <2>1, <2>2, <2>3, <1>4
<1> QED
  BY <1>3, <1>4, <1>5, <1>6

\* A bool flag recognises --name=value, too.
LEMMA BoolRecognises ==
  ASSUME NEW a \in Seq(Tokens), NEW t \in Seq(Tokens), IsPrefix(Dashes \o a \o <<"=">>, t)
  PROVE  IsPrefix(Dashes \o a, t)
<1>1. Len(a) \in Nat /\ Len(t) \in Nat
  OBVIOUS
<1>2. Len(a) + 2 <= Len(t) /\ t[1] = "--" /\ \A k \in 1 .. Len(a) : t[k + 1] = a[k]
  BY NamedAt
<1>3. Len(a) + 1 <= Len(t)
  BY <1>1, <1>2
<1> QED
  BY <1>2, <1>3, NamedAt

\* Two flags that recognise --name=value: the same name, or one a bool flag
\* whose name begins the other's.
LEMMA SameName ==
  ASSUME NEW a \in Seq(Tokens), NEW b \in Seq(Tokens), NEW t \in Seq(Tokens),
         \A k \in 1 .. Len(a) : a[k] # "=", \A k \in 1 .. Len(b) : b[k] # "=",
         IsPrefix(Dashes \o a \o <<"=">>, t)
  PROVE  /\ IsPrefix(Dashes \o b \o <<"=">>, t) => a = b
         /\ IsPrefix(Dashes \o b, t) => IsPrefix(b, a)
<1>1. Len(a) \in Nat /\ Len(b) \in Nat /\ Len(t) \in Nat
  OBVIOUS
<1>2. /\ Len(a) + 2 <= Len(t) /\ t[Len(a) + 2] = "=" /\ t[1] = "--"
      /\ \A k \in 1 .. Len(a) : t[k + 1] = a[k]
  BY NamedAt
<1>3. ASSUME IsPrefix(Dashes \o b, t)
      PROVE  ~(Len(a) < Len(b)) /\ \A k \in 1 .. Len(b) : t[k + 1] = b[k]
  <2>1. \A k \in 1 .. Len(b) : t[k + 1] = b[k]
    BY <1>3, NamedAt
  <2>2. ASSUME Len(a) < Len(b) PROVE FALSE
    <3>1. Len(a) + 1 \in 1 .. Len(b) /\ (Len(a) + 1) + 1 = Len(a) + 2
      BY <1>1, <2>2
    <3>2. t[(Len(a) + 1) + 1] # "="
      BY <2>1, <3>1
    <3> QED
      BY <1>2, <3>1, <3>2
  <2> QED
    BY <2>1, <2>2
<1>4. ASSUME IsPrefix(Dashes \o b, t) PROVE IsPrefix(b, a)
  <2>1. Len(b) <= Len(a) /\ \A k \in 1 .. Len(b) : b[k] = a[k]
    BY <1>1, <1>2, <1>3, <1>4
  <2> QED
    BY <2>1, PrefixAt
<1>5. ASSUME IsPrefix(Dashes \o b \o <<"=">>, t) PROVE a = b
  <2>1. Len(b) + 2 <= Len(t) /\ t[Len(b) + 2] = "="
    BY <1>5, NamedAt
  <2>2. Len(b) + 1 <= Len(t)
    BY <1>1, <2>1
  <2>3. IsPrefix(Dashes \o b, t)
    BY <1>5, <2>2, NamedAt
  <2>4. ~(Len(a) < Len(b)) /\ \A k \in 1 .. Len(b) : t[k + 1] = b[k]
    BY <1>3, <2>3
  <2>5. ASSUME Len(b) < Len(a) PROVE FALSE
    <3>1. Len(b) + 1 \in 1 .. Len(a) /\ (Len(b) + 1) + 1 = Len(b) + 2
      BY <1>1, <2>5
    <3>2. t[(Len(b) + 1) + 1] # "="
      BY <1>2, <3>1
    <3> QED
      BY <2>1, <3>1, <3>2
  <2>6. Len(a) = Len(b) /\ \A k \in 1 .. Len(a) : a[k] = b[k]
    BY <1>1, <1>2, <2>4, <2>5
  <2> QED
    BY <2>6, SeqEqual
<1> QED
  BY <1>4, <1>5

\* The values a bool flag reads begin with "=".
BoolTexts == {<<>>, <<"=", "true">>, <<"=", "false">>}

\* What such a bool flag is left with begins with a token of the longer name:
\* it cannot read that.
LEMMA ShadowReadsNothing ==
  ASSUME NEW a \in Seq(Tokens), NEW b \in Seq(Tokens), NEW t \in Seq(Tokens), a # b,
         \A k \in 1 .. Len(a) : a[k] # "=", IsPrefix(b, a),
         IsPrefix(Dashes \o a \o <<"=">>, t)
  PROVE  SubSeq(t, Len(Dashes \o b) + 1, Len(t)) \notin BoolTexts
<1>1. Len(a) \in Nat /\ Len(b) \in Nat /\ Len(t) \in Nat
  OBVIOUS
<1>2. Len(b) <= Len(a) /\ \A k \in 1 .. Len(b) : b[k] = a[k]
  BY PrefixAt
<1>3. Len(b) < Len(a)
  <2>1. CASE Len(b) = Len(a)
    BY <1>2, <2>1, SeqEqual
  <2> QED
    BY <1>1, <1>2, <2>1
<1>4. Len(a) + 2 <= Len(t) /\ \A k \in 1 .. Len(a) : t[k + 1] = a[k]
  BY NamedAt
<1>5. PICK j \in Nat : j = Len(b) + 2 /\ j = Len(Dashes \o b) + 1 /\ j <= Len(t) /\ j \in 1 .. Len(t)
  BY <1>1, <1>3, <1>4, NamedTexts
<1>6. t[j] # "="
  <2>1. Len(b) + 1 \in 1 .. Len(a) /\ j = (Len(b) + 1) + 1
    BY <1>1, <1>3, <1>5
  <2> QED
    BY <1>4, <2>1
<1>7. PICK u : u = SubSeq(t, j, Len(t))
  OBVIOUS
<1>8. Len(u) >= 1 /\ u[1] = t[j]
  BY <1>1, <1>5, <1>7
<1>9. u # <<>> /\ u # <<"=", "true">> /\ u # <<"=", "false">>
  BY <1>6, <1>8
<1> QED
  BY <1>5, <1>7, <1>9 DEF BoolTexts

\* The flag that --name=value names is the first that recognises it, or a bool
\* flag before it is that, and refuses it.
LEMMA NamedIsFound ==
  ASSUME NEW l \in Seq(FlagIds), NEW n \in 1 .. Len(l), NEW arg \in Args,
         IsPrefix(Dashes \o FlagOf[l[n]].name \o <<"=">>, arg)
  PROVE  \/ IsFoundBy(l[n], l, arg)
         \/ \E m \in 1 .. n - 1 :
              /\ FlagOf[l[m]].type = "bool" /\ IsPrefix(FlagOf[l[m]].name, FlagOf[l[n]].name)
              /\ IsFoundBy(l[m], l, arg) /\ ~Parses(FlagOf[l[m]], arg)
<1>1. /\ arg \in Seq(Tokens) /\ l[n] \in FlagIds
      /\ \A f \in FlagIds : /\ FlagOf[f].name \in Seq(Tokens)
                            /\ \A k \in 1 .. Len(FlagOf[f].name) : FlagOf[f].name[k] # "="
  <2>1. arg \in Seq(Tokens)
    <3>1. arg \in Seq(STRING) /\ STRING \subseteq Tokens
      BY NamesAssumption DEF Tokens
    <3> QED
      BY <3>1, SeqMonotonic
  <2>2. ASSUME NEW f \in FlagIds
        PROVE  /\ FlagOf[f].name \in Seq(Tokens)
               /\ \A k \in 1 .. Len(FlagOf[f].name) : FlagOf[f].name[k] # "="
    <3>1. FlagOf[f].name \in Seq(STRING \ {"="}) /\ STRING \ {"="} \subseteq Tokens
      BY NamesAssumption DEF Tokens
    <3>2. FlagOf[f].name \in Seq(Tokens)
      BY <3>1, SeqMonotonic
    <3>3. \A k \in 1 .. Len(FlagOf[f].name) : FlagOf[f].name[k] \in STRING \ {"="}
      BY <3>1, ElementOfSeq
    <3> QED
      BY <3>2, <3>3
  <2> QED
    BY <2>1, <2>2
<1>2. \A f \in FlagIds :
        Prefix(FlagOf[f]) = IF FlagOf[f].type = "bool" THEN Dashes \o FlagOf[f].name
                            ELSE Dashes \o FlagOf[f].name \o <<"=">>
  <2>1. \A f \in FlagIds : Dashes \o FlagOf[f].name \in Seq(Tokens)
    BY <1>1, NamedTexts
  <2>2. \A f \in FlagIds : Dashes \o FlagOf[f].name \o <<>> = Dashes \o FlagOf[f].name
    BY <2>1, ConcatEmptySeq
  <2> QED
    BY <2>2 DEF Prefix
<1>3. n \in Candidates(l, arg)
  <2>1. IsPrefix(Dashes \o FlagOf[l[n]].name, arg)
    <3>1. PICK name \in Seq(Tokens) : name = FlagOf[l[n]].name /\ \A k \in 1 .. Len(name) : name[k] # "="
      BY <1>1
    <3>2. IsPrefix(Dashes \o name \o <<"=">>, arg)
      BY <3>1
    <3>3. IsPrefix(Dashes \o name, arg)
      BY <1>1, <3>1, <3>2, BoolRecognises
    <3> QED
      BY <3>1, <3>3
  <2>2. IsPrefix(Prefix(FlagOf[l[n]]), arg)
    BY <1>1, <1>2, <2>1
  <2> QED
    BY <2>2 DEF Candidates, Recognises
<1>4. ASSUME NEW m \in Candidates(l, arg), m < n, l[m] # l[n]
      PROVE  /\ FlagOf[l[m]].type = "bool" /\ IsPrefix(FlagOf[l[m]].name, FlagOf[l[n]].name)
             /\ ~Parses(FlagOf[l[m]], arg)
  <2>1. m \in 1 .. n - 1 /\ l[m] \in FlagIds /\ IsPrefix(Prefix(FlagOf[l[m]]), arg)
    BY <1>4 DEF Candidates, Recognises
  <2>2. FlagOf[l[n]].name # FlagOf[l[m]].name
    BY <1>1, <1>4, <2>1, NamesAssumption
  <2>3. CASE FlagOf[l[m]].type = "bool"
    <3>1. IsPrefix(Dashes \o FlagOf[l[m]].name, arg)
      BY <1>2, <2>1, <2>3
    <3>2. IsPrefix(FlagOf[l[m]].name, FlagOf[l[n]].name)
      BY <1>1, <2>1, <3>1, SameName
    <3>3. Text(FlagOf[l[m]], arg) \notin BoolTexts
      <4>1. Text(FlagOf[l[m]], arg) = SubSeq(arg, Len(Dashes \o FlagOf[l[m]].name) + 1, Len(arg))
        BY <1>2, <2>1, <2>3 DEF Text
      <4> QED
        BY <1>1, <2>1, <2>2, <3>2, <4>1, ShadowReadsNothing
    <3> QED
      BY <2>3, <3>2, <3>3 DEF Parses, Readable, BoolTexts
  <2>4. CASE FlagOf[l[m]].type # "bool"
    <3>1. IsPrefix(Dashes \o FlagOf[l[m]].name \o <<"=">>, arg)
      BY <1>2, <2>1, <2>4
    <3>2. FlagOf[l[n]].name = FlagOf[l[m]].name
      <4>1. PICK a \in Seq(Tokens) : a = FlagOf[l[n]].name /\ \A k \in 1 .. Len(a) : a[k] # "="
        BY <1>1
      <4>2. PICK b \in Seq(Tokens) : b = FlagOf[l[m]].name /\ \A k \in 1 .. Len(b) : b[k] # "="
        BY <1>1, <2>1
      <4>3. IsPrefix(Dashes \o a \o <<"=">>, arg) /\ IsPrefix(Dashes \o b \o <<"=">>, arg)
        BY <3>1, <4>1, <4>2
      <4>4. /\ a \in Seq(Tokens) /\ b \in Seq(Tokens) /\ arg \in Seq(Tokens)
            /\ \A k \in 1 .. Len(a) : a[k] # "="
            /\ \A k \in 1 .. Len(b) : b[k] # "="
        BY <1>1, <4>1, <4>2
      <4>5. a = b
        BY ONLY <4>3, <4>4, SameName
      <4> QED
        BY <4>1, <4>2, <4>5
    <3> QED
      BY <2>2, <3>2
  <2> QED
    BY <2>3, <2>4
<1>5. PICK k \in Candidates(l, arg) : \A m \in Candidates(l, arg) : k <= m
  <2>1. Candidates(l, arg) \subseteq Nat /\ Candidates(l, arg) # {}
    BY <1>3 DEF Candidates
  <2>2. PICK k \in Candidates(l, arg) :
          \A m \in Candidates(l, arg) : <<m, k>> \notin OpToRel(<, Nat)
    BY <2>1, NatLessThanWellFounded, WFMin
  <2>3. \A m \in Candidates(l, arg) : ~(m < k)
    BY <2>1, <2>2 DEF OpToRel
  <2>4. \A m \in Candidates(l, arg) : m \in Nat
    BY DEF Candidates
  <2>5. \A m \in Candidates(l, arg) : k <= m
    BY <2>3, <2>4
  <2> QED
    BY <2>5
<1>6. k = n \/ k < n
  BY <1>3, <1>5 DEF Candidates
<1>7. IsFoundBy(l[k], l, arg) /\ k \in Nat /\ 1 <= k /\ n \in Nat
  BY <1>5 DEF IsFoundBy, Candidates
<1>8. CASE l[k] = l[n]
  BY <1>7, <1>8
<1>9. CASE l[k] # l[n]
  <2>1. k < n /\ k \in 1 .. n - 1
    BY <1>6, <1>7, <1>9
  <2> QED
    BY <1>4, <1>5, <1>7, <1>9, <2>1
<1> QED
  BY <1>8, <1>9

\* Whatever the arguments, the hooks and the calls are: the last value that could
\* be parsed is stored, and exactly unless its numeral was cut; unless one was
\* taken that was cut, true is returned exactly if all were parsed correctly and
\* no help is asked for; and --name=value reaches the flag of that name, or the
\* bool flag before it that takes it makes the result false.
THEOREM LineIsRead == Spec => []OutcomeInv
<1>1. FInv /\ OInv => OutcomeInv
  <2> SUFFICES ASSUME FInv, OInv, Returned PROVE OutcomeInv
    BY DEF OutcomeInv, LastGoodValueWins, TrueIffParsed, NamedFlagGetsItsValue
  <2>1. LastStored /\ FalseIffRefused
    BY DEF OInv
  <2>2. LastGoodValueWins
    BY <2>1 DEF LastGoodValueWins, LastStored, Cut
  <2>3. \A f \in FlagIds :
          /\ AcceptedBy(f) \subseteq GivenTo(f)
          /\ GivenTo(f) = AcceptedBy(f) <=> \A k \in GivenTo(f) : Parses(FlagOf[f], given[k])
    BY DEF AcceptedBy
  <2>4. ASSUME ~CutTaken
        PROVE  (\A f \in FlagIds : GivenTo(f) = AcceptedBy(f)) <=>
                 \A f \in FlagIds : \A k \in GivenTo(f) :
                   Parses(FlagOf[f], given[k]) /\ ~Cut(FlagOf[f], given[k])
    BY <2>3, <2>4 DEF CutTaken
  <2>5. TrueIffParsed
    BY <2>1, <2>4 DEF TrueIffParsed, FalseIffRefused
  <2>6. NamedFlagGetsItsValue
    <3> SUFFICES ASSUME NEW n \in DOMAIN list, NEW k \in Open,
                        IsPrefix(Dashes \o FlagOf[list[n]].name \o <<"=">>, given[k])
                 PROVE  k \in GivenTo(list[n]) \/ (Shadowed(n) /\ ~result)
      BY DEF NamedFlagGetsItsValue
    <3>1. list \in Seq(FlagIds)
      <4>1. list \in Lists \cup {<<>>} /\ <<>> \in Seq(FlagIds)
        BY DEF FInv, TypeOK
      <4> QED
        BY <4>1, ArgsAssumption
    <3>2. n \in 1 .. Len(list) /\ given[k] \in Args
      <4>1. given \in Seq(Args) /\ k \in DOMAIN given
        BY DEF FInv, TypeOK, Open
      <4> QED
        BY <4>1, <3>1
    <3>3. CASE IsFoundBy(list[n], list, given[k])
      BY <3>3 DEF GivenTo
    <3>4. ASSUME NEW m \in 1 .. n - 1, FlagOf[list[m]].type = "bool",
                 IsPrefix(FlagOf[list[m]].name, FlagOf[list[n]].name),
                 IsFoundBy(list[m], list, given[k]), ~Parses(FlagOf[list[m]], given[k])
          PROVE  Shadowed(n) /\ ~result
      <4>1. k \in GivenTo(list[m]) /\ k \notin AcceptedBy(list[m])
        BY <3>4 DEF GivenTo, AcceptedBy
      <4>2. list[m] \in FlagIds
        BY <3>1, <3>2
      <4>3. ~result
        BY <2>1, <4>1, <4>2 DEF FalseIffRefused
      <4> QED
        BY <3>4, <4>3 DEF Shadowed
    <3> QED
      BY <3>1, <3>2, <3>3, <3>4, NamedIsFound
  <2> QED
    BY <2>2, <2>5, <2>6 DEF OutcomeInv
<1>2. Spec => []OInv
  BY Invariance, OInvInit, OInvStep, PTL DEF Spec
<1> QED
  BY <1>1, <1>2, Invariance, PTL
=============================================================================
