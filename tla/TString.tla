------------------------------- MODULE TString -------------------------------
(***************************************************************************)
(* tstring and the TF_TString functions it is made of                      *)
(* (cmdlines/src/tstring.h, ctstring_internal.h).  An object is one of     *)
(* four representations in the same 24 bytes: SMALL has its characters in  *)
(* the object, LARGE owns a buffer of the heap, VIEW and OFFSET point to   *)
(* characters they do not own.                                             *)
(*                                                                         *)
(* The functions are operators from memory to memory: m.obj is the objects *)
(* and m.heap the buffers, a freed one being <<>>.  What lies in memory    *)
(* behind the terminator, in a freed buffer and in an object that is no    *)
(* longer SMALL is Wild.  realloc() moves: the worst that it may do.       *)
(* The lowest two bits of the size field, the type, are a field of their   *)
(* own, but for OFFSET, whose size field is read by its bytes.             *)
(*                                                                         *)
(* What is promised (tstring.h:48) is the semantics of std::string.  text  *)
(* is a history variable with the text a std::string would hold after the  *)
(* same calls, and each method changes both side by side.  A text is Lost  *)
(* - once its base has changed under a view, which the caller has to       *)
(*   avoid;                                                                *)
(* - from the beginning if it is that of an OFFSET string whose size does  *)
(*   not come out of TF_le32toh as it was (Misread);                       *)
(* - after a call whose argument lies in the object's own text, in the     *)
(*   cases that tstring has no answer to (AssignString, AssignInside,      *)
(*   AppendTo, AppendInside, InsertString).                                *)
(***************************************************************************)
EXTENDS Integers, Sequences, SequencesExt, FiniteSets

CONSTANTS Objects, Temporary,  \* the tstrings, and the result of operator+
          Buffers,             \* bound: what malloc() may return
          Chars, Nul,          \* characters, in their order, and '\0'
          Texts,               \* the arrays that outlive all objects
          SmallCapacity,       \* TF_TString_SmallCapacity
          Alignment,           \* TF_align16
          MaxLen,              \* bound: the longest text
          Reserves,            \* arguments of reserve()
          ByteValues, SizeBytes, \* values of a byte, bytes of a uint32_t: 256 and 4
          Wild, Dead, Lost, NoObject

ASSUME SizesAssumption ==
  /\ SmallCapacity \in Nat \ {0} /\ Alignment \in Nat \ {0}
  /\ MaxLen \in Nat /\ Reserves \subseteq Nat
  /\ ByteValues \in Nat \ {0} /\ SizeBytes \in Nat
ASSUME CharsAssumption == Chars \subseteq Nat /\ Wild \notin Chars /\ Nul \notin Chars
\* A pointer tells what it points to, and the marks are no objects and no texts.
ASSUME PointersAssumption ==
  /\ Texts \subseteq Seq(Chars) /\ Texts \cap (Buffers \cup Objects \cup {Temporary}) = {}
  /\ Buffers \cap (Objects \cup {Temporary}) = {} /\ Temporary \notin Objects
  /\ NoObject \notin Objects \cup {Temporary} /\ {Dead, Lost} \cap Seq(Chars) = {} /\ Dead # Lost
\* malloc() finds a free buffer, even if every object has one.
ASSUME BuffersAssumption ==
  Buffers # {} /\ \A f \in [Objects \cup {Temporary} -> Buffers] : \E b \in Buffers : b \notin Range(f)

VARIABLES obj, heap,
          from,   \* the object whose text a view shows, as its user knows
          text    \* history: what a std::string would hold

vars == <<obj, heap, from, text>>
memory == [obj |-> obj, heap |-> heap]

-----------------------------------------------------------------------------
(* Memory                                                                  *)

Align(n) == ((n + Alignment - 1) \div Alignment) * Alignment
CapacityFor(n) == Align(n + 1) - 1

\* The first n characters, those nobody has written being Wild.
Grown(t, n) == [i \in 1 .. n |-> IF i \in DOMAIN t THEN t[i] ELSE Wild]

\* A region for cap characters and the terminator, with t in it.
Terminated(t, cap) == Grown(Append(t, Nul), cap + 1)

Small(t) == [type |-> "small", size |-> Len(t), str |-> Terminated(t, SmallCapacity)]
Large(n, cap, ptr) == [type |-> "large", size |-> n, cap |-> cap, ptr |-> ptr]
View(n, ptr) == [type |-> "view", size |-> n, ptr |-> ptr]
\* Little-endian, with the type TF_TSTR_OFFSET, 2, in the lowest bits.
Offset(t) == [type |-> "offset", size |-> 4 * Len(t) + 2, ptr |-> t]
Gone == [type |-> "dead"]

\* What a pointer points to: a buffer, the inside of an object or an array.
Region(m, ptr) ==
  IF ptr \in Buffers THEN m.heap[ptr]
  ELSE IF ptr \in DOMAIN m.obj
       THEN IF m.obj[ptr].type = "small" THEN m.obj[ptr].str ELSE <<>>
       ELSE Append(ptr, Nul)

\* n characters from ptr[i] on; memcpy and memmove read them before they write.
Bytes(m, ptr, i, n) ==
  [k \in 1 .. n |-> LET r == Region(m, ptr)
                    IN IF i + k \in DOMAIN r THEN r[i + k] ELSE Wild]

\* TF_le32toh is TF_swap32 where the host is little-endian: the bytes are taken
\* from the low end of x, one after the other, and shifted into the result.
TF_le32toh(x) ==
  LET swap[k \in 0 .. SizeBytes] ==
        IF k = 0 THEN [rest |-> x, swapped |-> 0]
        ELSE [rest |-> swap[k - 1].rest \div ByteValues,
              swapped |-> swap[k - 1].swapped * ByteValues + (swap[k - 1].rest % ByteValues)]
  IN swap[SizeBytes].swapped

GetSize(m, o) ==
  IF m.obj[o].type = "offset" THEN TF_le32toh(m.obj[o].size) \div 4 ELSE m.obj[o].size

GetCapacity(m, o) ==
  CASE m.obj[o].type = "small" -> SmallCapacity
    [] m.obj[o].type = "large" -> m.obj[o].cap
    [] OTHER -> 0

GetDataPointer(m, o) == IF m.obj[o].type = "small" THEN o ELSE m.obj[o].ptr

Data(m, o) == Bytes(m, GetDataPointer(m, o), 0, GetSize(m, o))

Overwrite(r, i, s) ==
  [k \in DOMAIN r |-> IF k - i \in DOMAIN s THEN s[k - i] ELSE r[k]]

\* s is written to the text of o, which it owns, from position i on.
Write(m, o, i, s) ==
  IF m.obj[o].type = "small"
  THEN [m EXCEPT !.obj[o].str = Overwrite(@, i, s)]
  ELSE [m EXCEPT !.heap[m.obj[o].ptr] = Overwrite(@, i, s)]

-----------------------------------------------------------------------------
(* TF_TString                                                              *)

InitString(m, o) == [m EXCEPT !.obj[o] = Small(<<>>)]

Free(m, o) == IF m.obj[o].type = "large" THEN [m EXCEPT !.heap[m.obj[o].ptr] = <<>>] ELSE m

Dealloc(m, o) == IF m.obj[o].type = "large" THEN InitString(Free(m, o), o) ELSE m

\* o gets a new buffer, malloc()ed or realloc()ed, for cap characters.
MoveTo(m, o, t, cap) ==
  LET new == CHOOSE b \in Buffers : m.heap[b] = <<>>
  IN [Free(m, o) EXCEPT !.heap[new] = Terminated(t, cap),
                        !.obj[o] = Large(Len(t), cap, new)]

NewCapacity(m, o, n) ==
  LET cap == GetCapacity(m, o)
  IN IF n < GetSize(m, o) /\ n < cap \div 2 THEN CapacityFor(cap \div 2)
     ELSE IF n > cap THEN CapacityFor(n) ELSE cap

\* The text of o stays where it is when it is resized to n characters.
Stays(m, o, n) ==
  IF n <= SmallCapacity THEN m.obj[o].type = "small" ELSE NewCapacity(m, o, n) = GetCapacity(m, o)

\* What is cut off stays behind the terminator.
Cut(m, o, n) == [Write(m, o, n, <<Nul>>) EXCEPT !.obj[o].size = n]

\* A slip to be caught: the text that stays in its buffer gets no new terminator.
ResizeInPlace(m, o, n) ==
  LET t == Grown(Data(m, o), n)
  IN IF Stays(m, o, n) THEN [m EXCEPT !.obj[o].size = n]
     ELSE IF n <= SmallCapacity THEN [Free(m, o) EXCEPT !.obj[o] = Small(t)]
     ELSE MoveTo(m, o, t, NewCapacity(m, o, n))

ResizeUninitialized(m, o, n) ==
  LET t == Grown(Data(m, o), n)
      cap == NewCapacity(m, o, n)
  IN IF n < GetSize(m, o) /\ Stays(m, o, n) THEN Cut(m, o, n)
     ELSE IF n <= SmallCapacity THEN [Free(m, o) EXCEPT !.obj[o] = Small(t)]
     ELSE IF cap # GetCapacity(m, o) THEN MoveTo(m, o, t, cap)
     ELSE [m EXCEPT !.heap[m.obj[o].ptr] = Terminated(t, cap), !.obj[o].size = n]

\* Before it is written to, a VIEW or OFFSET is made SMALL or LARGE.
GetMutable(m, o) ==
  IF m.obj[o].type \in {"view", "offset"} THEN ResizeUninitialized(m, o, GetSize(m, o)) ELSE m

Reserve(m, o, n) ==
  IF n <= SmallCapacity \/ (m.obj[o].type = "large" /\ n <= m.obj[o].cap) THEN m
  ELSE MoveTo(m, o, Data(m, o), CapacityFor(IF n > GetSize(m, o) THEN n ELSE GetSize(m, o)))

Fill(c, n) == [k \in 1 .. n |-> c]

Resize(m, o, n, c) ==
  Write(ResizeUninitialized(m, o, n), o, GetSize(m, o), Fill(c, n - GetSize(m, o)))

AssignView(m, o, ptr, n) == [Dealloc(m, o) EXCEPT !.obj[o] = View(n, ptr)]

\* The n characters at ptr[i] are read when o has been resized.
AppendN(m, o, ptr, i, n) ==
  LET grown == ResizeUninitialized(m, o, GetSize(m, o) + n)
  IN IF n = 0 THEN m ELSE Write(grown, o, GetSize(m, o), Bytes(grown, ptr, i, n))

AppendString(m, o, s) == AppendN(m, o, GetDataPointer(m, s), 0, GetSize(m, s))

Copy(m, o, ptr, i, n) ==
  LET resized == ResizeUninitialized(m, o, n)
  IN Write(resized, o, 0, Bytes(resized, ptr, i, n))

Assign(m, o, s) ==
  LET d == Dealloc(m, o)
  IN CASE o = s -> m
       [] o # s /\ d.obj[s].type \in {"small", "view"} -> [d EXCEPT !.obj[o] = d.obj[s]]
       [] o # s /\ d.obj[s].type = "large" -> Copy(d, o, d.obj[s].ptr, 0, GetSize(d, s))
       [] o # s /\ d.obj[s].type = "offset" -> AssignView(d, o, d.obj[s].ptr, GetSize(d, s))

\* A slip to be caught: a buffer that was moved is not taken from its owner.
MoveSharing(m, o, s) ==
  LET d == Dealloc(m, o)
  IN CASE o = s -> m
       [] o # s /\ d.obj[s].type # "offset" -> [d EXCEPT !.obj[o] = d.obj[s]]
       [] o # s /\ d.obj[s].type = "offset" -> AssignView(d, o, d.obj[s].ptr, GetSize(d, s))

Move(m, o, s) ==
  LET d == Dealloc(m, o)
  IN CASE o = s -> m
       [] o # s /\ d.obj[s].type \in {"small", "view"} -> [d EXCEPT !.obj[o] = d.obj[s]]
       [] o # s /\ d.obj[s].type = "large" -> InitString([d EXCEPT !.obj[o] = d.obj[s]], s)
       [] o # s /\ d.obj[s].type = "offset" -> AssignView(d, o, d.obj[s].ptr, GetSize(d, s))

Erase(m, o, pos, len) ==
  LET g == GetMutable(m, o)
      moved == Write(g, o, pos, Bytes(g, GetDataPointer(g, o), pos + len, GetSize(g, o) - len - pos))
  IN ResizeUninitialized(moved, o, GetSize(g, o) - len)

\* The gap for n characters at pos.
Open(m, o, pos, n) ==
  LET grown == ResizeUninitialized(m, o, GetSize(m, o) + n)
  IN Write(grown, o, pos + n, Bytes(grown, GetDataPointer(grown, o), pos, GetSize(m, o) - pos))

\* A slip to be caught: the gap is filled before what is in it has moved.
InsertEarly(m, o, pos, s, subpos, sublen) ==
  LET grown == ResizeUninitialized(m, o, GetSize(m, o) + sublen)
      filled == Write(grown, o, pos, Bytes(grown, GetDataPointer(grown, s), subpos, sublen))
  IN Write(filled, o, pos + sublen,
           Bytes(filled, GetDataPointer(filled, o), pos, GetSize(m, o) - pos))

Insert(m, o, pos, s, subpos, sublen) ==
  LET opened == Open(m, o, pos, sublen)
  IN Write(opened, o, pos, Bytes(opened, GetDataPointer(opened, s), subpos, sublen))

InsertFill(m, o, pos, n, c) == Write(Open(m, o, pos, n), o, pos, Fill(c, n))

Swap(m, o, s) == [m EXCEPT !.obj[o] = m.obj[s], !.obj[s] = m.obj[o]]

\* o = a + b: the sum is built in a temporary, moved from and destroyed.
Plus(m, o, a, b) ==
  LET reserved == Reserve(InitString(m, Temporary), Temporary, GetSize(m, a) + GetSize(m, b))
      sum == AppendString(AppendString(reserved, Temporary, a), Temporary, b)
  IN [Dealloc(Move(sum, o, Temporary), Temporary) EXCEPT !.obj[Temporary] = Gone]

\* memcmp of the common part, then the sizes decide.
Compare(s, t) ==
  LET common == 1 .. (IF Len(s) < Len(t) THEN Len(s) ELSE Len(t))
      differ == {i \in common : s[i] # t[i]}
      first == CHOOSE i \in differ : \A j \in differ : i <= j
  IN CASE differ # {} -> IF s[first] < t[first] THEN -1 ELSE 1
       [] OTHER -> IF Len(s) < Len(t) THEN -1 ELSE IF Len(s) > Len(t) THEN 1 ELSE 0

-----------------------------------------------------------------------------
(* The methods.  text is what the objects would hold if they were          *)
(* std::strings and std::string_views.                                     *)

\* The size of an OFFSET string is not that of its text.
Misread(o) == GetSize(memory, o) # Len(obj[o].ptr)

\* Strings begin their lives as OFFSET strings, mapped into a tensor's buffer,
\* or are constructed.
Init ==
  /\ obj \in [Objects \cup {Temporary} -> {Gone} \cup {Offset(t) : t \in Texts}]
  /\ obj[Temporary] = Gone
  /\ heap = [b \in Buffers |-> <<>>]
  /\ from = [o \in Objects |-> NoObject]
  /\ text = [o \in Objects |-> IF obj[o] = Gone THEN Dead
                                 ELSE IF Misread(o) THEN Lost ELSE obj[o].ptr]

Exists(o) == obj[o].type # "dead"
Readable(o) == text[o] \notin {Dead, Lost}
Owns(o) == obj[o].type \in {"small", "large"}

\* s is o or a view of o.
Aliases(o, s) == s = o \/ from[s] = o

\* The text of o is its own, and is no longer in m where it is in memory.
Moves(o, m) == Owns(o) /\ GetDataPointer(m, o) # GetDataPointer(memory, o)

\* An argument: not a view of the object that changes.
Argument(o, s) == Readable(s) /\ from[s] # o

\* A call on the objects of changed: memory becomes m, their texts those of
\* texts, and what is a view then shows the text of bases[o].  Other views of
\* those objects are lost.
Call(m, changed, bases, texts) ==
  LET gone == {v \in Objects \ changed : from[v] \in changed}
  IN /\ obj' = m.obj /\ heap' = m.heap
     /\ text' = [v \in Objects |-> IF v \in gone THEN Lost ELSE texts[v]]
     /\ from' = [v \in Objects |->
                   IF v \notin gone /\ m.obj[v].type = "view" THEN bases[v] ELSE NoObject]

Changes(o, m, t) == Call(m, {o}, from, [text EXCEPT ![o] = t])
Replaces(o, m, b, t) == Call(m, {o}, [from EXCEPT ![o] = b], [text EXCEPT ![o] = t])

\* Constructors begin with an empty string.
Constructed(o) == IF Exists(o) THEN memory ELSE InitString(memory, o)

\* tstring(const char*, size_t) and its like, operator=, assign().
AssignText(o, t) == Changes(o, Copy(Constructed(o), o, t, 0, Len(t)), t)

\* The same for n characters of the object's own text, from c_str()[i] on.  They
\* are lost if the text is moved or freed first, or if its new end is in them.
AssignInside(o, i, n) ==
  LET m == Copy(memory, o, GetDataPointer(memory, o), i, n)
  IN /\ Readable(o) /\ i + n <= Len(text[o])
     /\ Changes(o, m, IF n > 0 /\ (Moves(o, m) \/ (Owns(o) /\ i \in 1 .. n)) THEN Lost
                      ELSE SubSeq(text[o], i + 1, i + n))

\* tstring(n, c).
ConstructFill(o, n, c) ==
  ~Exists(o) /\ Changes(o, Resize(InitString(memory, o), o, n, c), Fill(c, n))

Destroy(o) ==
  Exists(o) /\ Changes(o, [Dealloc(memory, o) EXCEPT !.obj[o] = Gone], Dead)

AssignChar(o, c) ==
  /\ Readable(o)
  /\ Changes(o, Write(ResizeUninitialized(memory, o, 1), o, 0, <<c>>), <<c>>)

\* The copy constructor and assignment.  A view of o, assigned to o, would show
\* what o has just given up.
AssignString(o, s) ==
  LET own == from[s] = o
  IN Readable(s) /\ Replaces(o, Assign(Constructed(o), o, s), IF own THEN NoObject ELSE from[s],
                             IF own THEN Lost ELSE text[s])

\* The move constructor and assignment.  Only a buffer can be moved; its former
\* owner is left empty.
MoveString(o, s) ==
  LET own == from[s] = o
  IN /\ Readable(s)
     /\ Call(Move(Constructed(o), o, s), {o, s},
             [from EXCEPT ![o] = IF own THEN NoObject ELSE from[s]],
             [text EXCEPT ![o] = IF own THEN Lost ELSE text[s],
                          ![s] = CASE own -> Lost
                                   [] ~own /\ obj[s].type = "large" /\ o # s -> <<>>
                                   [] OTHER -> text[s]])

\* assign_as_view() of the first n characters of an array and of another object.
ViewText(o, t, n) ==
  Exists(o) /\ Replaces(o, AssignView(memory, o, t, n), NoObject, SubSeq(t, 1, n))

ViewString(o, s) ==
  /\ Exists(o) /\ o # s /\ Argument(o, s)
  /\ Replaces(o, AssignView(memory, o, GetDataPointer(memory, s), GetSize(memory, s)),
              CASE obj[s].type = "view" -> from[s]
                [] obj[s].type = "offset" -> NoObject
                [] OTHER -> s,
              text[s])

Fits(n) == n <= MaxLen

\* resize(), append(n, c) and push_back(); resize_uninitialized() by a user who
\* writes what was grown.
ResizeString(o, n, c) ==
  /\ Readable(o) /\ n > Len(text[o])
  /\ Changes(o, Resize(memory, o, n, c), text[o] \o Fill(c, n - Len(text[o])))

\* The same for what is no longer than the text, and clear().
Shorten(o, n) ==
  /\ Readable(o) /\ n <= Len(text[o])
  /\ Changes(o, ResizeUninitialized(memory, o, n), SubSeq(text[o], 1, n))

ReserveString(o, n) == Readable(o) /\ Changes(o, Reserve(memory, o, n), text[o])

\* (*this)[i] = c, through mdata().
Mutate(o, i, c) ==
  /\ Readable(o) /\ i < Len(text[o])
  /\ Changes(o, Write(GetMutable(memory, o), o, i, <<c>>), ReplaceAt(text[o], i + 1, c))

\* A string appended to itself is read where it was before it grew: its text is
\* lost if it was its own and has moved, to the heap or there.
AppendTo(o, s) ==
  LET m == AppendString(memory, o, s)
  IN /\ Readable(o) /\ Readable(s) /\ Fits(Len(text[o]) + Len(text[s]))
     /\ Changes(o, m, IF Aliases(o, s) /\ Moves(o, m) THEN Lost ELSE text[o] \o text[s])

\* So are n characters of its own text, from c_str()[i] on.
AppendInside(o, i, n) ==
  LET m == AppendN(memory, o, GetDataPointer(memory, o), i, n)
  IN /\ Readable(o) /\ i + n <= Len(text[o]) /\ Fits(Len(text[o]) + n)
     /\ Changes(o, m, IF Moves(o, m) THEN Lost ELSE text[o] \o SubSeq(text[o], i + 1, i + n))

EraseFrom(o, pos, len) ==
  /\ Readable(o) /\ pos + len <= Len(text[o])
  /\ Changes(o, Erase(memory, o, pos, len),
             SubSeq(text[o], 1, pos) \o SubSeq(text[o], pos + len + 1, Len(text[o])))

\* t between the first pos characters of o and the others.
Inserted(o, pos, t) == SubSeq(text[o], 1, pos) \o t \o SubSeq(text[o], pos + 1, Len(text[o]))

\* A string inserted into itself is read when the gap has already been opened:
\* what begins behind pos has moved away.  A view of o is also lost if o has moved.
InsertString(o, pos, s, subpos, sublen) ==
  LET m == Insert(memory, o, pos, s, subpos, sublen)
      gone == subpos > pos \/ (o # s /\ Moves(o, m))
  IN /\ Readable(o) /\ Readable(s) /\ Fits(Len(text[o]) + sublen)
     /\ pos <= Len(text[o]) /\ subpos + sublen <= Len(text[s])
     /\ Changes(o, m, IF Aliases(o, s) /\ sublen > 0 /\ gone THEN Lost
                      ELSE Inserted(o, pos, SubSeq(text[s], subpos + 1, subpos + sublen)))

InsertChars(o, pos, n, c) ==
  /\ Readable(o) /\ pos <= Len(text[o]) /\ Fits(Len(text[o]) + n)
  /\ Changes(o, InsertFill(memory, o, pos, n, c), Inserted(o, pos, Fill(c, n)))

\* "Invalid for OFFSET".
SwapStrings(o, s) ==
  /\ Readable(o) /\ Argument(o, s) /\ from[o] # s
  /\ "offset" \notin {obj[o].type, obj[s].type}
  /\ Call(Swap(memory, o, s), {o, s}, [from EXCEPT ![o] = from[s], ![s] = from[o]],
          [text EXCEPT ![o] = text[s], ![s] = text[o]])

\* o = a + b.
Concatenate(o, a, b) ==
  /\ Exists(o) /\ Readable(a) /\ Readable(b) /\ Fits(Len(text[a]) + Len(text[b]))
  /\ Changes(o, Plus(memory, o, a, b), text[a] \o text[b])

Sizes == 0 .. MaxLen

Assignments(o) ==
  \/ \E t \in Texts : AssignText(o, t) \/ \E n \in 0 .. Len(t) : ViewText(o, t, n)
  \/ \E i, n \in Sizes : AssignInside(o, i, n)
  \/ \E s \in Objects : AssignString(o, s) \/ MoveString(o, s) \/ ViewString(o, s)
  \/ \E c \in Chars : AssignChar(o, c) \/ \E n \in Sizes : ConstructFill(o, n, c)
  \/ \E a, b \in Objects : Concatenate(o, a, b)

Modifiers(o) ==
  \/ \E n \in Sizes : Shorten(o, n) \/ \E c \in Chars : ResizeString(o, n, c)
  \/ \E n \in Reserves : ReserveString(o, n)
  \/ \E i \in Sizes, c \in Chars : Mutate(o, i, c)
  \/ \E i, n \in Sizes : AppendInside(o, i, n)
  \/ \E pos, n \in Sizes : EraseFrom(o, pos, n) \/ \E c \in Chars : InsertChars(o, pos, n, c)
  \/ \E s \in Objects :
       \/ AppendTo(o, s) \/ SwapStrings(o, s)
       \/ \E pos, subpos, sublen \in Sizes : InsertString(o, pos, s, subpos, sublen)

Next == \E o \in Objects : Assignments(o) \/ Modifiers(o) \/ Destroy(o)

Spec == Init /\ [][Next]_vars

-----------------------------------------------------------------------------
(* Properties                                                              *)

TypeOK ==
  /\ \A b \in Buffers : heap[b] \in Seq(Chars \cup {Nul, Wild})
  /\ obj[Temporary] = Gone /\ DOMAIN obj = Objects \cup {Temporary}
  /\ \A o \in Objects :
       /\ text[o] \in Seq(Chars) \cup {Dead, Lost} /\ (text[o] = Dead <=> ~Exists(o))
       /\ from[o] # NoObject => obj[o].type = "view"

Owners(b) == {o \in Objects : obj[o].type = "large" /\ obj[o].ptr = b}

\* Every buffer is either free or owned by one LARGE string, which knows its
\* capacity: nothing is leaked, freed twice or shared by two strings, whatever
\* was copied, moved, swapped and added.
OneOwner ==
  \A b \in Buffers :
    /\ Cardinality(Owners(b)) = (IF heap[b] = <<>> THEN 0 ELSE 1)
    /\ \A o \in Owners(b) : Len(heap[b]) = obj[o].cap + 1

HeapInv == TypeOK /\ OneOwner

\* c_str() of a string that owns its text ends behind it: the terminator is
\* there, within the capacity, after every call that moved or cut the text.
OwnedTextEnds ==
  \A o \in Objects :
    obj[o].type \in {"small", "large"} =>
      /\ GetSize(memory, o) <= GetCapacity(memory, o)
      /\ Bytes(memory, GetDataPointer(memory, o), GetSize(memory, o), 1) = <<Nul>>

\* "Expect equivalent semantics with synonymous std::string methods": whatever
\* the representations, an object's characters are those of a std::string after
\* the same calls, and calls on others and on the base of a view that was taken
\* again leave them alone.
HoldsItsText == \A o \in Objects : Readable(o) => Data(memory, o) = text[o]

\* compare() is an order, and finds two strings equal exactly if operator==
\* does: one way or the other way around, and transitively.
Comparable == {o \in Objects : Readable(o)}
ComparesAsAnOrder ==
  \A a, b, c \in Comparable :
    LET s == Data(memory, a)  t == Data(memory, b)  u == Data(memory, c)
    IN /\ Compare(s, t) = -Compare(t, s) /\ (Compare(s, t) = 0 <=> s = t)
       /\ Compare(s, t) <= 0 /\ Compare(t, u) <= 0 => Compare(s, u) <= 0

\* What an object holds, and what comparing it says.
TextInv == HoldsItsText /\ ComparesAsAnOrder
=============================================================================
