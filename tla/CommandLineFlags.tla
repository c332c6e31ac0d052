--------------------------- MODULE CommandLineFlags ---------------------------
(***************************************************************************)
(* Flags::Parse of cmdlines/src/command_line_flags.cc.  It walks argv,     *)
(* hands each argument to the first flag of the list that recognises it,   *)
(* collects the rest in unknown_flags, and finally moves those to the      *)
(* front of argv and corrects argc.                                        *)
(*                                                                         *)
(* A text is a sequence of tokens, cut so that one text is a prefix of     *)
(* another here exactly when it is one there: a flag named "v" recognises  *)
(* the beginning of "--verbose".  Numbers have the width of their type.    *)
(***************************************************************************)
EXTENDS Integers, Sequences, SequencesExt, FiniteSetsExt

CONSTANTS
  Args,        \* the arguments the command line is made of
  MaxArgs,     \* bound: arguments after argv[0]
  FlagOf,      \* a function: the flags, each [name, type, refuses]: refuses holds
               \* the values the hook returns false for
  Lists,       \* the flag_lists passed to Parse: sequences of flags
  Numeral,     \* a function: the texts sscanf reads as one whole number
  Decimals,    \* the other texts sscanf reads as one float
  IntBits, LongBits,  \* the widths of int32 and int64
  MaxCalls,    \* bound: calls of Flags::Parse on one argv
  Program, Null, Unset  \* argv[0], nullptr, what a variable holds at first

FlagIds == DOMAIN FlagOf
Dashes == <<"--">>
Help == <<"--", "help">>

ASSUME ArgsAssumption ==
  /\ MaxArgs \in Nat /\ MaxCalls \in Nat
  /\ Null \notin Args \cup {Program}
  /\ \A list \in Lists : list \in Seq(FlagIds)

\* A name has no "=" in it, and is the name of one flag.
ASSUME NamesAssumption ==
  /\ Args \subseteq Seq(STRING)
  /\ \A f \in FlagIds : FlagOf[f].name \in Seq(STRING \ {"="})
  /\ \A f, g \in FlagIds : FlagOf[f].name = FlagOf[g].name => f = g

VARIABLES
  argv, argc,    \* the caller's, updated in place: [0 .. n -> text], int
  list,          \* flag_list
  i, unknown,    \* the loop's index and unknown_flags
  result,        \* result, and after the return what was returned
  value,         \* *dst of each flag
  updated,       \* *dst_updated of each flag
  pc, calls,
  given, before  \* history: argv's arguments and the values at the call

parse == <<list, i, unknown, result>>
dsts == <<value, updated>>
history == <<given, before>>
vars == <<argv, argc, parse, dsts, pc, calls, history>>

\* argv[from] .. argv[argc - 1]
Rest(from) == [k \in 1..(argc - from) |-> argv[from + k - 1]]

Init ==
  /\ \E n \in 0..MaxArgs : \E args \in [1..n -> Args] :
       /\ argv = [k \in 0..(n + 1) |-> IF k = 0 THEN Program
                                       ELSE IF k = n + 1 THEN Null ELSE args[k]]
       /\ argc = n + 1
       /\ given = args
  /\ list = <<>> /\ i = 1 /\ unknown = <<>> /\ result = TRUE
  /\ value = [f \in FlagIds |-> Unset] /\ before = value
  /\ updated = [f \in FlagIds |-> FALSE]
  /\ pc = "idle" /\ calls = 0

-----------------------------------------------------------------------------
(* Reading one argument.                                                   *)

\* What ConsumePrefix must take off before a value begins: every type but bool
\* asks for the "=".
Prefix(flag) == Dashes \o flag.name \o (IF flag.type = "bool" THEN <<>> ELSE <<"=">>)

Recognises(flag, arg) == IsPrefix(Prefix(flag), arg)

Text(flag, arg) == SubSeq(arg, Len(Prefix(flag)) + 1, Len(arg))

Modulo(n, bits) == ((n + 2^(bits - 1)) % 2^bits) - 2^(bits - 1)

Clamp(n, bits) ==
  IF n >= 2^(bits - 1) THEN 2^(bits - 1) - 1
  ELSE IF n < -(2^(bits - 1)) THEN -(2^(bits - 1)) ELSE n

\* The texts a flag's type can read, and what it reads: strtol saturates at the
\* width of a long, and "%d" stores its low bits.
Readable(type, text) ==
  CASE type = "bool"   -> text \in {<<>>, <<"=", "true">>, <<"=", "false">>}
    [] type = "string" -> TRUE
    [] type = "float"  -> text \in DOMAIN Numeral \cup Decimals
    [] type \in {"int32", "int64"} -> text \in DOMAIN Numeral

Read(type, text) ==
  CASE type = "bool"  -> text # <<"=", "false">>
    [] type = "int32" -> Modulo(Clamp(Numeral[text], LongBits), IntBits)
    [] type = "int64" -> Clamp(Numeral[text], LongBits)
    [] type \in {"string", "float"} -> text

\* value_parsing_ok: the text can be read and the hook takes the value.
Parses(flag, arg) ==
  /\ Readable(flag.type, Text(flag, arg))
  /\ Read(flag.type, Text(flag, arg)) \notin flag.refuses

ReadBy(flag, arg) == Read(flag.type, Text(flag, arg))

\* The flags of l that recognise arg; the loop over flag_list takes the first.
Candidates(l, arg) == {k \in DOMAIN l : Recognises(FlagOf[l[k]], arg)}

IsFoundBy(f, l, arg) ==
  \E k \in Candidates(l, arg) : l[k] = f /\ \A m \in Candidates(l, arg) : k <= m

-----------------------------------------------------------------------------
(* Flags::Parse.                                                           *)

\* Flags::Parse(&argc, argv, l) is called.
Call(l) ==
  /\ pc = "idle" /\ calls < MaxCalls
  /\ calls' = calls + 1
  /\ list' = l /\ i' = 1 /\ unknown' = <<>> /\ result' = TRUE
  /\ given' = Rest(1) /\ before' = value
  /\ pc' = "scan"
  /\ UNCHANGED <<argv, argc, dsts>>

Scanning == pc = "scan" /\ i < argc

\* A slip to be caught: "--" itself is not kept.
ScanDashesDropped ==
  /\ Scanning /\ argv[i] = Dashes
  /\ unknown' = unknown \o Rest(i + 1)
  /\ i' = argc
  /\ UNCHANGED <<argv, argc, list, result, dsts, pc, calls, history>>

\* "--": it and everything after it are kept.
ScanDashes ==
  /\ Scanning /\ argv[i] = Dashes
  /\ unknown' = unknown \o Rest(i)
  /\ i' = argc
  /\ UNCHANGED <<argv, argc, list, result, dsts, pc, calls, history>>

\* A slip to be caught: the result speaks of the last flag read only.
ScanFlagForgetting(f) ==
  /\ Scanning /\ argv[i] # Dashes
  /\ IsFoundBy(f, list, argv[i])
  /\ LET flag == FlagOf[f] IN
     IF Parses(flag, argv[i])
     THEN /\ value' = [value EXCEPT ![f] = ReadBy(flag, argv[i])]
          /\ updated' = [updated EXCEPT ![f] = TRUE]
          /\ result' = TRUE
     ELSE result' = FALSE /\ UNCHANGED dsts
  /\ i' = i + 1
  /\ UNCHANGED <<argv, argc, list, unknown, pc, calls, history>>

\* The first flag that recognises argv[i] reads it: its hook stores the value,
\* or the whole parse is going to return false.
ScanFlag(f) ==
  /\ Scanning /\ argv[i] # Dashes
  /\ IsFoundBy(f, list, argv[i])
  /\ LET flag == FlagOf[f] IN
     IF Parses(flag, argv[i])
     THEN /\ value' = [value EXCEPT ![f] = ReadBy(flag, argv[i])]
          /\ updated' = [updated EXCEPT ![f] = TRUE]
          /\ UNCHANGED result
     ELSE result' = FALSE /\ UNCHANGED dsts
  /\ i' = i + 1
  /\ UNCHANGED <<argv, argc, list, unknown, pc, calls, history>>

\* A slip to be caught: --help is looked for in the loop and not kept.
ScanUnknownHelp ==
  /\ Scanning /\ argv[i] # Dashes
  /\ Candidates(list, argv[i]) = {}
  /\ unknown' = IF argv[i] = Help THEN unknown ELSE Append(unknown, argv[i])
  /\ i' = i + 1
  /\ UNCHANGED <<argv, argc, list, result, dsts, pc, calls, history>>

\* No flag recognises argv[i].
ScanUnknown ==
  /\ Scanning /\ argv[i] # Dashes
  /\ Candidates(list, argv[i]) = {}
  /\ unknown' = Append(unknown, argv[i])
  /\ i' = i + 1
  /\ UNCHANGED <<argv, argc, list, result, dsts, pc, calls, history>>

\* unknown_flags is written over the front of argv and closed with nullptr.
Return ==
  /\ pc = "scan" /\ i = argc
  /\ argv' = [k \in DOMAIN argv |->
                IF k \in DOMAIN unknown THEN unknown[k]
                ELSE IF k = Len(unknown) + 1 THEN Null ELSE argv[k]]
  /\ argc' = Len(unknown) + 1
  /\ result' = (result /\ (argc' < 2 \/ argv'[1] # Help))
  /\ pc' = "idle"
  /\ UNCHANGED <<list, i, unknown, dsts, calls, history>>

Next ==
  \/ \E l \in Lists : Call(l)
  \/ ScanDashes
  \/ \E f \in FlagIds : ScanFlag(f)
  \/ ScanUnknown
  \/ Return

Spec == Init /\ [][Next]_vars

-----------------------------------------------------------------------------
(* What the call did, said of the whole argument list at once.             *)

Returned == pc = "idle" /\ calls > 0

\* The arguments before the first "--".
Open == {k \in DOMAIN given : \A m \in 1..k : given[m] # Dashes}

\* The positions of the arguments that f got.
GivenTo(f) == {k \in Open : IsFoundBy(f, list, given[k])}

AcceptedBy(f) == {k \in GivenTo(f) : Parses(FlagOf[f], given[k])}

Kept == {k \in DOMAIN given : \A f \in FlagIds : k \notin GivenTo(f)}

TypeOK ==
  /\ argc \in 1..(MaxArgs + 1) /\ i \in 1..(MaxArgs + 1) /\ calls \in 0..MaxCalls
  /\ \A k \in DOMAIN argv : argv[k] \in Args \cup {Program, Null}
  /\ argv[0] = Program /\ argv[argc] = Null
  /\ list \in Lists \cup {<<>>}
  /\ unknown \in Seq(Args) /\ given \in Seq(Args)
  /\ result \in BOOLEAN /\ updated \in [FlagIds -> BOOLEAN]
  /\ pc \in {"idle", "scan"}

\* "any unknown arguments fill the rest of the array": what is left in argv are
\* the arguments no flag took, each one once and in the caller's order, with
\* "--" and what follows it among them, and the array is closed by nullptr.
UnknownArgumentsRemain ==
  Returned =>
    /\ argc = Cardinality(Kept) + 1 /\ argv[argc] = Null
    /\ \A k \in Kept : argv[Cardinality({m \in Kept : m <= k})] = given[k]

\* While the arguments are read unknown_flags holds no more of them than were
\* read, so that writing them back with the nullptr stays inside the caller's
\* array, whatever it contains.
WriteBackFits == pc = "scan" => Len(unknown) < i /\ i <= argc

\* The caller's array is well formed while it is read and afterwards, and has
\* what it should.
ArgvInv == TypeOK /\ WriteBackFits /\ UnknownArgumentsRemain

\* What an argument stands for: a numeral for its number, whatever its size.
Meant(flag, arg) ==
  IF flag.type \in {"int32", "int64"} THEN Numeral[Text(flag, arg)] ELSE ReadBy(flag, arg)

\* A numeral that does not fit is cut to the width of the variable, and nobody
\* notices: the hook gets the cut value and Parse takes it for good, against
\* what command_line_flags.h:126 says.  The properties name and exclude it.
Cut(flag, arg) == ReadBy(flag, arg) # Meant(flag, arg)

CutTaken == \E f \in FlagIds : \E k \in AcceptedBy(f) : Cut(FlagOf[f], given[k])

\* Of the arguments a flag got the last one that could be parsed decides, also
\* when a later one could not: the variable holds what that one stands for,
\* unless it was cut.  Without any, the variable is left alone.
LastGoodValueWins ==
  Returned =>
    \A f \in FlagIds :
      IF AcceptedBy(f) = {} THEN value[f] = before[f]
      ELSE LET arg == given[Max(AcceptedBy(f))] IN
           updated[f] /\ (~Cut(FlagOf[f], arg) => value[f] = Meant(FlagOf[f], arg))

\* "Return true iff all recognized flag values were parsed correctly, and the
\* first remaining argument is not --help": correctly is that the variable
\* could get the very value the argument stands for and the hook took it,
\* wherever on the line.  Left out are the lines of which a cut numeral was
\* taken; that something was refused is returned on those, too.
TrueIffParsed ==
  Returned =>
    /\ ~CutTaken =>
         (result <=> /\ \A f \in FlagIds : \A k \in GivenTo(f) :
                          Parses(FlagOf[f], given[k]) /\ ~Cut(FlagOf[f], given[k])
                     /\ (argc > 1 => argv[1] # Help))
    /\ result => \A f \in FlagIds : GivenTo(f) = AcceptedBy(f)

\* "Update the variables associated with matching flags": an argument
\* --name=value for a flag of the list is that flag's, unless a bool flag whose
\* name begins this one comes first.  That takes it, since it does not ask what
\* follows its name, but cannot read it: then at least the result is false.
Shadowed(n) ==
  \E m \in 1 .. n - 1 :
    FlagOf[list[m]].type = "bool" /\ IsPrefix(FlagOf[list[m]].name, FlagOf[list[n]].name)

NamedFlagGetsItsValue ==
  Returned =>
    \A n \in DOMAIN list : \A k \in Open :
      IsPrefix(Dashes \o FlagOf[list[n]].name \o <<"=">>, given[k])
      => k \in GivenTo(list[n]) \/ (Shadowed(n) /\ ~result)

\* What Parse has done to the variables, and what it says of it.
OutcomeInv == LastGoodValueWins /\ TrueIffParsed /\ NamedFlagGetsItsValue

\* A second Parse with the same list finds nothing more: it changes neither
\* argv nor a variable, and what "--" protected once stays protected.
SecondParseFindsNothing ==
  [][Returned /\ pc' = "scan" /\ list' = list
       => \A f \in FlagIds : \A k \in 1..(argc - 1) :
            IsFoundBy(f, list, argv[k]) => \E m \in 1..k : argv[m] = Dashes]_vars
=============================================================================
