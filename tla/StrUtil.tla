------------------------------- MODULE StrUtil -------------------------------
(***************************************************************************)
(* str_util and stringprintf (cmdlines/src/str_util.cc, str_util.h,        *)
(* stringprintf.cc): what a caller does with one text, the piece.  Those   *)
(* functions that consume change it, as they change their StringPiece; the *)
(* others return something.  call is the last call, with what it was       *)
(* called on and what came of it.                                          *)
(*                                                                         *)
(* A character is its ASCII code.  The functions that only pass their      *)
(* arguments on to abseil are left out, except those about white space.    *)
(***************************************************************************)
EXTENDS Integers, Sequences, SequencesExt, FiniteSetsExt

CONSTANTS Alphabet,     \* the characters of the texts
          MaxPiece,     \* bound: how long the texts are
          Word,         \* 2^64, above the largest uint64
          SpaceLength,  \* kSpaceLength
          Subs,         \* arguments of StringReplace
          Delims,       \* arguments of Split and TitlecaseString
          Fresh         \* what is no character

\* Below it, a sum that wraps can look like one that does not.
ASSUME WordAssumption == Word \in Nat /\ Word >= 16
ASSUME SpaceAssumption == SpaceLength \in Nat \ {0}
ASSUME AlphabetAssumption ==
  /\ Alphabet \subseteq 1 .. 127 /\ Fresh \notin 0 .. 127 /\ MaxPiece \in Nat
  /\ Subs \subseteq Seq(1 .. 127)
  /\ \A d \in Delims : d # {} /\ d \subseteq 0 .. 127

VARIABLES piece, call,
          whole, tokens  \* history: a text, and the tokens taken from it so far

strUtilVars == <<piece, call, whole, tokens>>

-----------------------------------------------------------------------------
(* Characters and texts                                                    *)

EndOfText == 0
Underscore == 95
Digits == 48 .. 57
Uppers == 65 .. 90
Lowers == 97 .. 122
Alphas == Uppers \cup Lowers
Alnums == Alphas \cup Digits
Spaces == (9 .. 13) \cup {32}

toupper(c) == IF c \in Lowers THEN c - 32 ELSE c
tolower(c) == IF c \in Uppers THEN c + 32 ELSE c

\* How many characters of s, from the first on, are in C.
Leading(s, C) == Min({k \in 0 .. Len(s) : k = Len(s) \/ s[k + 1] \notin C})
Trailing(s, C) == Leading(Reverse(s), C)

RemovePrefix(s, n) == SubSeq(s, n + 1, Len(s))
RemoveSuffix(s, n) == SubSeq(s, 1, Len(s) - n)

-----------------------------------------------------------------------------
(* ConsumeLeadingDigits                                                    *)

NewValue(v, d) == (v * 10 + d) % Word

\* A slip to be caught: the test that is enough for a sum.
OverflowsLess(v, d) == NewValue(v, d) < v

Overflows(v, d) == NewValue(v, d) \div 8 < v

\* v behind each of the leading digits of s.
Values(s) ==
  LET v[k \in 0 .. Leading(s, Digits)] == IF k = 0 THEN 0 ELSE NewValue(v[k - 1], s[k] - 48)
  IN v

Number(s) == Values(s)[Leading(s, Digits)]

IsNumber(s) ==
  /\ Leading(s, Digits) > 0
  /\ \A k \in 1 .. Leading(s, Digits) : ~Overflows(Values(s)[k - 1], s[k] - 48)

-----------------------------------------------------------------------------
(* Functions that return a text or texts                                   *)

TitlecaseString(s, delimiters) ==
  LET t[k \in 0 .. Len(s)] ==
        IF k = 0 THEN <<>>
        ELSE Append(t[k - 1], IF k = 1 \/ t[k - 1][k - 1] \in delimiters THEN toupper(s[k]) ELSE s[k])
  IN t[Len(s)]

\* std::string::find from pos on: the matches, of which it takes the first.
Matches(s, sub, pos) ==
  {k \in pos .. Len(s) - Len(sub) : SubSeq(s, k + 1, k + Len(sub)) = sub}

\* A slip to be caught: what was put in is searched again.
ReplaceAgain(r, oldsub, newsub, replace_all) ==
  LET found == Matches(r.res, oldsub, r.pos)
      pos == Min(found)
  IN IF r.done \/ found = {} THEN [r EXCEPT !.done = TRUE]
     ELSE [res |-> SubSeq(r.res, 1, pos) \o newsub \o RemovePrefix(r.res, pos + Len(oldsub)),
           pos |-> pos + (IF oldsub = <<>> THEN Len(newsub) + 1 ELSE 0),
           done |-> ~replace_all]

\* One turn of the loop: the text, where the next search begins, and whether
\* the loop has been left.
ReplaceNext(r, oldsub, newsub, replace_all) ==
  LET found == Matches(r.res, oldsub, r.pos)
      pos == Min(found)
  IN IF r.done \/ found = {} THEN [r EXCEPT !.done = TRUE]
     ELSE [res |-> SubSeq(r.res, 1, pos) \o newsub \o RemovePrefix(r.res, pos + Len(oldsub)),
           pos |-> pos + Len(newsub) + (IF oldsub = <<>> THEN 1 ELSE 0),
           done |-> ~replace_all]

\* The loop takes a turn per character of s, one for its end and one to find
\* nothing more.
StringReplace(s, oldsub, newsub, replace_all) ==
  LET after[k \in 0 .. Len(s) + 2] ==
        IF k = 0 THEN [res |-> s, pos |-> 0, done |-> FALSE]
        ELSE ReplaceNext(after[k - 1], oldsub, newsub, replace_all)
  IN after[Len(s) + 2]

\* ArgDefCase, first pass: what to skip, and where an underscore is added.
ToSkip(s) == Leading(s, (0 .. 127) \ Alphas)

\* A slip to be caught: a capital after any character is counted.
ExtraUnderscoresAlways(s) == {i \in ToSkip(s) + 2 .. Len(s) : s[i] \in Uppers}

ExtraUnderscores(s) ==
  {i \in ToSkip(s) + 2 .. Len(s) : s[i] \in Uppers /\ s[i - 1] \in Alnums}

ArgDefSize(s) == Len(s) + Cardinality(ExtraUnderscores(s)) - ToSkip(s)

\* Second pass: what replaces a character, and where, looking at what was put
\* before it.
Written(c) == IF c \in Alnums THEN tolower(c) ELSE Underscore

Places(s) ==
  LET j[i \in ToSkip(s) .. Len(s)] ==
        IF i = ToSkip(s) THEN 0
        ELSE IF s[i] \in Uppers /\ i # ToSkip(s) + 1 /\ Written(s[i - 1]) # Underscore
             THEN j[i - 1] + 2 ELSE j[i - 1] + 1
  IN j

ArgDefCase(s) ==
  [k \in 1 .. ArgDefSize(s) |->
     LET here == {i \in ToSkip(s) + 1 .. Len(s) : Places(s)[i] = k}
     IN IF here = {} THEN Underscore ELSE Written(s[Min(here)])]

\* The texts that each of Split's predicates keeps.  SkipEmpty() finds nothing
\* to skip: for "" it returns true, too.
Predicates == {"AllowEmpty", "SkipEmpty", "SkipWhitespace"}
Keeps(p, s) == p = "SkipWhitespace" => Trailing(s, Spaces) # Len(s)

\* What has been read of the texts, those that end at a delimiter and the last
\* one, and one character more.
SplitNext(t, c, delims) ==
  IF c \in delims THEN [texts |-> Append(t.texts, t.last), last |-> <<>>]
  ELSE [t EXCEPT !.last = Append(@, c)]

Splitting(s, delims) ==
  LET read[k \in 0 .. Len(s)] ==
        IF k = 0 THEN [texts |-> <<>>, last |-> <<>>] ELSE SplitNext(read[k - 1], s[k], delims)
  IN read[Len(s)]

\* A slip to be caught: what follows the last delimiter is forgotten.
SplitOpen(s, delims) == Splitting(s, delims).texts

\* The texts between the delimiters.
Split(s, delims) ==
  IF s = <<>> THEN <<>> ELSE Append(Splitting(s, delims).texts, Splitting(s, delims).last)

Filtered(texts, p) ==
  LET kept[n \in 0 .. Len(texts)] ==
        IF n = 0 THEN <<>>
        ELSE IF Keeps(p, texts[n]) THEN Append(kept[n - 1], texts[n]) ELSE kept[n - 1]
  IN kept[Len(texts)]

SplitIf(s, delims, p) == Filtered(Split(s, delims), p)

Join(pieces, sep) ==
  LET joined[n \in 0 .. Len(pieces)] ==
        IF n = 0 THEN <<>>
        ELSE joined[n - 1] \o (IF n = 1 THEN <<>> ELSE <<sep>>) \o pieces[n]
  IN joined[Len(pieces)]

\* vsnprintf() writes no more than n characters of output, the last one '\0'.
vsnprintf(n, output) == Append(SubSeq(output, 1, IF Len(output) < n THEN Len(output) ELSE n - 1), EndOfText)

\* What fits into space is taken from there, anything else printed again.
Appendv(dst, output) ==
  IF Len(output) < SpaceLength
  THEN dst \o SubSeq(vsnprintf(SpaceLength, output), 1, Len(output))
  ELSE dst \o SubSeq(vsnprintf(Len(output) + 1, output), 1, Len(output))

-----------------------------------------------------------------------------
(* The calls                                                               *)

TextsUpTo(n) == UNION {[1 .. k -> Alphabet] : k \in 0 .. n}

Called(op, args, ok, val) == [op |-> op, on |-> piece, args |-> args, ok |-> ok, val |-> val]

StrUtilInit ==
  /\ piece \in TextsUpTo(MaxPiece) /\ whole = piece /\ tokens = <<>>
  /\ call = Called("none", <<>>, TRUE, 0)

\* A call that changes nothing but returns val.
Returns(op, args, val) == call' = Called(op, args, TRUE, val) /\ UNCHANGED <<piece, whole, tokens>>

\* The text is another one, of which no token has been taken.
Renew(s) == piece' = s /\ whole' = s /\ tokens' = <<>>

ConsumeLeadingDigits ==
  IF IsNumber(piece)
  THEN /\ Renew(RemovePrefix(piece, Leading(piece, Digits)))
       /\ call' = Called("digits", <<>>, TRUE, Number(piece))
  ELSE call' = Called("digits", <<>>, FALSE, 0) /\ UNCHANGED <<piece, whole, tokens>>

TokenEnd == Leading(piece, (0 .. 127) \ Spaces)

ConsumeNonWhitespace ==
  LET n == TokenEnd
      val == SubSeq(piece, 1, n)
  IN /\ call' = Called("token", <<>>, n > 0, val)
     /\ piece' = RemovePrefix(piece, n)
     /\ tokens' = IF n > 0 THEN Append(tokens, val) ELSE tokens
     /\ UNCHANGED whole

\* The number of characters removed is returned.
Strip(op, s) ==
  /\ piece' = s /\ call' = Called(op, <<>>, TRUE, Len(piece) - Len(s))
  /\ UNCHANGED <<whole, tokens>>

RemoveLeadingWhitespace == Strip("leading", RemovePrefix(piece, Leading(piece, Spaces)))

\* StripTrailingWhitespace does the same to a std::string.
RemoveTrailingWhitespace == Strip("trailing", RemoveSuffix(piece, Trailing(piece, Spaces)))

RemoveWhitespaceContext ==
  LET s == RemovePrefix(piece, Leading(piece, Spaces))
  IN Strip("context", RemoveSuffix(s, Trailing(s, Spaces)))

Titlecase(delims) ==
  LET s == TitlecaseString(piece, delims)
  IN Renew(s) /\ call' = Called("title", delims, TRUE, s)

Replace(oldsub, newsub, all) ==
  Returns("replace", <<oldsub, newsub, all>>, StringReplace(piece, oldsub, newsub, all))

CaseArgDef == Returns("argdef", <<>>, ArgDefCase(piece))

SplitText(delims) ==
  \/ Returns("split", delims, Split(piece, delims))
  \/ \E p \in Predicates : Returns(p, delims, SplitIf(piece, delims, p))

\* Printf, and Appendf to a string that holds dst; vsnprintf may fail.
Printf(dst) ==
  \/ Returns("printf", dst, Appendv(dst, piece))
  \/ call' = Called("printf", dst, FALSE, dst) /\ UNCHANGED <<piece, whole, tokens>>

StrUtilNext ==
  \/ ConsumeLeadingDigits \/ ConsumeNonWhitespace
  \/ RemoveLeadingWhitespace \/ RemoveTrailingWhitespace \/ RemoveWhitespaceContext
  \/ \E delims \in Delims : Titlecase(delims) \/ SplitText(delims)
  \/ \E oldsub, newsub \in Subs, all \in BOOLEAN : Replace(oldsub, newsub, all)
  \/ CaseArgDef \/ \E dst \in Subs : Printf(dst)

StrUtilSpec == StrUtilInit /\ [][StrUtilNext]_strUtilVars

-----------------------------------------------------------------------------
(* Properties                                                              *)

\* What a text of digits says, at any width.
Decimal(s) == FoldLeft(LAMBDA v, c : 10 * v + (c - 48), 0, s)

\* "If any digits were found, store the value": ConsumeLeadingDigits takes all
\* of the leading digits and returns their number, or takes nothing, and the
\* latter only if there is no digit or the number does not fit.  That the sum
\* has wrapped is seen at once although it was computed at the same width.
NumbersAreExact ==
  call.op = "digits" =>
    LET s == call.on
        Digit(i) == i \in DOMAIN s /\ s[i] \in Digits
        n == CHOOSE n \in 0 .. Len(s) : ~Digit(n + 1) /\ \A i \in 1 .. n : Digit(i)
        number == Decimal(SubSeq(s, 1, n))
    IN /\ call.ok <=> n > 0 /\ number < Word
       /\ IF call.ok THEN call.val = number /\ piece = SubSeq(s, n + 1, Len(s)) ELSE piece = s

\* The size that the first pass of ArgDefCase has counted is what the second
\* pass writes, neither less nor more, so that it stays inside the result; which
\* is empty or matches [a-z][a-z0-9_]*, and is its own ArgDefCase.
ArgDefCaseInv ==
  call.op = "argdef" =>
    LET result == call.val
    IN /\ Places(call.on)[Len(call.on)] = ArgDefSize(call.on)
       /\ Range(result) \subseteq Lowers \cup (48 .. 57) \cup {Underscore}
       /\ result # <<>> => result[1] \in Lowers
       /\ ArgDefCase(result) = result

\* The loop of StringReplace ends, and does not search what it has put in: each
\* replacement can be marked, taken back, and done afterwards instead.  No
\* match is left when all are replaced, and otherwise the first one is.
Replacements ==
  call.op = "replace" =>
    LET s == call.on  old == call.args[1]  new == call.args[2]  all == call.args[3]
        marked == StringReplace(s, old, <<Fresh>>, all).res
    IN /\ call.val.done
       /\ StringReplace(marked, <<Fresh>>, old, TRUE).res = s
       /\ StringReplace(marked, <<Fresh>>, new, TRUE).res = call.val.res
       /\ all /\ old # <<>> => Matches(marked, old, 0) = {}
       /\ ~all /\ Matches(s, old, 0) # {} => Matches(marked, <<Fresh>>, 0) = {Min(Matches(s, old, 0))}

\* Appendv appends all of the output, however long, or nothing.
WholeOutput ==
  call.op = "printf" => call.val = (IF call.ok THEN call.args \o call.on ELSE call.args)

RewritesInv == Replacements /\ WholeOutput

\* The tokens that ConsumeNonWhitespace takes one by one, with white space
\* removed at either end in between, are the texts that Split finds at once.
TokensAreTheWords ==
  tokens \o SplitIf(piece, Spaces, "SkipWhitespace") = SplitIf(whole, Spaces, "SkipWhitespace")

\* Nothing is lost by Split: joined again with what separated them, the texts
\* make the whole; and none of them can be split again.
SplitJoins ==
  call.op = "split" =>
    /\ \A d \in call.args : call.args = {d} => Join(call.val, d) = call.on
    /\ \A i \in DOMAIN call.val : Range(call.val[i]) \cap call.args = {}

WordsInv == TokensAreTheWords /\ SplitJoins
=============================================================================
