------------------------------ MODULE Matcher ------------------------------
(***************************************************************************)
(* internal/engine/matcher: how the pattern of a rule's field is read      *)
(* (Parse) and which values it accepts (the Match methods).                *)
(*                                                                         *)
(* A text is a sequence of tokens: a number (a run of digits, without      *)
(* leading zeros), a word, or one of the characters the code looks at.  A  *)
(* field absent from a request is the empty text.  A negative number is    *)
(* two tokens, which is what makes the dash of a range ambiguous.          *)
(***************************************************************************)
EXTENDS Integers, Sequences, SequencesExt

CONSTANTS Patterns, Values,
          Dicts,   \* the registered dictionaries: name -> set of texts
          MaxInt   \* the largest integer ParseInt accepts: 2^63 - 1

Mark(c) == [c |-> c, n |-> 0]
Num(k) == [c |-> "number", n |-> k]
Token == [c : STRING, n : {0}] \cup [c : {"number"}, n : Nat]
PrefixMarks == {"+", "!", "@", ">", "<"}

ASSUME MatcherAssumption ==
  /\ MaxInt \in Nat
  /\ Patterns \cup Values \subseteq Seq(Token)

VARIABLES pattern, value,
          verdict          \* of Match; "none" before it

matchVars == <<pattern, value, verdict>>

MatchInit == pattern \in Patterns /\ value \in Values /\ verdict = "none"

-----------------------------------------------------------------------------
(* Texts.                                                                  *)

HasMark(s, c) == \E i \in DOMAIN s : s[i].c = c
StartsWith(s, c) == s # <<>> /\ s[1].c = c
Before(s, i) == SubSeq(s, 1, i - 1)
After(s, i) == SubSeq(s, i + 1, Len(s))

\* strings.Split: the pieces between the separators.
Cuts(s, c) == {0, Len(s) + 1} \cup {i \in DOMAIN s : s[i].c = c}
Nth(S, k) == CHOOSE i \in S : Cardinality({j \in S : j <= i}) = k
Split(s, c) ==
  LET cuts == Cuts(s, c)
  IN  [k \in 1..(Cardinality(cuts) - 1) |-> SubSeq(s, Nth(cuts, k) + 1, Nth(cuts, k + 1) - 1)]

TrimSpace(s) ==
  LET kept == {i \in DOMAIN s : s[i].c # " "}
  IN  IF kept = {} THEN <<>> ELSE SubSeq(s, Min(kept), Max(kept))

IsInteger(s) ==
  /\ Len(s) = IF StartsWith(s, "-") \/ StartsWith(s, "+") THEN 2 ELSE 1
  /\ s[Len(s)].c = "number"

\* strconv.ParseInt: no integer when it fails.
ParseInt(s) ==
  {k \in IF ~IsInteger(s) THEN {}
         ELSE IF StartsWith(s, "-") THEN {-s[2].n} ELSE {s[Len(s)].n} :
     -MaxInt - 1 <= k /\ k <= MaxInt}

\* Mutant: a leading sign is taken for the separator.
FindFirstDash(s) == {i \in DOMAIN s : s[i].c = "-" /\ \A j \in 1..(i-1) : s[j].c # "-"}

\* The first dash that is not a leading sign; none in a text without one.
FindRangeDash(s) ==
  {i \in DOMAIN s : s[i].c = "-" /\ i > 1 /\ \A j \in 2..(i-1) : s[j].c # "-"}

-----------------------------------------------------------------------------
(* Parse: a prefix decides before a comma, a comma before a range.         *)

IsRangePattern(p) ==
  \E i \in FindRangeDash(p) : IsInteger(Before(p, i)) /\ IsInteger(After(p, i))

IsIPWildcardPattern(p) == HasMark(p, "*") /\ Len(Split(p, ".")) = 4

\* Mutant: lists are looked for before prefixes.
ParseListsFirst(p) ==
  IF HasMark(p, ",") THEN "multi"
  ELSE IF p # <<>> /\ p[1].c \in PrefixMarks THEN p[1].c
  ELSE IF IsRangePattern(p) THEN "range"
  ELSE IF IsIPWildcardPattern(p) THEN "ip"
  ELSE "exact"

Parse(p) ==
  IF p # <<>> /\ p[1].c \in PrefixMarks THEN p[1].c
  ELSE IF HasMark(p, ",") THEN "multi"
  ELSE IF IsRangePattern(p) THEN "range"
  ELSE IF IsIPWildcardPattern(p) THEN "ip"
  ELSE "exact"

-----------------------------------------------------------------------------
(* The Match methods.                                                      *)

DictMatch(p, v) ==
  LET name == After(p, 1) IN name # <<>> /\ name \in DOMAIN Dicts /\ v \in Dicts[name]

GreaterMatch(p, v) == \E t \in ParseInt(After(p, 1)), k \in ParseInt(v) : k > t
LessMatch(p, v) == \E t \in ParseInt(After(p, 1)), k \in ParseInt(v) : k < t

MultiMatch(p, v) == \E part \in Range(Split(p, ",")) : TrimSpace(part) = v

RangeMatch(p, v) ==
  \E k \in ParseInt(v), i \in FindRangeDash(p) :
    \E low \in ParseInt(Before(p, i)), high \in ParseInt(After(p, i)) :
      low <= k /\ k <= high

IPMatch(p, v) ==
  LET patternParts == Split(p, ".")
      valueParts == Split(v, ".")
  IN  /\ Len(patternParts) = 4 /\ Len(valueParts) = 4
      /\ \A i \in 1..4 : patternParts[i] \in {<<Mark("*")>>, valueParts[i]}

Accepts(p, v) ==
  CASE Parse(p) = "+" -> v # <<>>
    [] Parse(p) = "!" -> v # After(p, 1)
    [] Parse(p) = "@" -> DictMatch(p, v)
    [] Parse(p) = ">" -> GreaterMatch(p, v)
    [] Parse(p) = "<" -> LessMatch(p, v)
    [] Parse(p) = "multi" -> MultiMatch(p, v)
    [] Parse(p) = "range" -> RangeMatch(p, v)
    [] Parse(p) = "ip" -> IPMatch(p, v)
    [] Parse(p) = "exact" -> v = p

Match ==
  /\ verdict = "none"
  /\ verdict' = IF Accepts(pattern, value) THEN "yes" ELSE "no"
  /\ UNCHANGED <<pattern, value>>

MatchSpec == MatchInit /\ [][Match]_matchVars

-----------------------------------------------------------------------------
(* What the documents promise of a pattern (05-CONFIG-REFERENCE.md:500-510 *)
(* and the comment of Parse), said of the pattern as a whole instead of    *)
(* position by position.                                                   *)

Int64 == (-MaxInt - 1)..MaxInt
Decimals(k) ==
  {s \in {<<Num(k)>>, <<Mark("+"), Num(k)>>} : k >= 0}
    \cup {s \in {<<Mark("-"), Num(-k)>>} : k <= 0}
Denoted(s) == {k \in Int64 : s \in Decimals(k)}

Operand(p, c) == IF StartsWith(p, c) THEN {Tail(p)} ELSE {}
Plain(p) == \A c \in PrefixMarks : ~StartsWith(p, c)

\* The stretches of s without a c.
Pieces(s, c) ==
  {x \in {SubSeq(s, i, j) : i \in 1..(Len(s) + 1), j \in 0..Len(s)} : ~HasMark(x, c)}
Element(p, i, j) ==
  /\ i <= j + 1 /\ \A k \in i..j : p[k].c # ","
  /\ i = 1 \/ p[i - 1].c = ","
  /\ j = Len(p) \/ p[j + 1].c = ","

Dot == <<Mark(".")>>
Address(x) == x[1] \o Dot \o x[2] \o Dot \o x[3] \o Dot \o x[4]
IsList(p) == Plain(p) /\ HasMark(p, ",")
RangeDashes(p) ==
  {i \in DOMAIN p : p[i].c = "-" /\ IsInteger(Before(p, i)) /\ IsInteger(After(p, i))}
IsRange(p) == Plain(p) /\ ~IsList(p) /\ RangeDashes(p) # {}
IsWildcard(p) ==
  /\ Plain(p) /\ ~IsList(p) /\ ~IsRange(p) /\ HasMark(p, "*")
  /\ Cardinality({i \in DOMAIN p : p[i].c = "."}) = 3

Means(p, v) ==
  \/ StartsWith(p, "+") /\ v # <<>>
  \/ \E x \in Operand(p, "!") : v # x
  \/ \E x \in Operand(p, "@") : x # <<>> /\ x \in DOMAIN Dicts /\ v \in Dicts[x]
  \/ \E x \in Operand(p, ">") : \E t \in Denoted(x), k \in Denoted(v) : k > t
  \/ \E x \in Operand(p, "<") : \E t \in Denoted(x), k \in Denoted(v) : k < t
  \/ IsList(p) /\ \E i \in 1..(Len(p) + 1), j \in 0..Len(p) :
       Element(p, i, j) /\ TrimSpace(SubSeq(p, i, j)) = v
  \/ IsRange(p) /\ \E i \in RangeDashes(p), k \in Denoted(v) :
       \E low \in Denoted(Before(p, i)), high \in Denoted(After(p, i)) : k \in low..high
  \/ IsWildcard(p) /\ \E x \in [1..4 -> Pieces(v, ".")], S \in SUBSET (1..4) :
       v = Address(x) /\ p = Address([i \in 1..4 |-> IF i \in S THEN <<Mark("*")>> ELSE x[i]])
  \/ Plain(p) /\ ~IsList(p) /\ ~IsRange(p) /\ ~IsWildcard(p) /\ v = p

-----------------------------------------------------------------------------
(* Properties.                                                             *)

\* Match (matcher/*.go), with the matcher Parse chooses (matcher.go:42-78),
\* accepts exactly the values the documented syntax gives the pattern:
\* prefixes before lists, lists before ranges, and no pattern read as
\* something it is not.
VerdictAsDocumented == verdict # "none" => (verdict = "yes" <=> Means(pattern, value))

\* The one dash FindRangeDash considers (matcher.go:98-111, range.go:63-76)
\* is enough: a text that is two integers with a dash between them, of
\* whatever sign, is recognised as a range, and can be cut in one way only.
RangesRecognised ==
  IsRangePattern(pattern) <=> Cardinality(RangeDashes(pattern)) = 1
=============================================================================
