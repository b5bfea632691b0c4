---------------------------- MODULE TextMatcher ----------------------------
(***************************************************************************)
(* What matches in a line: literals (src/core/text/text-matcher.cpp) and   *)
(* regular expressions (regex-matcher.cpp).                                *)
(*                                                                         *)
(* A line is a sequence of code points, as the reader hands it on, and a   *)
(* position counts code points where the code counts bytes of UTF-8.  An   *)
(* expression of PCRE2 is what it answers: the end of its match at each    *)
(* position, or where it gives up.                                         *)
(***************************************************************************)
EXTENDS Integers, FiniteSets, SequencesExt

CONSTANTS
  LiteralTexts, LiteralExpressions,
  RegexAnswers,    \* sequences over Nat, NoRegexMatch and RegexGivesUp
  MatchChoices     \* records [caseSensitive, wholeWord, wholeIdentifier]

VARIABLE matchCall

NoRegexMatch == -1
RegexGivesUp == -2

-----------------------------------------------------------------------------
(* Classes of code points: ASCII, and Latin-1 letters but for the signs of *)
(* multiplication and division.                                            *)
AsciiUpper == 65..90
AsciiLower == 97..122
Digits     == 48..57
LatinUpper == 192..222 \ {215}
LatinLower == 224..255 \ {247}
Underscore == 95
CombiningMarks == 768..879

isNaturalWordScalar(c) ==
  c \in AsciiUpper \cup AsciiLower \cup Digits \cup LatinUpper \cup LatinLower
isCodeIdentifierScalar(c) ==
  c \in AsciiUpper \cup AsciiLower \cup Digits \cup {Underscore}

simpleCaseFold(c) == IF c \in AsciiUpper \cup LatinUpper THEN c + 32 ELSE c

(* The letters the matcher knows to be composed: a base and a mark.        *)
Grave == 768
Acute == 769
Circumflex == 770
Tilde == 771
Diaeresis == 776
Cedilla == 807

Composed == [c \in {224, 225, 226, 227, 228, 231, 233, 234, 237, 243, 244, 245, 250} |->
  CASE c = 224 -> <<97, Grave>>  [] c = 225 -> <<97, Acute>>  [] c = 226 -> <<97, Circumflex>>
    [] c = 227 -> <<97, Tilde>>  [] c = 228 -> <<97, Diaeresis>>
    [] c = 231 -> <<99, Cedilla>>
    [] c = 233 -> <<101, Acute>> [] c = 234 -> <<101, Circumflex>>
    [] c = 237 -> <<105, Acute>>
    [] c = 243 -> <<111, Acute>> [] c = 244 -> <<111, Circumflex>> [] c = 245 -> <<111, Tilde>>
    [] OTHER   -> <<117, Acute>>]

(* A capital is decomposed to the small letter, with either case rule.     *)
IsComposed(c) == simpleCaseFold(c) \in DOMAIN Composed

decomposed(c, caseSensitive) ==
  IF IsComposed(c) THEN Composed[simpleCaseFold(c)]
  ELSE <<IF caseSensitive THEN c ELSE simpleCaseFold(c)>>

-----------------------------------------------------------------------------
(* A character with the combining marks after it.  It keeps eight code     *)
(* points, and the order of its marks does not matter.                     *)
maximumCanonicalClusterScalars == 8

MarksAfter(text, i) ==
  CHOOSE n \in 0..(Len(text) - i) :
    /\ \A k \in 1..n : text[i + k] \in CombiningMarks
    /\ i + n < Len(text) => text[i + n + 1] \notin CombiningMarks

SortedMarks(scalars) ==
  IF Len(scalars) <= 2 THEN scalars ELSE <<Head(scalars)>> \o SortSeq(Tail(scalars), <)

canonicalClusterAt(text, i, caseSensitive) ==
  LET n   == MarksAfter(text, i)
      all == decomposed(text[i], caseSensitive) \o SubSeq(text, i + 1, i + n)
  IN  [length  |-> n + 1,
       scalars |-> SortedMarks(SubSeq(all, 1,
                     IF Len(all) < maximumCanonicalClusterScalars THEN Len(all)
                     ELSE maximumCanonicalClusterScalars))]

RECURSIVE literalMatchLengthAt(_, _, _, _)
literalMatchLengthAt(text, expression, i, caseSensitive) ==   \* or -1
  IF expression = <<>> THEN 0
  ELSE IF i > Len(text) THEN -1
  ELSE LET t == canonicalClusterAt(text, i, caseSensitive)
           e == canonicalClusterAt(expression, 1, caseSensitive)
           rest == literalMatchLengthAt(text, SubSeq(expression, e.length + 1, Len(expression)),
                                        i + t.length, caseSensitive)
       IN  IF t.scalars # e.scalars \/ rest = -1 THEN -1 ELSE t.length + rest

matchesRequestedBoundaries(text, i, length, options) ==
  LET Outside(Inside(_)) ==
        /\ i > 1 => ~Inside(text[i - 1])
        /\ i + length <= Len(text) => ~Inside(text[i + length])
  IN  /\ options.wholeWord => Outside(isNaturalWordScalar)
      /\ options.wholeIdentifier => Outside(isCodeIdentifierScalar)

AfterTheMatch(i, length) == i + (IF length > 1 THEN length ELSE 1)
NextOffset(i, length)    == i + 1

RECURSIVE LiteralsFrom(_, _, _, _)
LiteralsFrom(text, expression, i, options) ==
  IF i > Len(text) \/ expression = <<>> THEN <<>>
  ELSE LET length == literalMatchLengthAt(text, expression, i, options.caseSensitive)
           found  == length # -1 /\ matchesRequestedBoundaries(text, i, length, options)
       IN  (IF found THEN <<[at |-> i, length |-> length]>> ELSE <<>>)
             \o LiteralsFrom(text, expression,
                             NextOffset(i, IF found THEN length ELSE 1), options)

findAllLiterals(text, expression, options) == LiteralsFrom(text, expression, 1, options)

-----------------------------------------------------------------------------
(* RegexMatcher::findAll.  PCRE2 answers with the first match at or after  *)
(* an offset; the search goes on at the character after its start, so      *)
(* matches may overlap and an empty one is met once.                       *)
pcre2Match(answers, from) ==
  SelectInSubSeq(answers, from, Len(answers), LAMBDA a : a # NoRegexMatch)

RECURSIVE RegexFrom(_, _, _, _)
RegexFrom(text, answers, from, options) ==
  LET at == IF from > Len(answers) THEN 0 ELSE pcre2Match(answers, from) IN
  IF at = 0 THEN [status |-> "completed", matches |-> <<>>]
  ELSE IF answers[at] = RegexGivesUp THEN [status |-> "resourceLimitExceeded", matches |-> <<>>]
  ELSE LET match == [at |-> at, length |-> answers[at] - at]
           rest  == IF at > Len(text) THEN [status |-> "completed", matches |-> <<>>]
                    ELSE RegexFrom(text, answers, at + 1, options)
       IN  IF matchesRequestedBoundaries(text, at, match.length, options)
           THEN [rest EXCEPT !.matches = <<match>> \o @] ELSE rest

findAllRegex(text, answers, options) == RegexFrom(text, answers, 1, options)

(* The column a match is shown at. *)
visualColumn(text, i) == 1 + Cardinality({k \in DOMAIN text : k < i})

-----------------------------------------------------------------------------
NoMatchCall == [asked |-> "nothing"]
MatchInit == matchCall = NoMatchCall

AskLiteral ==
  \E text \in LiteralTexts, expression \in LiteralExpressions, options \in MatchChoices :
    matchCall' = [asked |-> "literal", text |-> text, expression |-> expression,
                  options |-> options,
                  answer  |-> findAllLiterals(text, expression, options)]

(* One answer for each position of the text and for its end.               *)
AskRegex ==
  \E text \in LiteralTexts, answers \in RegexAnswers, options \in MatchChoices :
    /\ Len(answers) = Len(text) + 1
    /\ \A i \in DOMAIN answers : answers[i] >= 0 => answers[i] \in i..Len(answers)
    /\ matchCall' = [asked |-> "regex", text |-> text, regex |-> answers, options |-> options,
                     answer |-> findAllRegex(text, answers, options)]

MatchNext == matchCall = NoMatchCall /\ (AskLiteral \/ AskRegex)

-----------------------------------------------------------------------------
(* What a slice of text means: its code points in canonical form, with     *)
(* their case where it counts.                                             *)
RECURSIVE Canonical(_, _)
Canonical(text, caseSensitive) ==
  LET Marked(c) == IF c \in LatinUpper /\ caseSensitive
                   THEN <<Head(Composed[c + 32]) - 32, Composed[c + 32][2]>>
                   ELSE Composed[simpleCaseFold(c)]
      Base(c)   == IF IsComposed(c) THEN Marked(c)
                   ELSE <<IF caseSensitive THEN c ELSE simpleCaseFold(c)>>
      cluster   == MarksAfter(text, 1) + 1
      marks     == SortSeq(Tail(Base(Head(text)) \o SubSeq(text, 2, cluster)), <)
  IN  IF text = <<>> THEN <<>>
      ELSE <<Head(Base(Head(text)))>> \o marks
             \o Canonical(SubSeq(text, cluster + 1, Len(text)), caseSensitive)

SameText(s, t, options) ==
  Canonical(s, options.caseSensitive) = Canonical(t, options.caseSensitive)

WholeCharacters(text, i, n) ==
  /\ n >= 1 /\ i + n - 1 <= Len(text)
  /\ i + n <= Len(text) => text[i + n] \notin CombiningMarks

Slices(c) ==
  {m \in [at : DOMAIN c.text, length : DOMAIN c.text] :
     /\ WholeCharacters(c.text, m.at, m.length)
     /\ SameText(SubSeq(c.text, m.at, m.at + m.length - 1), c.expression, c.options)
     /\ matchesRequestedBoundaries(c.text, m.at, m.length, c.options)}

InOrder(matches) == \A i, j \in DOMAIN matches : i < j => matches[i].at < matches[j].at

(* "When caseSensitive is enabled, UTF-8 code points in the line and       *)
(* expression must match exactly" (docs/product/search-semantics.md:64):   *)
(* and otherwise, and up to canonical equivalence, every slice that is the *)
(* expression is found, overlapping ones too, and no other.                *)
LiteralsAreExact ==
  matchCall.asked = "literal" =>
    ToSet(matchCall.answer) = Slices(matchCall) /\ InOrder(matchCall.answer)

(* The capitals that are decomposed to small letters are the exception.    *)
HasComposedCapital(text) == \E i \in DOMAIN text : text[i] \in LatinUpper

(* Every slice of the line that is the expression, up to the order of the  *)
(* marks, composition and (if asked) case, is found once, overlapping ones *)
(* too, and no other is; an expression of PCRE2 is asked until it gives up *)
(* or has no more matches, and each start is found once.  That a case-     *)
(* sensitive search, too, compares up to canonical equivalence is what the *)
(* code does: by the letter of the document its code points "must match    *)
(* exactly".  The composed capitals of such a search, which match small    *)
(* ones, are the exception.                                                *)
MatchesAreExact ==
  /\ matchCall.asked = "literal" =>
       \/ /\ matchCall.options.caseSensitive
          /\ HasComposedCapital(matchCall.text) \/ HasComposedCapital(matchCall.expression)
       \/ LiteralsAreExact
  /\ matchCall.asked = "regex" =>
       LET c == matchCall
           gaveUp == SelectInSeq(c.regex, LAMBDA a : a = RegexGivesUp)
           asked  == 1..(IF gaveUp = 0 THEN Len(c.regex) ELSE gaveUp - 1)
       IN  /\ c.answer.status = (IF gaveUp = 0 THEN "completed" ELSE "resourceLimitExceeded")
           /\ InOrder(c.answer.matches)
           /\ ToSet(c.answer.matches) =
                {m \in {[at |-> i, length |-> c.regex[i] - i] : i \in asked} :
                   m.length >= 0 /\ matchesRequestedBoundaries(c.text, m.at, m.length, c.options)}
=============================================================================
