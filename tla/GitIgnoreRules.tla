--------------------------- MODULE GitIgnoreRules ---------------------------
(***************************************************************************)
(* Ignore files: their lines, their rules and what the rules match         *)
(* (src/core/filesystem/git-ignore-rules.cpp, path-normalization.cpp; the  *)
(* glob matcher is also the one of recursive-file-scanner.cpp).            *)
(*                                                                         *)
(* Lines, patterns and paths are sequences of characters, a path relative  *)
(* to the root of the scan.  Paths are in normal form, as on POSIX.        *)
(***************************************************************************)
EXTENDS Naturals, FiniteSets, SequencesExt

CONSTANTS
  IgnoreLines,      \* lines of an ignore file
  BaseDirectories,  \* where the file is
  QueriedPaths,
  GlobPatterns, GlobTexts,
  MaxIgnoreLines    \* bound: lines of a file

VARIABLE ignoreCall   \* the last call, with its answer

Separator == "/"
Blank     == {" ", "\t"}

-----------------------------------------------------------------------------
(* Paths. *)
normalizePathSeparators(text) ==
  [i \in DOMAIN text |-> IF text[i] = "\\" THEN Separator ELSE text[i]]

HasPrefix(path, base) == IsPrefix(base, path)

normalizedPathIsSameOrInside(path, base) ==
  \/ base = <<>> \/ path = base
  \/ Len(path) > Len(base) /\ IsPrefix(Append(base, Separator), path)

pathRelativeToBase(path, base) ==
  IF base = <<>> THEN path ELSE SubSeq(path, Len(base) + 2, Len(path))

Components(path) ==
  LET cuts == {0, Len(path) + 1} \cup {i \in DOMAIN path : path[i] = Separator}
      order == SetToSortSeq(cuts, <)
  IN  [i \in 1..(Len(order) - 1) |-> SubSeq(path, order[i] + 1, order[i + 1] - 1)]

-----------------------------------------------------------------------------
(* globMatches: on a mismatch the last star takes one more character.      *)
RECURSIVE GlobFrom(_, _, _, _, _, _)
GlobFrom(pattern, text, p, t, star, starText) ==
  IF t > Len(text)
  THEN \A i \in p..Len(pattern) : pattern[i] = "*"
  ELSE IF p <= Len(pattern) /\ pattern[p] \in {"?", text[t]}
       THEN GlobFrom(pattern, text, p + 1, t + 1, star, starText)
  ELSE IF p <= Len(pattern) /\ pattern[p] = "*"
       THEN GlobFrom(pattern, text, p + 1, t, p, t)
  ELSE star # 0 /\ GlobFrom(pattern, text, star + 1, starText + 1, star, starText + 1)

globMatches(pattern, text) == GlobFrom(pattern, text, 1, 1, 0, 0)

(* What a glob means. *)
RECURSIVE Means(_, _)
Means(pattern, text) ==
  IF pattern = <<>> THEN text = <<>>
  ELSE IF Head(pattern) = "*"
       THEN \E n \in 0..Len(text) : Means(Tail(pattern), SubSeq(text, n + 1, Len(text)))
       ELSE /\ text # <<>> /\ Head(pattern) \in {"?", Head(text)}
            /\ Means(Tail(pattern), Tail(text))

-----------------------------------------------------------------------------
(* parseLine. *)
RECURSIVE trimUnescapedTrailingSpaces(_)
trimUnescapedTrailingSpaces(line) ==
  IF line = <<>> \/ Last(line) \notin Blank THEN line
  ELSE LET front == Front(line)
           escapes == CHOOSE n \in 0..Len(front) :
                        /\ \A i \in 0..(n - 1) : front[Len(front) - i] = "\\"
                        /\ n < Len(front) => front[Len(front) - n] # "\\"
       IN  IF escapes % 2 # 0 THEN line ELSE trimUnescapedTrailingSpaces(front)

unescapeLeadingMarker(line) ==
  IF Len(line) >= 2 /\ line[1] = "\\" /\ line[2] \in {"#", "!"} THEN Tail(line) ELSE line

withoutTrailing(line) ==
  LET last == SelectLastInSeq(line, LAMBDA c : c # Separator) IN SubSeq(line, 1, last)
withoutLeading(line) ==
  LET first == SelectInSeq(line, LAMBDA c : c # Separator)
  IN  IF first = 0 THEN <<>> ELSE SubSeq(line, first, Len(line))

NoRule == <<>>

parseLine(text, base) ==
  LET line    == trimUnescapedTrailingSpaces(
                   IF text # <<>> /\ Last(text) = "\r" THEN Front(text) ELSE text)
      plain   == unescapeLeadingMarker(line)
      negated == plain # <<>> /\ Head(plain) = "!"
      path    == normalizePathSeparators(IF negated THEN Tail(plain) ELSE plain)
      pattern == withoutLeading(withoutTrailing(path))
  IN  IF line = <<>> \/ Head(line) = "#" \/ pattern = <<>> THEN NoRule
      ELSE <<[base |-> base, pattern |-> pattern, negated |-> negated,
              directoryOnly |-> Last(path) = Separator,
              anchored      |-> Head(withoutTrailing(path)) = Separator,
              basenameOnly  |-> Separator \notin ToSet(pattern)]>>

parseGitIgnore(lines, base) ==
  FlattenSeq([i \in DOMAIN lines |-> parseLine(lines[i], base)])

-----------------------------------------------------------------------------
(* Matching. *)
basenameRuleMatches(rule, path, isDirectory) ==
  IF rule.directoryOnly /\ ~isDirectory
  THEN \E i \in DOMAIN Components(path) : globMatches(rule.pattern, Components(path)[i])
  ELSE globMatches(rule.pattern, Last(Components(path)))

pathRuleMatches(rule, path) ==
  IF rule.directoryOnly THEN normalizedPathIsSameOrInside(path, rule.pattern)
  ELSE \/ globMatches(rule.pattern, path)
       \/ ~rule.anchored /\ IsSuffix(<<Separator>> \o rule.pattern, path)

(* A file of the very name of a directory rule is not below it. *)
pathRuleApplies(rule, path, isDirectory) ==
  /\ rule.directoryOnly /\ ~isDirectory => path # rule.pattern
  /\ pathRuleMatches(rule, path)

ruleMatches(rule, path, isDirectory) ==
  LET relative == pathRelativeToBase(path, rule.base) IN
    /\ normalizedPathIsSameOrInside(path, rule.base) /\ path # rule.base
    /\ IF rule.basenameOnly THEN basenameRuleMatches(rule, relative, isDirectory)
       ELSE pathRuleApplies(rule, relative, isDirectory)

(* An absolute path is never ignored. *)
ignoresPath(rules, path, isDirectory) ==
  LET decisive == SelectLastInSeq(rules, LAMBDA r : ruleMatches(r, path, isDirectory))
  IN  /\ Head(path) # Separator
      /\ decisive # 0 /\ ~rules[decisive].negated

-----------------------------------------------------------------------------
NoIgnoreCall == [asked |-> "nothing"]
IgnoreInit == ignoreCall = NoIgnoreCall

AskGlob ==
  \E pattern \in GlobPatterns, text \in GlobTexts :
    ignoreCall' = [asked |-> "glob", pattern |-> pattern, text |-> text,
                   answer |-> globMatches(pattern, text)]

AskIgnores ==
  \E n \in 1..MaxIgnoreLines : \E lines \in [1..n -> IgnoreLines] :
    \E base \in BaseDirectories, path \in QueriedPaths, isDirectory \in BOOLEAN :
      ignoreCall' = [asked |-> "ignores", lines |-> lines, base |-> base, path |-> path,
                     answer |-> ignoresPath(parseGitIgnore(lines, base), path,
                                            isDirectory),
                     withoutLast |-> ignoresPath(parseGitIgnore(Front(lines), base), path,
                                                 isDirectory),
                     lastAlone |-> ignoresPath(parseGitIgnore(<<Last(lines)>>, base), path,
                                               isDirectory)]

IgnoreNext == ignoreCall = NoIgnoreCall /\ (AskGlob \/ AskIgnores)

(* A glob matches what it means, however its stars have to be tried.  A    *)
(* file's rules touch only what lies below it; a later rule decides: the   *)
(* last line can only ignore more, or, when it is negated, less; a comment *)
(* or a blank line changes nothing.                                        *)
IgnoreAnswersAreSound ==
  /\ ignoreCall.asked = "glob" =>
       (ignoreCall.answer <=> Means(ignoreCall.pattern, ignoreCall.text))
  /\ ignoreCall.asked = "ignores" =>
       LET c == ignoreCall
           last == Last(c.lines)
           negates == \/ Head(last) = "!"
                      \/ Len(last) > 1 /\ SubSeq(last, 1, 2) = <<"\\", "!">>
       IN  /\ c.answer => c.base = <<>> \/ IsPrefix(Append(c.base, Separator), c.path)
           /\ c.lastAlone => c.answer
           /\ last # <<>> /\ ~negates => (c.withoutLast => c.answer)
           /\ last # <<>> /\ negates  => (c.answer => c.withoutLast)
           /\ last = <<>> \/ Head(last) = "#" => (c.answer <=> c.withoutLast)
=============================================================================
