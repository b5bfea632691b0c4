----------------------------- MODULE MCSources -----------------------------
EXTENDS Sources, MCPackages

(* The sequences of 0..n members of an alphabet. *)
Chars(n, alphabet) == UNION {[1..k -> alphabet] : k \in 0..n}

-----------------------------------------------------------------------------
(* Directories with files of two sizes, one too large, and links; and the  *)
(* same with ignore files: two rules in the root, an exception below.      *)
Node(kind, parent, target, size) ==
  [kind |-> kind, parent |-> parent, target |-> target, size |-> size,
   hidden |-> FALSE, matching |-> TRUE, ignoreFile |-> <<>>]
DirectoryIn(parent)     == Node("directory", parent, Gone, 0)
FileIn(parent, size)    == Node("file", parent, Gone, size)
LinkIn(parent, target)  == Node("link", parent, target, 0)

PlainTree ==
  (0 :> DirectoryIn(Gone)) @@
  <<DirectoryIn(0), FileIn(0, 2), DirectoryIn(1), FileIn(3, 1), FileIn(1, 1),
    LinkIn(0, 3), LinkIn(3, 0)>>

Ignoring(negated, matches) == [negated |-> negated, matches |-> matches]

IgnoringTree ==
  [PlainTree EXCEPT
     ![0].ignoreFile = <<Ignoring(FALSE, {4, 5})>>,
     ![1].ignoreFile = <<Ignoring(TRUE, {5})>>,
     ![2].hidden = TRUE,
     ![7] = LinkIn(1, 2)]

DefaultOptions ==
  [includeSubdirectories |-> TRUE, followSymlinks |-> FALSE,
   respectGitignore |-> TRUE, includeHidden |-> FALSE, maximumFileSize |-> 2,
   included |-> {}, excluded |-> {}, rules |-> <<>>]

ManyTrees == {PlainTree, IgnoringTree}

ManyOptions ==
  {DefaultOptions,
   [DefaultOptions EXCEPT !.followSymlinks = TRUE, !.respectGitignore = FALSE,
                          !.includeHidden = TRUE],
   [DefaultOptions EXCEPT !.included = {1}, !.excluded = {4}],
   [DefaultOptions EXCEPT !.includeSubdirectories = FALSE,
                          !.rules = <<Ignoring(FALSE, {2})>>],
   [DefaultOptions EXCEPT !.followSymlinks = TRUE]}

-----------------------------------------------------------------------------
(* Ignore files, character by character: blanks at the end, escapes,       *)
(* comments, exceptions, directories, anchors, a Windows separator.        *)
ManyGlobs     == Chars(4, {"a", "b", "*", "?"})
ManyGlobTexts == Chars(4, {"a", "b"})

ManyIgnoreLines ==
  {<<>>, <<"a">>, <<"*">>, <<"!", "a">>, <<"#", "a">>, <<"\\", "!", "a">>,
   <<"/", "a">>, <<"a", "/">>, <<"d", "\\", "a">>, <<"d", "/", "a">>,
   <<"!", "d", "/", "a">>, <<"a", " ", "\r">>, <<"d", "/", "?", "/">>}

ManyIgnoreBases == {<<>>, <<"d">>}

ManyQueriedPaths ==
  {<<"a">>, <<"d">>, <<"d", "/", "a">>, <<"d", "/", "a", "/", "b">>,
   <<"d", "a">>, <<"/", "a">>, <<"d", "/", "d", "/", "a">>}

-----------------------------------------------------------------------------
(* A directory, one below it with a file, and a file at the top.           *)
ManyWatchedPaths == <<"d", "d/e", "d/e/h", "f">>
WatchedParents ==
  [p \in {"d", "d/e", "d/e/h", "f"} |->
     CASE p = "d/e" -> "d" [] p = "d/e/h" -> "d/e" [] OTHER -> "root"]

-----------------------------------------------------------------------------
(* Files byte by byte: letters, both line ends, the two bytes of one       *)
(* letter and one that no encoding allows; byte order marks; UTF-16 with   *)
(* halves of a pair and an odd byte; bytes that are no text.               *)
Bom8    == <<239, 187, 191>>
Units   == {<<97, 0>>, <<10, 0>>, <<13, 0>>, <<0, 216>>, <<0, 220>>}
Utf16LE == {<<255, 254>> \o FlattenSeq(units) \o odd :
              units \in Chars(2, Units), odd \in {<<>>, <<97>>}}
Utf16BE == {<<254, 255, 0, 97, 0, 10, 216, 0, 220, 0>>, <<254, 255, 0, 97, 216, 0, 0>>}
Binary  == {<<0, 97>>, <<1, 2, 3, 97>>, <<97, 1, 10, 98>>}

ManyTextFiles ==
  Chars(4, {97, 10, 13, 195}) \cup Chars(3, {97, 195, 191})
    \cup {Bom8 \o bytes : bytes \in Chars(3, {97, 10, 13})}
    \cup Utf16LE \cup Utf16BE \cup Binary

Choice(policy, fallback, includeBinary, taken) ==
  [policy |-> policy, fallback |-> fallback, includeBinary |-> includeBinary,
   taken |-> taken]

ManyTextChoices ==
  {Choice("fail", "utf8", FALSE, 9), Choice("replace", "utf8", FALSE, 1),
   Choice("ignore", "utf8", TRUE, 9), Choice("replace", "latin1", TRUE, 9)}

-----------------------------------------------------------------------------
(* Lines and expressions as code points: a letter, two composed ones and   *)
(* the capital of one, two marks, an underscore.                           *)
ManyLiteralTexts       == Chars(3, {97, 193, 225, 769, 807, 95})
ManyLiteralExpressions == Chars(2, {65, 97, 225, 193, 769, 807})

(* What the regular expression engine answers, call by call: nothing, out  *)
(* of resources, or a match of some length.                                *)
ManyRegexAnswers == UNION {[1..k -> {-1, -2, 1, 2, 3}] : k \in 1..3}

ManyMatchChoices ==
  {[caseSensitive |-> c, wholeWord |-> w, wholeIdentifier |-> i] :
     c, w, i \in BOOLEAN}

-----------------------------------------------------------------------------
LineWith(matches, opensSegment, gaveUp) ==
  [matches |-> matches, opensSegment |-> opensSegment, gaveUp |-> gaveUp]

Searched(target, path, lines, readStatus, before, after) ==
  [path |-> path, lines |-> lines, readStatus |-> readStatus, target |-> target,
   contextBefore |-> before, contextAfter |-> after]

(* A line without a match, with one, with two; one that opens a segment;   *)
(* one on which the matcher gives up.                                      *)
PlainLines == {LineWith(n, FALSE, FALSE) : n \in 0..2}
AllLines   == PlainLines
                \cup {LineWith(1, TRUE, FALSE), LineWith(0, TRUE, FALSE),
                      LineWith(0, FALSE, TRUE)}
NoMatch    == LineWith(0, FALSE, FALSE)

(* Four lines searched without the path, in every way; paths with no, one  *)
(* or two matches, or with a matcher that gives up, with and without two   *)
(* lines; files that cannot be read, or not to their end.                  *)
ManySearchedFiles ==
  {Searched("content", NoMatch, lines, "completed", before, after) :
     lines \in [1..4 -> AllLines], before \in {0, 2}, after \in 0..2}
  \cup {Searched(target, path, lines, readStatus, 1, after) :
     target \in {"fileName", "contentAndFileName"},
     path \in PlainLines \cup {LineWith(0, FALSE, TRUE)},
     lines \in [1..2 -> PlainLines], readStatus \in {"completed", "readFailed"},
     after \in 0..1}
  \cup {Searched("contentAndFileName", path, <<>>, readStatus, 0, 1) :
     path \in PlainLines, readStatus \in {"binarySkipped", "openFailed"}}

NoFiles == {}
=============================================================================
