----------------------------- MODULE MCDesktop -----------------------------
EXTENDS Desktop

CONSTANTS p1, p2

(* Settings: the one for which zero means nothing. *)
Order  == <<"resultLimit">>
Limits == [field \in {"resultLimit"} |-> 2]

GlobalOf(limit, telemetry)  == [resultLimit |-> limit, telemetryEnabled |-> telemetry]
OverridesOf(limit, ignore)  == [resultLimit |-> limit, respectGitignore |-> ignore]

Globals   == {GlobalOf(0, TrueText), GlobalOf(3, FalseText)}
Overrides == {OverridesOf(0, FalseText)}
Editable  == {Garbage, 3}

(* An export file edited by hand: a limit that is too large, and a text    *)
(* where a number belongs.                                                 *)
Edited == {Document(GlobalOf(limit, FalseText), {<<"a", 1>>}) : limit \in {3, NoNumber}}

(* Folders: a root with a folder that has one too, and another root.       *)
Tree == [d \in {"r", "r/a", "r/a/b", "s"} |->
           CASE d = "r/a" -> "r" [] d = "r/a/b" -> "r/a" [] OTHER -> NoDirectory]

(* What a search may find: nothing, one result, three in two files.        *)
Direct == {<<>>, <<<<1, 1>>>>, <<<<1, 1>>, <<1, 3>>, <<2, 1>>>>}

Indexed(path, text, givesUp) == [path |-> path, text |-> text, givesUp |-> givesUp]

(* An index with matches in a path and two texts; one where the expression *)
(* gives up in the first of two documents.                                 *)
Indexes == {<<>>, <<Indexed(1, 3, FALSE), Indexed(0, 1, FALSE)>>,
            <<Indexed(1, 1, TRUE), Indexed(1, 0, FALSE)>>}

Batching(adaptive, size, minimum, maximum) ==
  [adaptive |-> adaptive, size |-> size, minimum |-> minimum, maximum |-> maximum]

(* Fixed, growing from one, and with a maximum below the minimum. *)
Batchings == {Batching(FALSE, 2, 0, 0), Batching(TRUE, 1, 0, 4),
              Batching(TRUE, 3, 2, 1)}

Asked(limit, perFile, budget, target) ==
  [resultLimit |-> limit, perFileResultLimit |-> perFile, budget |-> budget,
   target |-> target]

Asks == {Asked(3, 9, 0, "both"), Asked(9, 2, 0, "content"),
         Asked(9, 9, 2, "name"), Asked(9, 9, 2, "both")}
=============================================================================
