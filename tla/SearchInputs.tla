---------------------------- MODULE SearchInputs ----------------------------
(***************************************************************************)
(* What a direct search is given: the files of its roots in the order in   *)
(* which the scanner visits them, and the limits of the query              *)
(* (src/core/search/direct-search-engine.cpp, SearchOptions).              *)
(*                                                                         *)
(* A file is what searchFile would find in it, one entry per match: the    *)
(* approximate memory of the result and the chunk it belongs to (the text  *)
(* between two looks at the stop token: a line of a text file, a segment   *)
(* of a document), how the reading ends ("continue", "stop" when the       *)
(* matcher gives up, "throw"), and whether it is big: 64 KiB or more, or   *)
(* any size when the query asks for a number of threads.                   *)
(***************************************************************************)
EXTENDS Integers, Sequences

CONSTANTS
  FileKinds,     \* the files a root may hold
  NumFiles,      \* bound: files per search
  ResultLimit,   \* options.resultLimit
  PerFileLimit,  \* options.perFileResultLimit
  MemoryBudget   \* options.resultMemoryBudgetBytes; 0 is no budget

Endings == {"continue", "stop", "throw"}

(* validateSearchQuery refuses limits of zero. *)
ASSUME InputAssumption ==
  /\ NumFiles \in Nat
  /\ ResultLimit \in Nat \ {0}
  /\ PerFileLimit \in Nat \ {0}
  /\ MemoryBudget \in Nat
  /\ FileKinds \subseteq [results : Seq([bytes : Nat, chunk : Nat]),
                          ending : Endings, big : BOOLEAN]

FileIds == 1..NumFiles
Worlds  == [FileIds -> FileKinds]

(* publishMatches counts the matches of one file against both limits; the  *)
(* match that exceeds one of them ends the file.                           *)
OverLimit(file, at)   == at < Len(file.results) /\ at >= ResultLimit
OverPerFile(file, at) ==
  at < Len(file.results) /\ at < ResultLimit /\ at >= PerFileLimit
HasMatch(file, at)    ==
  at < Len(file.results) /\ at < ResultLimit /\ at < PerFileLimit

(* searchResultFitsMemoryBudget; the code subtracts instead of adding, so  *)
(* that nothing overflows.                                                 *)
FitsBudget(used, bytes) ==
  \/ MemoryBudget = 0
  \/ used <= MemoryBudget /\ bytes <= MemoryBudget - used
=============================================================================
