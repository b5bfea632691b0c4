-------------------------- MODULE SequentialSearch --------------------------
(***************************************************************************)
(* What a direct search promises its caller, whatever the number of        *)
(* workers: the results a single thread would find, in the order of the    *)
(* scanner, until a limit, an error, a refusal or a cancellation ends the  *)
(* search, and an outcome that says which (docs/product/                   *)
(* search-semantics.md, "Deterministic order" and "Result limits").        *)
(***************************************************************************)
EXTENDS SearchInputs

CONSTANTS
  HoldsBack,     \* results wait for context lines that follow them
  EmptiedBytes   \* the memory of a result that was moved from

VARIABLES
  files,      \* the files of this search, in the scanner's order
  delivered,  \* results handed to the sink, <<file, match>>
  used,       \* their memory
  turnedDown, \* a result was refused, by the budget or the sink
  emptied,    \* results delivered without their contents
  outcome     \* "running", or how the search ended

seqVars == <<files, delivered, used, turnedDown, emptied, outcome>>

Bytes(result) == files[result[1]].results[result[2]].bytes

(* The per-file limit cuts a file only where it is below the global one.   *)
CutShort(f) == OverPerFile(files[f], PerFileLimit)

ShownCount(f) == IF CutShort(f) THEN PerFileLimit ELSE Len(files[f].results)

(* A file that is read to its end ends the way its reading ends, and no    *)
(* file is searched after one that ends the search.                        *)
EndsSearch(f) == files[f].ending # "continue" /\ ~CutShort(f)
Reached(f)    == \A g \in 1..(f - 1) : ~EndsSearch(g)
EndedBy(ending) ==
  \E f \in FileIds : Reached(f) /\ EndsSearch(f) /\ files[f].ending = ending

(* Everything the search would deliver if nothing cut it short, and what   *)
(* is missing of it.                                                       *)
Promised ==
  UNION {{<<f, i>> : i \in 1..ShownCount(f)} : f \in {g \in FileIds : Reached(g)}}
Missing == Promised \ {delivered[k] : k \in 1..Len(delivered)}

Before(r, s) == r[1] < s[1] \/ (r[1] = s[1] /\ r[2] < s[2])
More         == Missing # {}
Upcoming     == CHOOSE r \in Missing : \A s \in Missing : r = s \/ Before(r, s)
UpcomingFits == FitsBudget(used, Bytes(Upcoming))

SeqInit ==
  /\ files \in Worlds /\ delivered = <<>> /\ used = 0
  /\ turnedDown = FALSE /\ emptied = {}
  /\ outcome = "running"

HandOver(bytes) ==
  /\ outcome = "running" /\ More
  /\ Len(delivered) < ResultLimit /\ FitsBudget(used, bytes)
  /\ delivered' = Append(delivered, Upcoming)
  /\ used' = used + bytes
  /\ UNCHANGED <<files, turnedDown, outcome>>

(* Nothing is delivered after a result was turned down, with the exception *)
(* of DeliverEmptied.                                                      *)
Deliver ==
  /\ HandOver(Bytes(Upcoming))
  /\ turnedDown => \E r \in emptied : r[1] = Upcoming[1]
  /\ UNCHANGED emptied

TurnDown ==
  /\ outcome = "running" /\ More
  /\ turnedDown' = TRUE
  /\ UNCHANGED <<files, delivered, used, emptied, outcome>>

(* Exception to "if the next result would exceed the budget, it is not     *)
(* published" (search-semantics.md, Result limits): a result that waited   *)
(* for its context lines and was turned down is offered a second time when *)
(* its file is left, emptied by the first offer; once it is taken, the     *)
(* results that waited behind it follow.                                   *)
DeliverEmptied ==
  /\ HoldsBack /\ turnedDown /\ emptied = {}
  /\ HandOver(EmptiedBytes)
  /\ emptied' = {Upcoming}

(* Results that were waiting in a file when its reading threw are lost.    *)
LostInThrow ==
  /\ HoldsBack
  /\ \E f \in FileIds : /\ Reached(f) /\ EndsSearch(f) /\ files[f].ending = "throw"
                        /\ \A r \in Missing : r[1] = f

(* How a search may end, given what it has delivered.  A result limit or a *)
(* memory budget ends it only in front of a result that exceeds it, so     *)
(* exactly ResultLimit matches are "complete"; the document says that      *)
(* limitReached must be true once the limit is reached (Result limits).    *)
MayEnd(how) ==
  CASE how = "limit"    -> More /\ Len(delivered) = ResultLimit
    [] how = "memory"   -> \/ emptied # {}
                           \/ More /\ Len(delivered) < ResultLimit /\ ~UpcomingFits
    [] how = "complete" -> ~More /\ ~turnedDown /\ \A f \in FileIds : ~EndsSearch(f)
    [] how = "halted"   -> ~More /\ ~turnedDown /\ EndedBy("stop")
    [] how = "failed"   -> ~turnedDown /\ EndedBy("throw") /\ (~More \/ LostInThrow)
    [] how = "stopped"  -> TRUE

End ==
  /\ outcome = "running"
  /\ outcome' \in {how \in {"limit", "memory", "complete", "halted", "failed",
                             "stopped"} : MayEnd(how)}
  /\ UNCHANGED <<files, delivered, used, turnedDown, emptied>>

SeqNext == Deliver \/ TurnDown \/ DeliverEmptied \/ End

SeqSpec == SeqInit /\ [][SeqNext]_seqVars
=============================================================================
