---------------------------- MODULE IndexSearch ----------------------------
(***************************************************************************)
(* The search of the persistent index (PersistentIndexService::search):    *)
(* for each visible document the matches of its path, then those of its    *)
(* stored text, line by line, within the limits of the query.              *)
(*                                                                         *)
(* A document is [path, text, givesUp]: how many matches its path has, how *)
(* many its text has, and whether the regular expression runs out of its   *)
(* resources on a line, in which case the text counts up to that line.  A  *)
(* result is <<document, match>>, counted from the path on, and takes one  *)
(* unit of the memory budget.                                              *)
(***************************************************************************)
EXTENDS Integers, Sequences

VARIABLES
  inDocument,    \* the document that is searched, 0 before the first
  nextMatch,     \* its match that is tried next
  fileMatches,   \* its results
  indexResults,
  indexEnding    \* "none", or why the search is over

indexSearchVars == <<inDocument, nextMatch, fileMatches, indexResults, indexEnding>>

IndexSearchInit ==
  /\ inDocument = 0 /\ nextMatch = 1 /\ fileMatches = 0 /\ indexResults = <<>>
  /\ indexEnding = "none"

MatchesOf(d, query) ==
  (IF query.target = "content" THEN 0 ELSE d.path)
    + (IF query.target = "name" THEN 0 ELSE d.text)

(* appendIndexedContentResults returns false for the line it gives up on.  *)
EndsSearch(d, query) == d.givesUp /\ query.target # "name"

fitsBudget(bytes, budget) == budget = 0 \/ bytes + 1 <= budget

(* Something of the document is left to be tried. *)
HasMore(documents, query) ==
  inDocument > 0 /\ nextMatch <= MatchesOf(documents[inDocument], query)

-----------------------------------------------------------------------------
(* appendIndexedResults, for one match: the limit of the search is tested  *)
(* before the limit of the file.                                           *)
appendIndexedResult(documents, query) ==
  /\ indexEnding = "none" /\ HasMore(documents, query)
  /\ \/ /\ Len(indexResults) >= query.resultLimit
        /\ indexEnding' = "limit"
        /\ UNCHANGED <<nextMatch, fileMatches, indexResults>>
     \/ /\ Len(indexResults) < query.resultLimit /\ fileMatches >= query.perFileResultLimit
        /\ nextMatch' = nextMatch + 1
        /\ UNCHANGED <<fileMatches, indexResults, indexEnding>>
     \/ /\ Len(indexResults) < query.resultLimit /\ fileMatches < query.perFileResultLimit
        /\ ~fitsBudget(Len(indexResults), query.budget)
        /\ indexEnding' = "memory"
        /\ UNCHANGED <<nextMatch, fileMatches, indexResults>>
     \/ /\ Len(indexResults) < query.resultLimit /\ fileMatches < query.perFileResultLimit
        /\ fitsBudget(Len(indexResults), query.budget)
        /\ indexResults' = Append(indexResults, <<inDocument, nextMatch>>)
        /\ fileMatches' = fileMatches + 1 /\ nextMatch' = nextMatch + 1
        /\ UNCHANGED indexEnding
  /\ UNCHANGED inDocument

GivesUpHere(documents, query) ==
  inDocument > 0 /\ EndsSearch(documents[inDocument], query)

(* A line the expression gives up on ends the whole search, and before the *)
(* next document the stop is looked at.                                    *)
leaveDocument(documents, query, stopped) ==
  /\ indexEnding = "none" /\ ~HasMore(documents, query)
  /\ \/ /\ GivesUpHere(documents, query)
        /\ indexEnding' = "gave up"
        /\ UNCHANGED <<inDocument, nextMatch, fileMatches>>
     \/ /\ ~GivesUpHere(documents, query)
        /\ (inDocument = Len(documents) \/ stopped)
        /\ indexEnding' = IF inDocument = Len(documents) THEN "complete" ELSE "stopped"
        /\ UNCHANGED <<inDocument, nextMatch, fileMatches>>
     \/ /\ ~GivesUpHere(documents, query)
        /\ inDocument < Len(documents) /\ ~stopped
        /\ inDocument' = inDocument + 1 /\ nextMatch' = 1 /\ fileMatches' = 0
        /\ UNCHANGED indexEnding
  /\ UNCHANGED indexResults

IndexSearchNext(documents, query, stopped) ==
  appendIndexedResult(documents, query) \/ leaveDocument(documents, query, stopped)

-----------------------------------------------------------------------------
(* What the index may answer at most: of each document, up to the one the  *)
(* expression gives up on, its first matches.                              *)
IndexAnswer(documents, query) ==
  {r \in (DOMAIN documents) \X (1..query.perFileResultLimit) :
     /\ r[2] <= MatchesOf(documents[r[1]], query)
     /\ \A d \in 1..(r[1] - 1) : ~EndsSearch(documents[d], query)}

Earlier(r, s) == r[1] < s[1] \/ (r[1] = s[1] /\ r[2] < s[2])

Elements(list) == {list[i] : i \in DOMAIN list}

(* A list is the first part of an answer: it is in order, and contains     *)
(* what comes before anything it contains.                                 *)
Begins(list, answer) ==
  /\ \A i, j \in DOMAIN list : i < j => Earlier(list[i], list[j])
  /\ Elements(list) \subseteq answer
  /\ \A i \in DOMAIN list : \A r \in answer : Earlier(r, list[i]) => r \in Elements(list)
=============================================================================
