----------------------------- MODULE FileSearch -----------------------------
(***************************************************************************)
(* searchFile (src/core/search/direct-search-engine.cpp) on one file, with *)
(* publishResult as its sink, as searchFileSynchronously runs it: first    *)
(* the path of the file, if the query asks for names, then its lines.  The *)
(* matches of a line take the lines before it along and are held back      *)
(* until contextAfterLines further lines have been read; addContextAfter   *)
(* and flushPending release them.                                          *)
(*                                                                         *)
(* The structured documents arrive in segments, and a segment releases     *)
(* what the previous one held back; a text file is one segment.            *)
(* publishReadyPending moves a result into the sink before it knows        *)
(* whether the sink takes it; the entry stays in the vector, emptied, when *)
(* the sink refuses.                                                       *)
(***************************************************************************)
EXTENDS SearchInputs, SequencesExt

CONSTANT SearchedFiles  \* what a search of one file may be given

(* A path or a line: how many matches it has, whether a new segment begins *)
(* with it, whether the matcher gives up on it.                            *)
LineKinds == [matches : Nat, opensSegment : BOOLEAN, gaveUp : BOOLEAN]

(* How the reading of a file ends when nothing stops it.                   *)
ReadStatuses == {"completed", "binarySkipped", "openFailed", "readFailed"}

ASSUME FileAssumption ==
  SearchedFiles \subseteq
    [path : LineKinds, lines : Seq(LineKinds), readStatus : ReadStatuses,
     target : {"content", "fileName", "contentAndFileName"},
     contextBefore : Nat, contextAfter : Nat]

VARIABLES
  searched,    \* the file and the options of the query
  pc,          \* where searchFile is
  line,        \* the line being processed; 0 is the path
  match,       \* matches of it already handled
  previousContext,
  pending,     \* pendingResults
  scanned,     \* publishReadyPending: entries it has passed
  fileMatches, \* fileMatches, which is also the local summary.matches
  stopped,     \* why the reading ended early: "", "file" or "search"
  stop,        \* workStopSource
  published,   \* results the caller's sink accepted
  resultBytes, \* summary.resultMemoryBytes
  flags        \* what the summary tells

outputVars == <<published, resultBytes, flags>>
givenVars  == <<searched, previousContext>>
vars == <<givenVars, pc, line, match, pending, scanned, fileMatches, stopped,
          stop, outputVars>>

Lines   == Len(searched.lines)
Text(l) == IF l = 0 THEN searched.path ELSE searched.lines[l]

SearchesFileName(target) == target # "content"
SearchesContent(target)  == target # "fileName"

(* A result: its line and match, the lines of context around it, and       *)
(* whether it was moved from. *)
Result(l, m) ==
  [line |-> l, match |-> m, before |-> previousContext, context |-> <<>>,
   emptied |-> FALSE]
Emptied(result) ==
  [result EXCEPT !.before = <<>>, !.context = <<>>, !.emptied = TRUE]

(* sizeof(SearchResult), its own text, its context lines: one unit each.   *)
ResultBytes(result) ==
  IF result.emptied THEN 1 ELSE 2 + Len(result.before) + Len(result.context)

FileInit(given) ==
  /\ searched = given
  /\ pc = IF SearchesFileName(given.target) THEN "match" ELSE "read"
  /\ line = 0 /\ match = 0
  /\ previousContext = <<>> /\ pending = <<>> /\ scanned = 0
  /\ fileMatches = 0 /\ stopped = "" /\ stop = FALSE
  /\ published = <<>> /\ resultBytes = 0 /\ flags = {}

Init == \E given \in SearchedFiles : FileInit(given)

-----------------------------------------------------------------------------
(* publishResult, with the caller's sink. *)
Take(result) ==
  /\ Len(published) < ResultLimit /\ FitsBudget(resultBytes, ResultBytes(result))
  /\ published' = Append(published, result)
  /\ resultBytes' = resultBytes + ResultBytes(result)
  /\ UNCHANGED <<flags, stop>>

Refuse(result) ==
  /\ \/ /\ Len(published) >= ResultLimit
        /\ flags' = flags \cup {"limitReached"}
     \/ /\ Len(published) < ResultLimit
        /\ ~FitsBudget(resultBytes, ResultBytes(result))
        /\ flags' = flags \cup {"memoryLimitReached"}
     \/ /\ Len(published) < ResultLimit
        /\ FitsBudget(resultBytes, ResultBytes(result))
        /\ flags' = flags \cup {"refused"}
  /\ stop' = TRUE
  /\ UNCHANGED <<published, resultBytes>>

(* publishReadyPending, one entry at a time. *)
Releasing == scanned < Len(pending)

KeepWaiting ==
  /\ Releasing /\ pending[scanned + 1].remaining > 0
  /\ scanned' = scanned + 1
  /\ UNCHANGED <<pending, outputVars, stop, pc, stopped>>

(* vector::erase keeps the order of the rest. *)
SwapErase(i) ==
  [j \in 1..(Len(pending) - 1) |-> IF j = i THEN Last(pending) ELSE pending[j]]
Erase(i) == RemoveAt(pending, i)

Release ==
  /\ Releasing /\ pending[scanned + 1].remaining = 0
  /\ Take(pending[scanned + 1].result)
  /\ pending' = Erase(scanned + 1)
  /\ UNCHANGED <<scanned, pc, stopped>>

(* The sink refuses the entry.  While the file is read this ends the       *)
(* reading, and the final flushPending (k is "flush") makes all that is    *)
(* pending ready and starts over.                                          *)
AllReady == [i \in DOMAIN pending |-> [pending[i] EXCEPT !.remaining = 0]]

ReleaseRefused(k) ==
  /\ Releasing /\ pending[scanned + 1].remaining = 0
  /\ Refuse(pending[scanned + 1].result)
  /\ pending' = [AllReady EXCEPT ![scanned + 1].result = Emptied(@)]
  /\ scanned' = 0
  /\ stopped' = "search"
  /\ pc' = k

(* The reading is over: the final flushPending. *)
StopReading(why) ==
  /\ stopped' = why /\ pc' = "flush"
  /\ pending' = AllReady /\ scanned' = 0

-----------------------------------------------------------------------------
(* The reader's next line; it looks at the token first. *)
NeverOpens(l) == FALSE
OpensSegment(l) == Text(l).opensSegment

NextLine ==
  /\ pc = "read" /\ ~stop /\ line < Lines
  /\ line' = line + 1 /\ match' = 0 /\ scanned' = 0
  /\ IF OpensSegment(line + 1)
     THEN pc' = "segment" /\ pending' = AllReady
     ELSE pc' = "context" /\ UNCHANGED pending
  /\ UNCHANGED <<givenVars, fileMatches, stopped, stop, outputVars>>

EndOfFile ==
  /\ pc = "read" /\ (stop \/ line = Lines)
  /\ StopReading(IF stop THEN "search" ELSE "")
  /\ UNCHANGED <<givenVars, line, match, fileMatches, stop, outputVars>>

(* flushPending where a segment begins. *)
SegmentFlush ==
  /\ pc = "segment"
  /\ KeepWaiting \/ Release \/ ReleaseRefused("flush")
  /\ UNCHANGED <<givenVars, line, match, fileMatches>>

(* addContextAfter first attaches the line to what is pending ... *)
WithContext ==
  [i \in DOMAIN pending |->
     IF pending[i].remaining = 0 THEN pending[i]
     ELSE [pending[i] EXCEPT !.remaining = @ - 1,
                             !.result.context = Append(@, line)]]

AttachContext ==
  /\ pc = "segment" \/ pc = "context"
  /\ pc = "segment" => ~Releasing
  /\ previousContext' = IF pc = "segment" THEN <<>> ELSE previousContext
  /\ scanned' = 0
  /\ pending' = WithContext
  /\ pc' = "match"
  /\ UNCHANGED <<searched, line, match, fileMatches, stopped, stop, outputVars>>

(* ... then releases what has all its context. *)
ContextFlush ==
  /\ pc = "match" /\ match = 0
  /\ KeepWaiting \/ Release \/ ReleaseRefused("flush")
  /\ UNCHANGED <<givenVars, line, match, fileMatches>>

(* findMatches: the matcher gives up, which ends the search. *)
GiveUp ==
  /\ pc = "match" /\ match = 0 /\ ~Releasing /\ Text(line).gaveUp
  /\ StopReading("search")
  /\ UNCHANGED <<givenVars, line, match, fileMatches, stop, outputVars>>

(* publishMatches: a match over one of the two limits ... *)
HasNext == match < Text(line).matches

AtMatch ==
  /\ pc = "match" /\ ~Text(line).gaveUp
  /\ match = 0 => ~Releasing

OverLimits ==
  /\ AtMatch /\ HasNext
  /\ \/ /\ fileMatches >= ResultLimit
        /\ flags' = flags \cup {"limitReached"}
        /\ StopReading("search")
     \/ /\ fileMatches < ResultLimit /\ fileMatches >= PerFileLimit
        /\ flags' = flags \cup {"perFile"}
        /\ StopReading("file")
  /\ UNCHANGED <<givenVars, line, match, fileMatches, stop, published, resultBytes>>

(* ... or one within them: to the sink, or to the pending results. *)
WithinLimits == HasNext /\ fileMatches < ResultLimit /\ fileMatches < PerFileLimit

(* The sink refuses a match: publishMatches answers stopSearch. *)
NextMatch == UNCHANGED <<pending, scanned, pc, stopped>>
StopSearch == StopReading("search")

PublishMatch ==
  /\ AtMatch /\ WithinLimits
  /\ match' = match + 1 /\ fileMatches' = fileMatches + 1
  /\ \/ /\ searched.contextAfter = 0
        /\ \/ Take(Result(line, match + 1)) /\ NextMatch
           \/ Refuse(Result(line, match + 1)) /\ StopSearch
     \/ /\ searched.contextAfter > 0
        /\ pending' = Append(pending, [result |-> Result(line, match + 1),
                                       remaining |-> searched.contextAfter])
        /\ scanned' = Len(pending')
        /\ UNCHANGED <<pc, stopped, stop, outputVars>>
  /\ UNCHANGED <<givenVars, line>>

(* The line joins the context of the next one.                             *)
WithLine ==
  LET all == Append(previousContext, line)
      kept == Min({Len(all), searched.contextBefore})
  IN  SubSeq(all, Len(all) - kept + 1, Len(all))

LineDone ==
  /\ AtMatch /\ ~HasNext /\ line > 0
  /\ previousContext' = WithLine
  /\ pc' = "read"
  /\ UNCHANGED <<searched, line, match, pending, scanned, fileMatches, stopped,
                 stop, outputVars>>

(* The path is done: its results wait for nothing, and the lines follow if *)
(* the query asks for them.                                                *)
PathDone ==
  /\ AtMatch /\ ~HasNext /\ line = 0
  /\ pc' = "path" /\ pending' = AllReady /\ scanned' = 0
  /\ UNCHANGED <<givenVars, line, match, fileMatches, stopped, stop, outputVars>>

PathFlush ==
  /\ pc = "path"
  /\ \/ Release \/ ReleaseRefused("done")
     \/ /\ ~Releasing
        /\ pc' = IF SearchesContent(searched.target) THEN "read" ELSE "done"
        /\ UNCHANGED <<pending, scanned, stopped, stop, outputVars>>
  /\ UNCHANGED <<givenVars, line, match, fileMatches>>

(* reportTextReadSummary and reportDocumentExtractionSummary tell of a     *)
(* reading that nothing stopped; the file that cannot be read is passed.   *)
ReadSummaryFlags ==
  CASE stopped # "" -> {}
    [] searched.readStatus = "binarySkipped" -> {"binaryFile"}
    [] searched.readStatus \in {"openFailed", "readFailed"} -> {"partialFailure"}
    [] OTHER -> {}

(* flushPending after the reading, whatever ended it. *)
NoFinalFlush ==
  /\ pc = "flush" /\ pc' = "done"
  /\ UNCHANGED <<givenVars, line, match, pending, scanned, fileMatches, stopped,
                 stop, outputVars>>
FinalFlush ==
  /\ pc = "flush"
  /\ \/ Release \/ ReleaseRefused("done")
     \/ /\ ~Releasing /\ pc' = "done"
        /\ flags' = flags \cup ReadSummaryFlags
        /\ UNCHANGED <<pending, scanned, stopped, stop, published, resultBytes>>
  /\ UNCHANGED <<givenVars, line, match, fileMatches>>

Cancel ==
  /\ pc # "done" /\ ~stop
  /\ stop' = TRUE
  /\ UNCHANGED <<givenVars, pc, line, match, pending, scanned, fileMatches, stopped,
                 outputVars>>

Done == pc = "done" /\ UNCHANGED vars

Next ==
  \/ NextLine \/ EndOfFile \/ SegmentFlush \/ AttachContext \/ ContextFlush
  \/ GiveUp \/ OverLimits \/ PublishMatch \/ LineDone \/ PathDone \/ PathFlush
  \/ FinalFlush
  \/ Cancel \/ Done

Spec == Init /\ [][Next]_vars

-----------------------------------------------------------------------------
(* The results of a file reach the sink in the order of its lines and, on  *)
(* a line, of its matches, although each one waits for its own context.    *)
PublishedBefore(r, s) == r.line < s.line \/ (r.line = s.line /\ r.match < s.match)

PublishedInOrder ==
  \A i, j \in DOMAIN published : i < j => PublishedBefore(published[i], published[j])

(* A result found in the lines carries the lines directly before it and    *)
(* directly after it in its segment, as many as were asked for: fewer      *)
(* before it only at the top of a segment, fewer after it only where the   *)
(* segment or the reading ended.  One found in the path carries none.      *)
Opens(l)         == Text(l).opensSegment
FirstOfSegment(l) == l = 1 \/ Opens(l)
LastOfSegment(l)  == l = Lines \/ Opens(l + 1)

LinesBefore(r) ==
  LET n == Len(r.before)
  IN  /\ r.before = [k \in 1..n |-> r.line - n - 1 + k]
      /\ \A k \in (r.line - n + 1)..r.line : ~Opens(k)
      /\ n < searched.contextBefore => FirstOfSegment(r.line - n)

LinesAfter(r) ==
  LET n == Len(r.context)
      last == r.line + n
  IN  /\ r.context = [k \in 1..n |-> r.line + k]
      /\ \A k \in 1..n : ~Opens(r.line + k)
      /\ n < searched.contextAfter => LastOfSegment(last) \/ last = line

ContextIsWhatSurrounds ==
  \A i \in DOMAIN published :
    LET r == published[i]
    IN  ~r.emptied =>
          IF r.line = 0 THEN r.before = <<>> /\ r.context = <<>>
          ELSE LinesBefore(r) /\ LinesAfter(r)

(* Every match of the lines read is accounted for: published, or held back *)
(* with its place in the queue, unless something ended the search.         *)
NothingHeldBackAtEnd ==
  pc = "done" /\ "refused" \notin flags /\ "memoryLimitReached" \notin flags =>
    pending = <<>> /\ Len(published) = fileMatches
=============================================================================
