--------------------------- MODULE DesktopSession ---------------------------
(***************************************************************************)
(* The search controller of the desktop application                        *)
(* (apps/desktop/src/search-controller.cpp): searches, previews and        *)
(* indexing runs in Qt's thread pool, and the event loop of the main       *)
(* thread, to which their results, progress and finished signals are       *)
(* posted.  Everything posted to the main thread is delivered in the order *)
(* of posting (Qt::QueuedConnection, QFutureWatcher).                      *)
(*                                                                         *)
(* A task is known by a number: searches, previews and indexing runs are   *)
(* counted by the controller.  What a search sends and how it ends is      *)
(* SearchService's promise (here: up to MaxResults results, then a         *)
(* summary); a preview is the text of its file; an indexing run reports    *)
(* progress and ends with a summary.                                       *)
(***************************************************************************)
EXTENDS Naturals, Sequences, FiniteSets

CONSTANTS
  Files,          \* files that can be previewed
  MaxSearches,    \* bound: searches, previews and indexing runs started
  MaxPreviews,
  MaxIndexRuns,
  MaxTasks,       \* bound: all of them together
  MaxResults,     \* bound: results of one search
  MaxProgress     \* bound: progress reports of one indexing run

None == 0
NoFile == "none"

ASSUME SessionAssumption ==
  /\ NoFile \notin Files
  /\ {MaxSearches, MaxPreviews, MaxIndexRuns, MaxTasks, MaxResults, MaxProgress}
       \subseteq Nat

SearchIds  == 1..MaxSearches
PreviewIds == 1..MaxPreviews
IndexIds   == 1..MaxIndexRuns

VARIABLES
  running, cancelling, status,
  rows,            \* resultsModel
  matchesFound,
  latestSearchId,  \* also the search of activeWatcher, while there is one
  activeWatcher,
  searchStop,      \* searches whose stop source was requested
  search,          \* the task of each search
  preview,         \* previewFilePathValue and what is shown for it
  previewLoading,
  previews,        \* history: loadPreview calls so far; names the watchers
  activePreviewWatcher,
  previewTask,
  previewWanted,   \* history: the last preview asked for, or None
  indexingRunning, indexingStatus,
  indexRuns, indexingStop,
  indexTask,
  events,          \* the main thread's event queue
  controller       \* "alive"; in the destructor "closing", "search over"; "gone"

searchVars  == <<running, cancelling, status, rows, matchesFound,
                 latestSearchId, activeWatcher, searchStop>>
previewVars == <<preview, previewLoading, previews, activePreviewWatcher,
                 previewWanted>>
indexVars   == <<indexingRunning, indexingStatus, indexRuns, indexingStop>>
taskVars    == <<search, previewTask, indexTask>>
sessionVars == <<searchVars, previewVars, indexVars, taskVars, events, controller>>

Endings  == {"cancelled", "partial", "completed"}   \* failed: as completed
Finals   == {"indexing cancelled", "updated"}

SessionInit ==
  /\ running = FALSE /\ cancelling = FALSE /\ status = "ready"
  /\ rows = <<>> /\ matchesFound = 0
  /\ latestSearchId = 0 /\ activeWatcher = None /\ searchStop = {}
  /\ search = [s \in SearchIds |-> [state |-> "none", sent |-> 0]]
  /\ preview = [file |-> NoFile, text |-> "empty"] /\ previewLoading = FALSE
  /\ previews = 0 /\ activePreviewWatcher = None /\ previewWanted = None
  /\ previewTask = [p \in PreviewIds |->
                      [state |-> "none", file |-> NoFile, stop |-> FALSE]]
  /\ indexingRunning = FALSE /\ indexingStatus = "inactive"
  /\ indexRuns = 0 /\ indexingStop = {}
  /\ indexTask = [r \in IndexIds |-> [state |-> "none", reported |-> 0]]
  /\ events = <<>> /\ controller = "alive"

Alive == controller = "alive"
MayStart == Alive /\ latestSearchId + previews + indexRuns < MaxTasks
PostFirst(event) == events' = <<event>> \o events
Post(event) == events' = Append(events, event)

-----------------------------------------------------------------------------
(* Previews.  A superseded or cleared preview has its watcher deleted      *)
(* later: its finished signal, if it is still delivered, is ignored.       *)
StopPreview ==
  previewTask' = IF previews = 0 THEN previewTask
                 ELSE [previewTask EXCEPT ![previews].stop = TRUE]

clearPreview ==
  /\ StopPreview
  /\ activePreviewWatcher' = None
  /\ preview' = [file |-> NoFile, text |-> "empty"]
  /\ previewLoading' = FALSE
  /\ previewWanted' = None
  /\ UNCHANGED previews

(* The fallback text of the result is shown until the file is read. *)
loadPreview(file) ==
  /\ MayStart /\ previews < MaxPreviews
  /\ LET p == previews + 1 IN
       /\ previews' = p /\ activePreviewWatcher' = p /\ previewWanted' = p
       /\ previewTask' =
            [q \in PreviewIds |->
               IF q = p THEN [state |-> "running", file |-> file, stop |-> FALSE]
               ELSE IF q = previews THEN [previewTask[q] EXCEPT !.stop = TRUE]
               ELSE previewTask[q]]
  /\ preview' = [file |-> file, text |-> "fallback"]
  /\ previewLoading' = TRUE
  /\ UNCHANGED <<searchVars, indexVars, search, indexTask, events, controller>>

ClearPreview ==
  /\ Alive /\ clearPreview
  /\ UNCHANGED <<searchVars, indexVars, search, indexTask, events, controller>>

(* loadPreviewText: stopped, it reports "cancelled"; otherwise the text, or *)
(* why there is none, which the preview shows instead.                     *)
PreviewTaskEnds(p) ==
  /\ previewTask[p].state = "running"
  /\ \E text \in IF previewTask[p].stop THEN {"cancelled", "text"}
                 ELSE {"text", "unreadable"} :
       Post([kind |-> "previewFinished", id |-> p,
             result |-> [file |-> previewTask[p].file, text |-> text]])
  /\ previewTask' = [previewTask EXCEPT ![p].state = "done"]
  /\ UNCHANGED <<searchVars, previewVars, indexVars, search, indexTask, controller>>

setPreviewResult(result) ==
  preview' = IF result.text = "cancelled" THEN preview ELSE result

AnyPreview(event) == TRUE
IsCurrentPreview(event) == event.id = activePreviewWatcher

OnPreviewFinished(event) ==
  /\ IF IsCurrentPreview(event)
     THEN /\ activePreviewWatcher' = None
          /\ setPreviewResult(event.result)
          /\ previewLoading' = FALSE
     ELSE UNCHANGED <<activePreviewWatcher, preview, previewLoading>>
  /\ UNCHANGED <<searchVars, indexVars, taskVars, previews, previewWanted>>

-----------------------------------------------------------------------------
(* Searches.  The scope is not empty and the expression is not either.     *)
KeepRows     == UNCHANGED rows /\ matchesFound' = 0
ClearResults == rows' = <<>> /\ matchesFound' = 0

startSearch ==
  /\ MayStart /\ ~running /\ latestSearchId < MaxSearches
  /\ ClearResults
  /\ clearPreview
  /\ cancelling' = FALSE /\ running' = TRUE /\ status' = "searching"
  /\ latestSearchId' = latestSearchId + 1
  /\ activeWatcher' = latestSearchId + 1
  /\ search' = [search EXCEPT ![latestSearchId + 1].state = "running"]
  /\ UNCHANGED <<searchStop, indexVars, indexTask, events, controller>>

NoRequest   == UNCHANGED searchStop
RequestStop == searchStop' = searchStop \cup {latestSearchId}

CancelSearch ==
  IF running /\ ~cancelling
  THEN cancelling' = TRUE /\ status' = "cancelling" /\ RequestStop
  ELSE UNCHANGED <<cancelling, status, searchStop>>

cancel ==
  /\ Alive /\ CancelSearch
  /\ UNCHANGED <<running, rows, matchesFound, latestSearchId, activeWatcher,
                 previewVars, indexVars, taskVars, events, controller>>

(* The sink posts the result to the main thread and always asks for more.  *)
SearchSends(s) ==
  /\ search[s].state = "running" /\ search[s].sent < MaxResults
  /\ Post([kind |-> "row", id |-> s, number |-> search[s].sent + 1])
  /\ search' = [search EXCEPT ![s].sent = @ + 1]
  /\ UNCHANGED <<searchVars, previewVars, indexVars, previewTask, indexTask,
                 controller>>

(* The summary counts the results; an exception becomes a summary of its   *)
(* own, with an error, "partial" and no matches.                           *)
SearchEnds(s) ==
  /\ search[s].state = "running"
  /\ \/ \E ending \in Endings :
          /\ ending = "cancelled" => s \in searchStop
          /\ Post([kind |-> "searchFinished", id |-> s, ending |-> ending,
                   matches |-> search[s].sent])
     \/ Post([kind |-> "searchFinished", id |-> s, ending |-> "partial",
              matches |-> 0])
  /\ search' = [search EXCEPT ![s].state = "done"]
  /\ UNCHANGED <<searchVars, previewVars, indexVars, previewTask, indexTask,
                 controller>>

OnRow(event) ==
  /\ rows' = IF event.id = latestSearchId
             THEN Append(rows, <<event.id, event.number>>) ELSE rows
  /\ UNCHANGED <<running, cancelling, status, matchesFound, latestSearchId,
                 activeWatcher, searchStop, previewVars, indexVars, taskVars>>

OnSearchFinished(event) ==
  /\ IF event.id = activeWatcher /\ event.id = latestSearchId
     THEN /\ activeWatcher' = None
          /\ matchesFound' = event.matches
          /\ status' = event.ending
          /\ cancelling' = FALSE /\ running' = FALSE
     ELSE UNCHANGED <<activeWatcher, matchesFound, status, cancelling, running>>
  /\ UNCHANGED <<rows, latestSearchId, searchStop, previewVars, indexVars,
                 taskVars>>

-----------------------------------------------------------------------------
(* Indexing. *)
startIndexing ==
  /\ MayStart /\ ~indexingRunning /\ indexRuns < MaxIndexRuns
  /\ indexRuns' = indexRuns + 1
  /\ indexingRunning' = TRUE /\ indexingStatus' = "preparing"
  /\ indexTask' = [indexTask EXCEPT ![indexRuns + 1].state = "preparing"]
  /\ UNCHANGED <<searchVars, previewVars, indexingStop, search, previewTask,
                 events, controller>>

(* Without a scope. *)
startIndexingNowhere ==
  /\ Alive /\ ~indexingRunning
  /\ indexingStatus' = "no scope"
  /\ UNCHANGED <<searchVars, previewVars, indexingRunning, indexRuns,
                 indexingStop, taskVars, events, controller>>

cancelIndexing ==
  /\ Alive /\ indexingRunning
  /\ indexingStatus' = "cancelling indexing"
  /\ indexingStop' = indexingStop \cup {indexRuns}
  /\ UNCHANGED <<searchVars, previewVars, indexingRunning, indexRuns, taskVars,
                 events, controller>>

(* The root, with or without Git: first a line that names it, then the     *)
(* progress of the index update.                                           *)
IndexTaskReports(r) ==
  /\ \/ /\ indexTask[r].state = "preparing"
        /\ indexTask' = [indexTask EXCEPT ![r].state = "running"]
     \/ /\ indexTask[r].state = "running" /\ indexTask[r].reported < MaxProgress
        /\ indexTask' = [indexTask EXCEPT ![r].reported = @ + 1]
  /\ Post([kind |-> "progress", id |-> r])
  /\ UNCHANGED <<searchVars, previewVars, indexVars, search, previewTask, controller>>

(* Errors and exceptions only count as failed files. *)
IndexTaskEnds(r) ==
  /\ indexTask[r].state \in {"preparing", "running"}
  /\ \E final \in Finals :
       /\ final = "indexing cancelled" => r \in indexingStop
       /\ Post([kind |-> "indexingFinished", id |-> r, final |-> final])
  /\ indexTask' = [indexTask EXCEPT ![r].state = "done"]
  /\ UNCHANGED <<searchVars, previewVars, indexVars, search, previewTask, controller>>

OnProgress(event) ==
  /\ indexingStatus' = "progress"
  /\ UNCHANGED <<searchVars, previewVars, indexingRunning, indexRuns,
                 indexingStop, taskVars>>

OnIndexingFinished(event) ==
  /\ indexingStatus' = event.final
  /\ indexingRunning' = FALSE
  /\ UNCHANGED <<searchVars, previewVars, indexRuns, indexingStop, taskVars>>

-----------------------------------------------------------------------------
(* The event loop runs while the controller is alive. *)
DeliverEvent ==
  /\ Alive /\ events # <<>>
  /\ events' = Tail(events)
  /\ LET event == Head(events) IN
       CASE event.kind = "row"              -> OnRow(event)
         [] event.kind = "searchFinished"   -> OnSearchFinished(event)
         [] event.kind = "previewFinished"  -> OnPreviewFinished(event)
         [] event.kind = "progress"         -> OnProgress(event)
         [] event.kind = "indexingFinished" -> OnIndexingFinished(event)
  /\ UNCHANGED controller

(* The destructor: cancel() and the stop of the preview, then the search   *)
(* is waited for, and only then is the indexing stopped and waited for,    *)
(* and the preview that is still watched.  Superseded previews are not     *)
(* waited for; they do not refer to the controller.                        *)
WaitedFor(task, id) == id # None => task[id].state \in {"none", "done"}

Destroy ==
  /\ Alive /\ controller' = "closing"
  /\ CancelSearch /\ StopPreview
  /\ UNCHANGED <<running, rows, matchesFound, latestSearchId, activeWatcher,
                 previewVars, indexVars, search, indexTask, events>>

StopIndexing ==
  /\ controller = "closing" /\ controller' = "search over"
  /\ WaitedFor(search, activeWatcher)
  /\ indexingStop' = indexingStop \cup {indexRuns}
  /\ UNCHANGED <<searchVars, previewVars, indexingRunning, indexingStatus,
                 indexRuns, taskVars, events>>

Destroyed ==
  /\ controller = "search over" /\ controller' = "gone"
  /\ indexingRunning => WaitedFor(indexTask, indexRuns)
  /\ WaitedFor(previewTask, activePreviewWatcher)
  /\ UNCHANGED <<searchVars, previewVars, indexVars, taskVars, events>>

SessionNext ==
  \/ startSearch \/ cancel
  \/ (\E file \in Files : loadPreview(file)) \/ ClearPreview
  \/ startIndexing \/ startIndexingNowhere \/ cancelIndexing
  \/ DeliverEvent
  \/ \E s \in SearchIds : SearchSends(s) \/ SearchEnds(s)
  \/ \E p \in PreviewIds : PreviewTaskEnds(p)
  \/ \E r \in IndexIds : IndexTaskReports(r) \/ IndexTaskEnds(r)
  \/ Destroy \/ StopIndexing \/ Destroyed

SessionSpec == SessionInit /\ [][SessionNext]_sessionVars

(* The event loop keeps running; a search that was told to stop ends, and  *)
(* so does a preview and an indexing run, but of others nothing is said;   *)
(* the destructor goes on.                                                 *)
SessionFairness ==
  /\ WF_sessionVars(DeliverEvent)
  /\ WF_sessionVars(StopIndexing) /\ WF_sessionVars(Destroyed)
  /\ \A s \in SearchIds : WF_sessionVars(s \in searchStop /\ SearchEnds(s))
  /\ \A p \in PreviewIds : WF_sessionVars(previewTask[p].stop /\ PreviewTaskEnds(p))
  /\ \A r \in IndexIds : WF_sessionVars(r \in indexingStop /\ IndexTaskEnds(r))

SessionFairSpec == SessionSpec /\ SessionFairness

-----------------------------------------------------------------------------
(* The list shows the results of one search only, the latest, in order and *)
(* without a gap; once the search is over, all of them, and their number   *)
(* is the count that is shown, unless the search threw.                    *)
RowsAreTheLatestSearch ==
  /\ \A i \in DOMAIN rows : rows[i] = <<latestSearchId, i>>
  /\ ~running /\ latestSearchId # 0 =>
       /\ Len(rows) = search[latestSearchId].sent
       /\ matchesFound = Len(rows) \/ (matchesFound = 0 /\ status = "partial")

(* The preview shows the file that was asked for last, or nothing; when    *)
(* loading is over it is what that very request found, never an older one. *)
PreviewIsTheLastRequest ==
  /\ preview.file = IF previewWanted = None THEN NoFile
                    ELSE previewTask[previewWanted].file
  /\ previewLoading <=> activePreviewWatcher # None
  /\ previewWanted # None /\ ~previewLoading =>
       /\ previewTask[previewWanted].state = "done"
       /\ preview.text \in {"text", "unreadable"}

(* When no indexing runs, the status is a final one: no progress report    *)
(* arrives after the end.                                                  *)
IndexingStatusIsFinal ==
  ~indexingRunning => indexingStatus \in Finals \cup {"inactive", "no scope"}

(* A cancelled search ends and a new one can be started; the destructor    *)
(* returns, and every task that refers to the controller is then over.     *)
CancellationEnds ==
  /\ cancelling ~> (~running \/ controller # "alive")
  /\ controller = "closing" ~>
       /\ controller = "gone"
       /\ \A s \in SearchIds : search[s].state # "running"
       /\ \A r \in IndexIds : indexTask[r].state \notin {"preparing", "running"}
=============================================================================
