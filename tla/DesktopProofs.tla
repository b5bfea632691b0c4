--------------------------- MODULE DesktopProofs ---------------------------
(***************************************************************************)
(* What the main window shows is true for any number of searches, previews *)
(* and indexing runs, and any number of results and progress reports.      *)
(*                                                                         *)
(* Each of the three parts of the session has an invariant of its own.     *)
(* They have one idea in common: they say what may still stand in the      *)
(* event queue, and in which order, as it is the queue that carries an     *)
(* answer past the moment at which its request is replaced or ends.        *)
(*                                                                         *)
(* The scope is restored by a start of the program because every operation *)
(* ends in a save, and a selection is never more than one folder.          *)
(*                                                                         *)
(* The events of a search tell what it did, whatever the sizes of its      *)
(* batches, because what was handed out is always what was shown and what  *)
(* waits, and the first part of what is found.                             *)
(***************************************************************************)
EXTENDS DesktopSession, ScopeHistory, SearchService, TLAPS, FiniteSetTheorems

SearchTasks  == [state : {"none", "running", "done"}, sent : Nat]
PreviewTasks == [state : {"none", "running", "done"}, file : Files \cup {NoFile},
                 stop : BOOLEAN]
IndexTasks   == [state : {"none", "preparing", "running", "done"}, reported : Nat]

RowEvents              == [kind : {"row"}, id : SearchIds, number : Nat]
SearchFinishedEvents   == [kind : {"searchFinished"}, id : SearchIds,
                           ending : Endings, matches : Nat]
PreviewFinishedEvents  ==
  [kind : {"previewFinished"}, id : PreviewIds,
   result : [file : Files \cup {NoFile}, text : {"cancelled", "text", "unreadable"}]]
ProgressEvents         == [kind : {"progress"}, id : IndexIds]
IndexingFinishedEvents == [kind : {"indexingFinished"}, id : IndexIds, final : Finals]

Event == RowEvents \cup SearchFinishedEvents \cup PreviewFinishedEvents
           \cup ProgressEvents \cup IndexingFinishedEvents

SessionTypeOK ==
  /\ running \in BOOLEAN /\ cancelling \in BOOLEAN
  /\ rows \in Seq(SearchIds \X Nat) /\ matchesFound \in Nat
  /\ latestSearchId \in 0..MaxSearches
  /\ search \in [SearchIds -> SearchTasks]
  /\ previewLoading \in BOOLEAN
  /\ previews \in 0..MaxPreviews
  /\ previewTask \in [PreviewIds -> PreviewTasks]
  /\ indexingRunning \in BOOLEAN
  /\ indexRuns \in 0..MaxIndexRuns
  /\ indexTask \in [IndexIds -> IndexTasks]
  /\ events \in Seq(Event)
  /\ controller \in {"alive", "closing", "search over", "gone"}

-----------------------------------------------------------------------------
(* The event queue. *)
LEMMA EmptyQueue == \A S : <<>> \in Seq(S)
OBVIOUS

LEMMA PostedEvent ==
  ASSUME NEW S, NEW queue \in Seq(S), NEW event \in S
  PROVE  /\ Append(queue, event) \in Seq(S)
         /\ Len(queue) \in Nat /\ Len(Append(queue, event)) = Len(queue) + 1
         /\ \A k \in 1..Len(queue) : Append(queue, event)[k] = queue[k]
         /\ Append(queue, event)[Len(queue) + 1] = event
OBVIOUS

LEMMA DeliveredEvent ==
  ASSUME NEW S, NEW queue \in Seq(S), queue # <<>>
  PROVE  /\ Len(queue) \in Nat \ {0} /\ Head(queue) \in S /\ Head(queue) = queue[1]
         /\ Tail(queue) \in Seq(S) /\ Len(Tail(queue)) = Len(queue) - 1
         /\ \A k \in 1..(Len(queue) - 1) : Tail(queue)[k] = queue[k + 1]
<1>1. Len(queue) \in Nat \ {0} /\ \A k \in 1..Len(queue) : queue[k] \in S
  OBVIOUS
<1>2. /\ Head(queue) = queue[1] /\ Tail(queue) \in Seq(S)
      /\ Len(Tail(queue)) = Len(queue) - 1
  OBVIOUS
<1>3. \A k \in 1..(Len(queue) - 1) : Tail(queue)[k] = queue[k + 1]
  OBVIOUS
<1> QED
  BY <1>1, <1>2, <1>3

LEMMA ShownRows == SessionTypeOK => rows \in Seq(SearchIds \X Nat) /\ Len(rows) \in Nat
<1> SUFFICES ASSUME SessionTypeOK PROVE rows \in Seq(SearchIds \X Nat) /\ Len(rows) \in Nat
  OBVIOUS
<1>1. rows \in Seq(SearchIds \X Nat)
  BY DEF SessionTypeOK
<1> QED
  BY <1>1

LEMMA QueueAfterPost ==
  ASSUME SessionTypeOK, NEW event \in Event, Post(event)
  PROVE  /\ events' \in Seq(Event)
         /\ Len(events) \in Nat /\ Len(events') = Len(events) + 1
         /\ \A k \in 1..Len(events) : events'[k] = events[k]
         /\ events'[Len(events) + 1] = event
         /\ \A k \in 1..Len(events) : k \in 1..Len(events')
         /\ Len(events) + 1 \in 1..Len(events')
         /\ \A k \in 1..Len(events') : k \in 1..Len(events) \/ k = Len(events) + 1
<1>1. events \in Seq(Event) /\ events' = Append(events, event)
  BY DEF SessionTypeOK, Post
<1>2. /\ events' \in Seq(Event)
      /\ Len(events) \in Nat /\ Len(events') = Len(events) + 1
      /\ \A k \in 1..Len(events) : events'[k] = events[k]
      /\ events'[Len(events) + 1] = event
  BY <1>1, PostedEvent
<1> QED
  BY <1>2

LEMMA QueueAfterDelivery ==
  ASSUME SessionTypeOK, events # <<>>, events' = Tail(events)
  PROVE  /\ Len(events) \in Nat \ {0} /\ Len(events') = Len(events) - 1
         /\ Head(events) \in Event /\ Head(events) = events[1] /\ 1 \in 1..Len(events)
         /\ \A k \in 1..Len(events') : events'[k] = events[k + 1] /\ k + 1 \in 2..Len(events)
         /\ \A k \in 2..Len(events) :
              k - 1 \in 1..Len(events') /\ events'[k - 1] = events[k]
         /\ \A k \in 1..Len(events) : k = 1 \/ k \in 2..Len(events)
         /\ \A k \in 2..Len(events) : k \in 1..Len(events) /\ 1 < k
<1>1. events \in Seq(Event)
  BY DEF SessionTypeOK
<1>2. /\ Len(events) \in Nat \ {0} /\ Len(events') = Len(events) - 1
      /\ Head(events) \in Event /\ Head(events) = events[1]
      /\ \A k \in 1..(Len(events) - 1) : events'[k] = events[k + 1]
  BY <1>1, DeliveredEvent
<1>3. \A k \in 2..Len(events) :
        k - 1 \in 1..Len(events') /\ events'[k - 1] = events[k]
  <2> TAKE k \in 2..Len(events)
  <2>1. k - 1 \in 1..(Len(events) - 1) /\ (k - 1) + 1 = k
    BY <1>2
  <2> QED
    BY <1>2, <2>1
<1> QED
  BY <1>2, <1>3

LEMMA OrderAfterDelivery ==
  ASSUME SessionTypeOK, events # <<>>, events' = Tail(events)
  PROVE  \A j, k \in 1..Len(events') : j > k => j + 1 > k + 1
<1>1. Len(events') \in Nat
  BY QueueAfterDelivery
<1> QED
  BY <1>1

LEMMA EventByKind ==
  ASSUME NEW event \in Event
  PROVE  /\ event.kind = "row" => event \in RowEvents
         /\ event.kind = "searchFinished" => event \in SearchFinishedEvents
         /\ event.kind = "previewFinished" => event \in PreviewFinishedEvents
         /\ event.kind = "progress" => event \in ProgressEvents
         /\ event.kind = "indexingFinished" => event \in IndexingFinishedEvents
         /\ event.kind \in {"row", "searchFinished", "previewFinished", "progress",
                            "indexingFinished"}
BY DEF Event, RowEvents, SearchFinishedEvents, PreviewFinishedEvents, ProgressEvents,
       IndexingFinishedEvents

IndexEvent(event) == event.kind \in {"progress", "indexingFinished"}

(* A step of an indexing run posts an event of indexing. *)
LEMMA IndexTaskPosts ==
  ASSUME NEW r \in IndexIds, IndexTaskReports(r) \/ IndexTaskEnds(r)
  PROVE  \E event \in Event : Post(event) /\ IndexEvent(event)
<1> DEFINE progress == [kind |-> "progress", id |-> r]
           over(final) == [kind |-> "indexingFinished", id |-> r, final |-> final]
<1>1. progress \in Event /\ IndexEvent(progress)
  BY DEF Event, ProgressEvents, IndexEvent
<1>2. \A final \in Finals : over(final) \in Event /\ IndexEvent(over(final))
  BY DEF Event, IndexingFinishedEvents, IndexEvent
<1>3. Post(progress) \/ \E final \in Finals : Post(over(final))
  BY DEF IndexTaskReports, IndexTaskEnds
<1> HIDE DEF progress, over
<1> QED
  BY <1>1, <1>2, <1>3

(* And so do the others. *)
SearchEvent(event) == event.kind \in {"row", "searchFinished"}

LEMMA SearchPosts ==
  ASSUME SessionTypeOK, NEW s \in SearchIds, SearchSends(s) \/ SearchEnds(s)
  PROVE  \E event \in Event : Post(event) /\ SearchEvent(event)
<1>1. search[s].sent \in Nat
  BY DEF SessionTypeOK, SearchTasks
<1> DEFINE row == [kind |-> "row", id |-> s, number |-> search[s].sent + 1]
           over(ending, matches) == [kind |-> "searchFinished", id |-> s,
                                     ending |-> ending, matches |-> matches]
<1>2. row \in Event /\ SearchEvent(row)
  BY <1>1 DEF Event, RowEvents, SearchEvent
<1>3. \A ending \in Endings, matches \in Nat :
        over(ending, matches) \in Event /\ SearchEvent(over(ending, matches))
  BY DEF Event, SearchFinishedEvents, SearchEvent
<1>4. Post(row) \/ \E ending \in Endings, matches \in Nat : Post(over(ending, matches))
  BY <1>1 DEF SearchSends, SearchEnds, Endings
<1> HIDE DEF row, over
<1> QED
  BY <1>2, <1>3, <1>4

LEMMA PreviewTaskPosts ==
  ASSUME SessionTypeOK, NEW p \in PreviewIds, PreviewTaskEnds(p)
  PROVE  \E event \in Event : Post(event) /\ event.kind = "previewFinished"
<1>1. PICK text \in {"cancelled", "text", "unreadable"} :
        Post([kind |-> "previewFinished", id |-> p,
              result |-> [file |-> previewTask[p].file, text |-> text]])
  BY DEF PreviewTaskEnds
<1>2. previewTask[p].file \in Files \cup {NoFile}
  BY DEF SessionTypeOK, PreviewTasks
<1>3. [kind |-> "previewFinished", id |-> p,
       result |-> [file |-> previewTask[p].file, text |-> text]] \in Event
  BY <1>2 DEF Event, PreviewFinishedEvents
<1> QED
  BY <1>1, <1>3

(* What the event loop does with the first event. *)
LEMMA EventDelivered ==
  ASSUME SessionTypeOK, DeliverEvent
  PROVE  LET event == Head(events) IN
           /\ Alive /\ UNCHANGED controller
           /\ events # <<>> /\ events' = Tail(events) /\ event \in Event
           /\ \/ event.kind = "row" /\ event \in RowEvents /\ OnRow(event)
              \/ /\ event.kind = "searchFinished" /\ event \in SearchFinishedEvents
                 /\ OnSearchFinished(event)
              \/ /\ event.kind = "previewFinished" /\ event \in PreviewFinishedEvents
                 /\ OnPreviewFinished(event)
              \/ /\ event.kind = "progress" /\ event \in ProgressEvents
                 /\ OnProgress(event)
              \/ /\ event.kind = "indexingFinished"
                 /\ event \in IndexingFinishedEvents /\ OnIndexingFinished(event)
<1> DEFINE event == Head(events)
<1>1. /\ Alive /\ UNCHANGED controller /\ events # <<>> /\ events' = Tail(events)
  BY DEF DeliverEvent
<1>2. event \in Event
  BY <1>1, DeliveredEvent DEF SessionTypeOK
<1>3. /\ event.kind = "row" => OnRow(event)
      /\ event.kind = "searchFinished" => OnSearchFinished(event)
      /\ event.kind = "previewFinished" => OnPreviewFinished(event)
      /\ event.kind = "progress" => OnProgress(event)
      /\ event.kind = "indexingFinished" => OnIndexingFinished(event)
  BY DEF DeliverEvent
<1> HIDE DEF event
<1>4. /\ event.kind = "row" => event \in RowEvents
      /\ event.kind = "searchFinished" => event \in SearchFinishedEvents
      /\ event.kind = "previewFinished" => event \in PreviewFinishedEvents
      /\ event.kind = "progress" => event \in ProgressEvents
      /\ event.kind = "indexingFinished" => event \in IndexingFinishedEvents
      /\ event.kind \in {"row", "searchFinished", "previewFinished", "progress",
                         "indexingFinished"}
  BY <1>2, EventByKind
<1> QED
  BY <1>1, <1>2, <1>3, <1>4 DEF event

-----------------------------------------------------------------------------
(* Types. *)
LEMMA Bounds ==
  /\ MaxSearches \in Nat /\ MaxPreviews \in Nat /\ MaxIndexRuns \in Nat
  /\ NoFile \notin Files
BY SessionAssumption

LEMMA TypeInit == SessionInit => SessionTypeOK
<1> SUFFICES ASSUME SessionInit PROVE SessionTypeOK
  OBVIOUS
<1>1. /\ latestSearchId \in 0..MaxSearches /\ previews \in 0..MaxPreviews
      /\ indexRuns \in 0..MaxIndexRuns
  BY Bounds DEF SessionInit
<1>2. /\ search \in [SearchIds -> SearchTasks]
      /\ previewTask \in [PreviewIds -> PreviewTasks]
      /\ indexTask \in [IndexIds -> IndexTasks]
  BY DEF SessionInit, SearchTasks, PreviewTasks, IndexTasks
<1> QED
  BY <1>1, <1>2, EmptyQueue DEF SessionInit, SessionTypeOK

LEMMA PostType ==
  ASSUME SessionTypeOK, NEW event \in Event, Post(event)
  PROVE  events' \in Seq(Event)
BY PostedEvent DEF Post, SessionTypeOK

LEMMA StopPreviewType ==
  ASSUME SessionTypeOK, StopPreview
  PROVE  /\ previewTask' \in [PreviewIds -> PreviewTasks]
         /\ \A p \in PreviewIds :
              /\ previewTask'[p].state = previewTask[p].state
              /\ previewTask'[p].file = previewTask[p].file
              /\ previewTask[p].stop => previewTask'[p].stop
         /\ previews # 0 => previewTask'[previews].stop
<1>1. previews # 0 => previews \in PreviewIds
  <2>1. previews \in 0..MaxPreviews
    BY DEF SessionTypeOK
  <2> QED
    BY <2>1, Bounds DEF PreviewIds
<1>2. previewTask \in [PreviewIds -> PreviewTasks]
  BY DEF SessionTypeOK
<1>3. \A p \in PreviewIds : [previewTask[p] EXCEPT !.stop = TRUE] \in PreviewTasks
  BY <1>2 DEF PreviewTasks
<1>4. CASE previews = 0
  BY <1>2, <1>4 DEF StopPreview
<1>5. CASE previews # 0
  BY <1>1, <1>2, <1>3, <1>5 DEF StopPreview, PreviewTasks
<1> QED
  BY <1>4, <1>5

LEMMA StartedSearch ==
  ASSUME SessionTypeOK, startSearch
  PROVE  /\ latestSearchId + 1 \in SearchIds /\ latestSearchId' \in 0..MaxSearches
         /\ latestSearchId \in Nat
<1>1. latestSearchId \in 0..MaxSearches
  BY DEF SessionTypeOK
<1>2. latestSearchId < MaxSearches /\ latestSearchId' = latestSearchId + 1
  BY DEF startSearch
<1> QED
  BY <1>1, <1>2, Bounds DEF SearchIds

LEMMA SearchChanges ==
  ASSUME SessionTypeOK, NEW s \in SearchIds
  PROVE  /\ [search EXCEPT ![s].sent = @ + 1] \in [SearchIds -> SearchTasks]
         /\ \A state \in {"running", "done"} :
              [search EXCEPT ![s].state = state] \in [SearchIds -> SearchTasks]
<1>1. search \in [SearchIds -> SearchTasks]
  BY DEF SessionTypeOK
<1>2. /\ [search[s] EXCEPT !.sent = @ + 1] \in SearchTasks
      /\ \A state \in {"running", "done"} :
           [search[s] EXCEPT !.state = state] \in SearchTasks
  BY <1>1 DEF SearchTasks
<1> QED
  BY <1>1, <1>2

LEMMA SearchActionsType ==
  ASSUME SessionTypeOK,
         \/ startSearch \/ cancel
         \/ \E s \in SearchIds : SearchSends(s) \/ SearchEnds(s)
  PROVE  SessionTypeOK'
<1>1. CASE startSearch
  <2>1. latestSearchId + 1 \in SearchIds /\ latestSearchId' \in 0..MaxSearches
    BY <1>1, StartedSearch
  <2>2. search' \in [SearchIds -> SearchTasks]
    BY <1>1, <2>1, SearchChanges DEF startSearch
  <2>3. previewTask' \in [PreviewIds -> PreviewTasks] /\ UNCHANGED previews
    BY <1>1, StopPreviewType DEF startSearch, clearPreview
  <2>4. rows' \in Seq(SearchIds \X Nat) /\ matchesFound' \in Nat
    BY <1>1, EmptyQueue DEF startSearch, ClearResults
  <2> QED
    BY <1>1, <2>1, <2>2, <2>3, <2>4
    DEF startSearch, clearPreview, SessionTypeOK, indexVars
<1>2. CASE cancel
  BY <1>2 DEF cancel, CancelSearch, SessionTypeOK, previewVars, indexVars, taskVars
<1>3. ASSUME NEW s \in SearchIds, SearchSends(s) PROVE SessionTypeOK'
  <2>1. search[s].sent \in Nat
    BY DEF SessionTypeOK, SearchTasks
  <2>2. [kind |-> "row", id |-> s, number |-> search[s].sent + 1] \in Event
    BY <2>1 DEF Event, RowEvents
  <2>3. events' \in Seq(Event)
    BY <1>3, <2>2, PostType DEF SearchSends
  <2>4. search' \in [SearchIds -> SearchTasks]
    BY <1>3, SearchChanges DEF SearchSends
  <2> QED
    BY <1>3, <2>3, <2>4
    DEF SearchSends, SessionTypeOK, searchVars, previewVars, indexVars
<1>4. ASSUME NEW s \in SearchIds, SearchEnds(s) PROVE SessionTypeOK'
  <2>1. search[s].sent \in Nat
    BY DEF SessionTypeOK, SearchTasks
  <2>2. ASSUME NEW ending \in Endings, NEW matches \in Nat
        PROVE  [kind |-> "searchFinished", id |-> s, ending |-> ending,
                matches |-> matches] \in Event
    BY DEF Event, SearchFinishedEvents
  <2>3. events' \in Seq(Event)
    <3>1. "partial" \in Endings /\ 0 \in Nat
      BY DEF Endings
    <3> QED
      BY <1>4, <2>1, <2>2, <3>1, PostType DEF SearchEnds
  <2>4. search' \in [SearchIds -> SearchTasks]
    BY <1>4, SearchChanges DEF SearchEnds
  <2> QED
    BY <1>4, <2>3, <2>4
    DEF SearchEnds, SessionTypeOK, searchVars, previewVars, indexVars
<1> QED
  BY <1>1, <1>2, <1>3, <1>4

LEMMA PreviewActionsType ==
  ASSUME SessionTypeOK,
         \/ (\E file \in Files : loadPreview(file)) \/ ClearPreview
         \/ \E p \in PreviewIds : PreviewTaskEnds(p)
  PROVE  SessionTypeOK'
<1>1. ASSUME NEW file \in Files, loadPreview(file) PROVE SessionTypeOK'
  <2>1. previews' \in 0..MaxPreviews
    <3>1. previews < MaxPreviews /\ previews' = previews + 1
      BY <1>1 DEF loadPreview
    <3>2. previews \in 0..MaxPreviews
      BY DEF SessionTypeOK
    <3> QED
      BY <3>1, <3>2, Bounds
  <2>2. previewTask' \in [PreviewIds -> PreviewTasks]
    <3>1. ASSUME NEW q \in PreviewIds
          PROVE  /\ [state |-> "running", file |-> file, stop |-> FALSE] \in PreviewTasks
                 /\ [previewTask[q] EXCEPT !.stop = TRUE] \in PreviewTasks
                 /\ previewTask[q] \in PreviewTasks
      BY DEF SessionTypeOK, PreviewTasks
    <3> QED
      BY <1>1, <3>1 DEF loadPreview
  <2> QED
    BY <1>1, <2>1, <2>2 DEF loadPreview, SessionTypeOK, searchVars, indexVars
<1>2. CASE ClearPreview
  BY <1>2, StopPreviewType
  DEF ClearPreview, clearPreview, SessionTypeOK, searchVars, indexVars
<1>3. ASSUME NEW p \in PreviewIds, PreviewTaskEnds(p) PROVE SessionTypeOK'
  <2>1. previewTask[p] \in PreviewTasks
    BY DEF SessionTypeOK
  <2>2. ASSUME NEW text \in {"cancelled", "text", "unreadable"}
        PROVE  [kind |-> "previewFinished", id |-> p,
                result |-> [file |-> previewTask[p].file, text |-> text]] \in Event
    BY <2>1 DEF Event, PreviewFinishedEvents, PreviewTasks
  <2>3. events' \in Seq(Event)
    BY <1>3, <2>2, PostType DEF PreviewTaskEnds
  <2>4. previewTask' \in [PreviewIds -> PreviewTasks]
    BY <1>3, <2>1 DEF PreviewTaskEnds, SessionTypeOK, PreviewTasks
  <2> QED
    BY <1>3, <2>3, <2>4
    DEF PreviewTaskEnds, SessionTypeOK, searchVars, previewVars, indexVars
<1> QED
  BY <1>1, <1>2, <1>3

LEMMA IndexChanges ==
  ASSUME SessionTypeOK, NEW r \in IndexIds
  PROVE  /\ [indexTask EXCEPT ![r].reported = @ + 1] \in [IndexIds -> IndexTasks]
         /\ \A state \in {"preparing", "running", "done"} :
              [indexTask EXCEPT ![r].state = state] \in [IndexIds -> IndexTasks]
<1>1. indexTask \in [IndexIds -> IndexTasks]
  BY DEF SessionTypeOK
<1>2. /\ [indexTask[r] EXCEPT !.reported = @ + 1] \in IndexTasks
      /\ \A state \in {"preparing", "running", "done"} :
           [indexTask[r] EXCEPT !.state = state] \in IndexTasks
  BY <1>1 DEF IndexTasks
<1> QED
  BY <1>1, <1>2

LEMMA IndexActionsType ==
  ASSUME SessionTypeOK,
         \/ startIndexing \/ startIndexingNowhere \/ cancelIndexing
         \/ \E r \in IndexIds : IndexTaskReports(r) \/ IndexTaskEnds(r)
  PROVE  SessionTypeOK'
<1>1. CASE startIndexing
  <2>1. indexRuns' \in 0..MaxIndexRuns /\ indexRuns + 1 \in IndexIds
    <3>1. indexRuns < MaxIndexRuns /\ indexRuns' = indexRuns + 1
      BY <1>1 DEF startIndexing
    <3>2. indexRuns \in 0..MaxIndexRuns
      BY DEF SessionTypeOK
    <3> QED
      BY <3>1, <3>2, Bounds DEF IndexIds
  <2>2. indexTask' \in [IndexIds -> IndexTasks]
    BY <1>1, <2>1, IndexChanges DEF startIndexing
  <2> QED
    BY <1>1, <2>1, <2>2 DEF startIndexing, SessionTypeOK, searchVars, previewVars
<1>2. CASE startIndexingNowhere \/ cancelIndexing
  BY <1>2 DEF startIndexingNowhere, cancelIndexing, SessionTypeOK, searchVars,
              previewVars, taskVars
<1>3. ASSUME NEW r \in IndexIds, IndexTaskReports(r) PROVE SessionTypeOK'
  <2>1. [kind |-> "progress", id |-> r] \in Event
    BY DEF Event, ProgressEvents
  <2>2. events' \in Seq(Event)
    BY <1>3, <2>1, PostType DEF IndexTaskReports
  <2>3. indexTask' \in [IndexIds -> IndexTasks]
    BY <1>3, IndexChanges DEF IndexTaskReports
  <2> QED
    BY <1>3, <2>2, <2>3
    DEF IndexTaskReports, SessionTypeOK, searchVars, previewVars, indexVars
<1>4. ASSUME NEW r \in IndexIds, IndexTaskEnds(r) PROVE SessionTypeOK'
  <2>1. ASSUME NEW final \in Finals
        PROVE  [kind |-> "indexingFinished", id |-> r, final |-> final] \in Event
    BY DEF Event, IndexingFinishedEvents
  <2>2. events' \in Seq(Event)
    BY <1>4, <2>1, PostType DEF IndexTaskEnds
  <2>3. indexTask' \in [IndexIds -> IndexTasks]
    BY <1>4, IndexChanges DEF IndexTaskEnds
  <2> QED
    BY <1>4, <2>2, <2>3
    DEF IndexTaskEnds, SessionTypeOK, searchVars, previewVars, indexVars
<1> QED
  BY <1>1, <1>2, <1>3, <1>4

LEMMA DeliverEventType == ASSUME SessionTypeOK, DeliverEvent PROVE SessionTypeOK'
<1> DEFINE event == Head(events)
<1>1. /\ events' \in Seq(Event) /\ UNCHANGED controller
      /\ \/ event \in RowEvents /\ OnRow(event)
         \/ event \in SearchFinishedEvents /\ OnSearchFinished(event)
         \/ event \in PreviewFinishedEvents /\ OnPreviewFinished(event)
         \/ event \in ProgressEvents /\ OnProgress(event)
         \/ event \in IndexingFinishedEvents /\ OnIndexingFinished(event)
  BY EventDelivered, DeliveredEvent DEF SessionTypeOK
<1> HIDE DEF event
<1>2. CASE event \in RowEvents /\ OnRow(event)
  <2>1. <<event.id, event.number>> \in SearchIds \X Nat
    BY <1>2 DEF RowEvents
  <2>2. rows' \in Seq(SearchIds \X Nat)
    BY <1>2, <2>1, PostedEvent DEF OnRow, SessionTypeOK
  <2> QED
    BY <1>1, <1>2, <2>2 DEF OnRow, SessionTypeOK, previewVars, indexVars, taskVars
<1>3. CASE event \in SearchFinishedEvents /\ OnSearchFinished(event)
  BY <1>1, <1>3 DEF OnSearchFinished, SearchFinishedEvents, SessionTypeOK, previewVars,
                    indexVars, taskVars
<1>4. CASE event \in PreviewFinishedEvents /\ OnPreviewFinished(event)
  BY <1>1, <1>4 DEF OnPreviewFinished, PreviewFinishedEvents, SessionTypeOK, searchVars,
                    indexVars, taskVars
<1>5. CASE OnProgress(event) \/ OnIndexingFinished(event)
  BY <1>1, <1>5 DEF OnProgress, OnIndexingFinished, SessionTypeOK, searchVars,
                    previewVars, taskVars
<1> QED
  BY <1>1, <1>2, <1>3, <1>4, <1>5

LEMMA DestructorType ==
  ASSUME SessionTypeOK, Destroy \/ StopIndexing \/ Destroyed
  PROVE  SessionTypeOK'
<1>1. CASE Destroy
  <2>1. previewTask' \in [PreviewIds -> PreviewTasks]
    BY <1>1, StopPreviewType DEF Destroy
  <2> QED
    BY <1>1, <2>1
    DEF Destroy, CancelSearch, SessionTypeOK, previewVars, indexVars
<1>2. CASE StopIndexing \/ Destroyed
  BY <1>2 DEF StopIndexing, Destroyed, SessionTypeOK, searchVars, previewVars, indexVars,
              taskVars
<1> QED
  BY <1>1, <1>2

LEMMA TypeNext == SessionTypeOK /\ [SessionNext]_sessionVars => SessionTypeOK'
<1> SUFFICES ASSUME SessionTypeOK, [SessionNext]_sessionVars PROVE SessionTypeOK'
  OBVIOUS
<1>1. CASE UNCHANGED sessionVars
  BY <1>1 DEF SessionTypeOK, sessionVars, searchVars, previewVars, indexVars, taskVars
<1> QED
  BY <1>1, SearchActionsType, PreviewActionsType, IndexActionsType, DeliverEventType,
     DestructorType DEF SessionNext

-----------------------------------------------------------------------------
(* Searches.  The results that the list does not show yet stand in the     *)
(* queue, each once and in order, and the signal that the search is over   *)
(* stands behind them.  A search is only over for the controller when that *)
(* signal is delivered, and only then can the next one begin: no event of  *)
(* an earlier search is ever in the queue.                                 *)
CountIsShown ==
  matchesFound = Len(rows) \/ (matchesFound = 0 /\ status = "partial")

RowsOnTheirWay ==
  LET sent == search[latestSearchId].sent IN
    /\ Len(rows) <= sent
    /\ \A k \in 1..Len(events) :
         events[k].kind = "row" => events[k].number \in (Len(rows) + 1)..sent
    /\ \A n \in (Len(rows) + 1)..sent :
         \E k \in 1..Len(events) : events[k].kind = "row" /\ events[k].number = n
    /\ \A j, k \in 1..Len(events) :
         j < k /\ events[j].kind = "row" /\ events[k].kind = "row"
           => events[j].number < events[k].number

EndOnItsWay ==
  \A k \in 1..Len(events) :
    events[k].kind = "searchFinished" =>
      /\ search[latestSearchId].state = "done"
      /\ \/ events[k].matches = search[latestSearchId].sent
         \/ events[k].matches = 0 /\ events[k].ending = "partial"
      /\ \A j \in 1..Len(events) : j > k => ~SearchEvent(events[j])

OneSearchAtATime ==
  /\ running => activeWatcher = latestSearchId /\ latestSearchId # 0
  /\ \A s \in SearchIds : s > latestSearchId => search[s] = [state |-> "none", sent |-> 0]
  /\ \A s \in SearchIds : search[s].state = "running" => running /\ s = latestSearchId
  /\ \A k \in 1..Len(events) :
       SearchEvent(events[k]) => running /\ events[k].id = latestSearchId

SearchInv ==
  /\ OneSearchAtATime
  /\ \A i \in 1..Len(rows) : rows[i] = <<latestSearchId, i>>
  /\ running => RowsOnTheirWay /\ EndOnItsWay
  /\ ~running /\ latestSearchId # 0 =>
       /\ Len(rows) = search[latestSearchId].sent
       /\ search[latestSearchId].state = "done"
       /\ CountIsShown

(* Steps that leave the search alone and the queue as it is, but for       *)
(* another's event at the end.                                             *)
shownVars == <<running, rows, matchesFound, latestSearchId, activeWatcher, search>>

LEMMA SearchUntouched ==
  ASSUME SearchInv, UNCHANGED <<shownVars, events>>, running \/ UNCHANGED status
  PROVE  SearchInv'
<1>1. /\ running' = running /\ rows' = rows /\ matchesFound' = matchesFound
      /\ latestSearchId' = latestSearchId /\ activeWatcher' = activeWatcher
      /\ search' = search /\ events' = events
  BY DEF shownVars
<1>2. OneSearchAtATime'
  BY <1>1 DEF SearchInv, OneSearchAtATime, SearchEvent
<1>3. RowsOnTheirWay => RowsOnTheirWay'
  BY <1>1 DEF RowsOnTheirWay
<1>4. EndOnItsWay => EndOnItsWay'
  BY <1>1 DEF EndOnItsWay, SearchEvent
<1>5. ~running => (CountIsShown => CountIsShown')
  BY <1>1 DEF CountIsShown
<1> QED
  BY <1>1, <1>2, <1>3, <1>4, <1>5 DEF SearchInv

LEMMA SearchUntouchedByPost ==
  ASSUME SessionTypeOK, SearchInv, UNCHANGED <<shownVars, status>>,
         NEW event \in Event, Post(event), ~SearchEvent(event)
  PROVE  SearchInv'
<1>1. /\ running' = running /\ rows' = rows /\ matchesFound' = matchesFound
      /\ latestSearchId' = latestSearchId /\ activeWatcher' = activeWatcher
      /\ search' = search /\ status' = status
  BY DEF shownVars
<1>2. /\ Len(events) \in Nat /\ Len(events') = Len(events) + 1
      /\ \A k \in 1..Len(events) : events'[k] = events[k]
      /\ events'[Len(events) + 1] = event
  BY QueueAfterPost
<1>3. /\ \A k \in 1..Len(events') : SearchEvent(events'[k]) => k \in 1..Len(events)
      /\ \A k \in 1..Len(events) : k \in 1..Len(events')
  BY <1>2
<1>4. OneSearchAtATime'
  BY <1>1, <1>2, <1>3 DEF SearchInv, OneSearchAtATime, SearchEvent
<1>5. RowsOnTheirWay => RowsOnTheirWay'
  BY <1>1, <1>2, <1>3 DEF RowsOnTheirWay, SearchEvent
<1>6. EndOnItsWay => EndOnItsWay'
  BY <1>1, <1>2, <1>3 DEF EndOnItsWay, SearchEvent
<1>7. CountIsShown => CountIsShown'
  BY <1>1 DEF CountIsShown
<1> QED
  BY <1>1, <1>4, <1>5, <1>6, <1>7 DEF SearchInv

LEMMA SearchUntouchedByDelivery ==
  ASSUME SessionTypeOK, SearchInv, UNCHANGED <<shownVars, status>>,
         events # <<>>, events' = Tail(events), ~SearchEvent(Head(events))
  PROVE  SearchInv'
<1>1. /\ running' = running /\ rows' = rows /\ matchesFound' = matchesFound
      /\ latestSearchId' = latestSearchId /\ activeWatcher' = activeWatcher
      /\ search' = search /\ status' = status
  BY DEF shownVars
<1>2. /\ Len(events) \in Nat \ {0} /\ Len(events') = Len(events) - 1
      /\ \A k \in 1..Len(events') : events'[k] = events[k + 1] /\ k + 1 \in 1..Len(events)
      /\ \A k \in 1..Len(events) :
           SearchEvent(events[k]) => k - 1 \in 1..Len(events') /\ events'[k - 1] = events[k]
  <2>1. /\ Len(events) \in Nat \ {0} /\ Head(events) = events[1]
        /\ Len(events') = Len(events) - 1
        /\ \A k \in 1..(Len(events) - 1) : events'[k] = events[k + 1]
    BY DeliveredEvent DEF SessionTypeOK
  <2>2. ~SearchEvent(events[1])
    BY <2>1
  <2>3. \A k \in 1..Len(events) : k # 1 => k - 1 \in 1..(Len(events) - 1) /\ (k - 1) + 1 = k
    BY <2>1
  <2> QED
    BY <2>1, <2>2, <2>3
<1>3. OneSearchAtATime'
  BY <1>1, <1>2 DEF SearchInv, OneSearchAtATime, SearchEvent
<1>4. ASSUME RowsOnTheirWay PROVE RowsOnTheirWay'
  <2>1. \A k \in 1..Len(events') :
          events'[k].kind = "row" =>
            events'[k].number \in (Len(rows) + 1)..search[latestSearchId].sent
    BY <1>2, <1>4 DEF RowsOnTheirWay
  <2>2. \A n \in (Len(rows) + 1)..search[latestSearchId].sent :
          \E k \in 1..Len(events') : events'[k].kind = "row" /\ events'[k].number = n
    <3> TAKE n \in (Len(rows) + 1)..search[latestSearchId].sent
    <3>1. PICK k \in 1..Len(events) : events[k].kind = "row" /\ events[k].number = n
      BY <1>4 DEF RowsOnTheirWay
    <3>2. k - 1 \in 1..Len(events') /\ events'[k - 1] = events[k]
      BY <1>2, <3>1 DEF SearchEvent
    <3> QED
      BY <3>1, <3>2
  <2>3. \A j, k \in 1..Len(events') : j < k => j + 1 < k + 1
    BY <1>2
  <2>4. \A j, k \in 1..Len(events') :
          j < k /\ events'[j].kind = "row" /\ events'[k].kind = "row"
            => events'[j].number < events'[k].number
    BY <1>2, <1>4, <2>3 DEF RowsOnTheirWay
  <2> QED
    BY <1>1, <1>4, <2>1, <2>2, <2>4 DEF RowsOnTheirWay
<1>5. ASSUME EndOnItsWay PROVE EndOnItsWay'
  <2>1. \A j, k \in 1..Len(events') : j > k => j + 1 > k + 1
    BY <1>2
  <2> QED
    BY <1>1, <1>2, <1>5, <2>1 DEF EndOnItsWay, SearchEvent
<1>6. CountIsShown => CountIsShown'
  BY <1>1 DEF CountIsShown
<1> QED
  BY <1>1, <1>3, <1>4, <1>5, <1>6 DEF SearchInv

LEMMA SearchInit == SessionInit => SearchInv
BY DEF SessionInit, SearchInv, OneSearchAtATime, None

LEMMA StartSearchInv == ASSUME SessionTypeOK, SearchInv, startSearch PROVE SearchInv'
<1> DEFINE new == latestSearchId + 1
<1>1. /\ new \in SearchIds /\ latestSearchId \in Nat /\ latestSearchId' = new
      /\ activeWatcher' = new /\ running' /\ ~running
      /\ rows' = <<>> /\ events' = events
      /\ search' = [search EXCEPT ![new].state = "running"]
      /\ search \in [SearchIds -> SearchTasks]
  BY StartedSearch DEF startSearch, ClearResults, SessionTypeOK
<1>2. search[new] = [state |-> "none", sent |-> 0]
  BY <1>1 DEF SearchInv, OneSearchAtATime
<1>3. /\ search'[new].state = "running" /\ search'[new].sent = 0
      /\ \A s \in SearchIds : s # new => search'[s] = search[s]
  BY <1>1, <1>2 DEF SearchTasks
<1>4. \A k \in 1..Len(events) : ~SearchEvent(events[k])
  BY <1>1 DEF SearchInv, OneSearchAtATime
<1>5. OneSearchAtATime'
  <2>1. \A s \in SearchIds : s > new => s > latestSearchId /\ s # new
    BY <1>1 DEF SearchIds
  <2>2. \A s \in SearchIds : s > new => search'[s] = [state |-> "none", sent |-> 0]
    BY <1>3, <2>1 DEF SearchInv, OneSearchAtATime
  <2>3. \A s \in SearchIds : search'[s].state = "running" => s = new
    BY <1>1, <1>3 DEF SearchInv, OneSearchAtATime
  <2>4. new # 0
    BY <1>1
  <2> HIDE DEF new
  <2> QED
    BY <1>1, <1>4, <2>2, <2>3, <2>4 DEF OneSearchAtATime, SearchEvent
<1>6. Len(rows') = 0 /\ Len(events) \in Nat
  <2>1. events \in Seq(Event)
    BY DEF SessionTypeOK
  <2> QED
    BY <1>1, <2>1
<1> HIDE DEF new
<1>7. RowsOnTheirWay' /\ EndOnItsWay'
  BY <1>1, <1>3, <1>4, <1>6 DEF RowsOnTheirWay, EndOnItsWay, SearchEvent
<1> QED
  BY <1>1, <1>5, <1>6, <1>7 DEF SearchInv

LEMMA SearchSendsInv ==
  ASSUME SessionTypeOK, SearchInv, NEW s \in SearchIds, SearchSends(s)
  PROVE  SearchInv'
<1> DEFINE number == search[s].sent + 1
           event  == [kind |-> "row", id |-> s, number |-> number]
<1>1. /\ search[s].state = "running" /\ search[s].sent \in Nat
      /\ running' = running /\ rows' = rows /\ latestSearchId' = latestSearchId
      /\ activeWatcher' = activeWatcher
      /\ search' = [search EXCEPT ![s].sent = number]
      /\ search \in [SearchIds -> SearchTasks]
  BY DEF SearchSends, searchVars, SessionTypeOK, SearchTasks
<1>2. /\ Len(events) \in Nat /\ Len(events') = Len(events) + 1
      /\ \A k \in 1..Len(events) : events'[k] = events[k]
      /\ events'[Len(events) + 1] = event
  <2>1. event \in Event
    BY <1>1 DEF Event, RowEvents
  <2> QED
    BY <2>1, QueueAfterPost DEF SearchSends
<1>3. running /\ s = latestSearchId
  BY <1>1 DEF SearchInv, OneSearchAtATime
<1>4. /\ search'[s].state = "running" /\ search'[s].sent = number
      /\ \A t \in SearchIds : t # s => search'[t] = search[t]
  BY <1>1 DEF SearchTasks
<1>5. event.kind = "row" /\ event.id = s /\ event.number = number
  OBVIOUS
<1> HIDE DEF event
<1>6. OneSearchAtATime'
  <2>1. \A t \in SearchIds : t > latestSearchId => t # s
    BY <1>3 DEF SearchIds
  <2>2. \A k \in 1..Len(events') : k \in 1..Len(events) \/ k = Len(events) + 1
    BY <1>2
  <2> HIDE DEF number
  <2> QED
    BY <1>1, <1>2, <1>3, <1>4, <1>5, <2>1, <2>2
    DEF SearchInv, OneSearchAtATime, SearchEvent
<1>7. EndOnItsWay'
  <2>1. \A k \in 1..Len(events) : events[k].kind # "searchFinished"
    BY <1>1, <1>3 DEF SearchInv, EndOnItsWay
  <2>2. \A k \in 1..Len(events') : k \in 1..Len(events) \/ k = Len(events) + 1
    BY <1>2
  <2> QED
    BY <1>2, <1>5, <2>1, <2>2 DEF EndOnItsWay
<1>8. RowsOnTheirWay'
  <2>1. Len(rows) \in Nat /\ Len(rows) <= search[s].sent
    BY <1>3, ShownRows DEF SearchInv, RowsOnTheirWay
  <2>2. \A k \in 1..Len(events') : k \in 1..Len(events) \/ k = Len(events) + 1
    BY <1>2
  <2>3. \A k \in 1..Len(events') :
          events'[k].kind = "row" => events'[k].number \in (Len(rows) + 1)..number
    <3>1. \A k \in 1..Len(events) : events[k].kind = "row" =>
            events[k].number \in (Len(rows) + 1)..search[s].sent
      BY <1>3 DEF SearchInv, RowsOnTheirWay
    <3>2. \A n \in (Len(rows) + 1)..search[s].sent : n \in (Len(rows) + 1)..number
      BY <1>1, <2>1
    <3>3. number \in (Len(rows) + 1)..number
      BY <1>1, <2>1
    <3> QED
      BY <1>2, <1>5, <2>2, <3>1, <3>2, <3>3
  <2>4. ASSUME NEW n \in (Len(rows) + 1)..number
        PROVE  \E k \in 1..Len(events') : events'[k].kind = "row" /\ events'[k].number = n
    <3>1. n \in (Len(rows) + 1)..search[s].sent \/ n = number
      BY <1>1, <2>1
    <3>2. \A m \in (Len(rows) + 1)..search[s].sent :
            \E k \in 1..Len(events) : events[k].kind = "row" /\ events[k].number = m
      BY <1>3 DEF SearchInv, RowsOnTheirWay
    <3>3. /\ Len(events) + 1 \in 1..Len(events')
          /\ \A k \in 1..Len(events) : k \in 1..Len(events')
      BY <1>2
    <3> HIDE DEF number
    <3>4. CASE n = number
      BY <1>2, <1>5, <3>3, <3>4
    <3>5. CASE n \in (Len(rows) + 1)..search[s].sent
      BY <1>2, <3>2, <3>3, <3>5
    <3> QED
      BY <3>1, <3>4, <3>5
  <2>5. ASSUME NEW j \in 1..Len(events'), NEW k \in 1..Len(events'),
               j < k, events'[j].kind = "row", events'[k].kind = "row"
        PROVE  events'[j].number < events'[k].number
    <3>1. j \in 1..Len(events)
      BY <1>2, <2>5
    <3>2. events[j].number \in (Len(rows) + 1)..search[s].sent
      BY <1>2, <1>3, <2>5, <3>1 DEF SearchInv, RowsOnTheirWay
    <3>3. CASE k \in 1..Len(events)
      BY <1>2, <1>3, <2>5, <3>1, <3>3 DEF SearchInv, RowsOnTheirWay
    <3>4. CASE k = Len(events) + 1
      BY <1>1, <1>2, <1>5, <3>1, <3>2, <3>4
    <3> QED
      BY <2>2, <3>3, <3>4
  <2>6. Len(rows) <= number
    BY <1>1, <2>1
  <2> HIDE DEF number
  <2> QED
    BY <1>1, <1>3, <1>4, <2>3, <2>4, <2>5, <2>6 DEF RowsOnTheirWay
<1> QED
  BY <1>1, <1>3, <1>6, <1>7, <1>8 DEF SearchInv

LEMMA SearchEndsInv ==
  ASSUME SessionTypeOK, SearchInv, NEW s \in SearchIds, SearchEnds(s)
  PROVE  SearchInv'
<1>1. PICK ending \in Endings, matches \in {search[s].sent, 0} :
        /\ matches = search[s].sent \/ (matches = 0 /\ ending = "partial")
        /\ Post([kind |-> "searchFinished", id |-> s, ending |-> ending,
                 matches |-> matches])
  BY DEF SearchEnds, Endings
<1> DEFINE event == [kind |-> "searchFinished", id |-> s, ending |-> ending,
                     matches |-> matches]
<1>2. /\ search[s].state = "running" /\ search[s].sent \in Nat
      /\ running' = running /\ rows' = rows /\ latestSearchId' = latestSearchId
      /\ activeWatcher' = activeWatcher
      /\ search' = [search EXCEPT ![s].state = "done"]
      /\ search \in [SearchIds -> SearchTasks]
  BY DEF SearchEnds, searchVars, SessionTypeOK, SearchTasks
<1>3. event \in Event
  BY <1>2 DEF Event, SearchFinishedEvents
<1>4. /\ Len(events) \in Nat /\ Len(events') = Len(events) + 1
      /\ \A k \in 1..Len(events) : events'[k] = events[k] /\ k \in 1..Len(events')
      /\ events'[Len(events) + 1] = event
      /\ \A k \in 1..Len(events') : k \in 1..Len(events) \/ k = Len(events) + 1
  BY <1>1, <1>3, QueueAfterPost
<1>5. running /\ s = latestSearchId
  BY <1>2 DEF SearchInv, OneSearchAtATime
<1>6. /\ search'[s].state = "done" /\ search'[s].sent = search[s].sent
      /\ \A t \in SearchIds : t # s => search'[t] = search[t]
  BY <1>2 DEF SearchTasks
<1>7. /\ event.kind = "searchFinished" /\ event.id = s /\ event.matches = matches
      /\ event.ending = ending
  OBVIOUS
<1> HIDE DEF event
<1>8. OneSearchAtATime'
  <2>1. \A t \in SearchIds : t > latestSearchId => t # s
    BY <1>5 DEF SearchIds
  <2> QED
    BY <1>2, <1>4, <1>5, <1>6, <1>7, <2>1 DEF SearchInv, OneSearchAtATime, SearchEvent
<1>9. EndOnItsWay'
  <2>1. \A k \in 1..Len(events) : events[k].kind # "searchFinished"
    BY <1>2, <1>5 DEF SearchInv, EndOnItsWay
  <2>2. \A k \in 1..Len(events') :
          events'[k].kind = "searchFinished" => k = Len(events) + 1
    BY <1>4, <2>1
  <2>3. \A j \in 1..Len(events') : ~(j > Len(events) + 1)
    BY <1>4
  <2> QED
    BY <1>1, <1>2, <1>4, <1>5, <1>6, <1>7, <2>2, <2>3 DEF EndOnItsWay
<1>10. RowsOnTheirWay'
  <2>1. search'[latestSearchId'].sent = search[latestSearchId].sent
    BY <1>2, <1>5, <1>6
  <2>2. \A k \in 1..Len(events') : events'[k].kind = "row" => k \in 1..Len(events)
    BY <1>4, <1>7
  <2>3. RowsOnTheirWay
    BY <1>5 DEF SearchInv
  <2> QED
    BY <1>2, <1>4, <2>1, <2>2, <2>3 DEF RowsOnTheirWay
<1> QED
  BY <1>2, <1>5, <1>8, <1>9, <1>10 DEF SearchInv

(* A result is shown: it is the next one of the latest search, as the      *)
(* results on their way are numbered from the first that is not shown.     *)
LEMMA RowDeliveredInv ==
  ASSUME SessionTypeOK, SearchInv, events # <<>>, events' = Tail(events),
         Head(events) \in RowEvents, OnRow(Head(events))
  PROVE  SearchInv'
<1> DEFINE event == Head(events)
           sent  == search[latestSearchId].sent
<1>1. /\ Len(events) \in Nat \ {0} /\ Len(events') = Len(events) - 1
      /\ event = events[1] /\ 1 \in 1..Len(events)
      /\ \A k \in 1..Len(events') : events'[k] = events[k + 1] /\ k + 1 \in 2..Len(events)
      /\ \A k \in 2..Len(events) : k - 1 \in 1..Len(events') /\ events'[k - 1] = events[k]
      /\ \A k \in 1..Len(events) : k = 1 \/ k \in 2..Len(events)
      /\ \A k \in 2..Len(events) : k \in 1..Len(events) /\ 1 < k
  BY QueueAfterDelivery
<1>2. event.kind = "row" /\ event.id \in SearchIds /\ event.number \in Nat
  BY DEF RowEvents
<1> HIDE DEF event
<1>3. running /\ event.id = latestSearchId
  BY <1>1, <1>2 DEF SearchInv, OneSearchAtATime, SearchEvent
<1>4. /\ rows' = Append(rows, <<latestSearchId, event.number>>)
      /\ running' = running /\ latestSearchId' = latestSearchId
      /\ activeWatcher' = activeWatcher /\ search' = search
  BY <1>3 DEF OnRow, taskVars, event
<1>5. rows \in Seq(SearchIds \X Nat) /\ Len(rows) \in Nat
  BY ShownRows
<1>6. sent \in Nat /\ latestSearchId \in SearchIds
  BY <1>2, <1>3 DEF SessionTypeOK, SearchTasks
<1>7. RowsOnTheirWay /\ EndOnItsWay
  BY <1>3 DEF SearchInv
<1>8. event.number = Len(rows) + 1 /\ Len(rows) + 1 \in (Len(rows) + 1)..sent
  <2>1. event.number \in (Len(rows) + 1)..sent
    BY <1>1, <1>2, <1>7 DEF RowsOnTheirWay
  <2>2. Len(rows) + 1 \in (Len(rows) + 1)..sent
    BY <1>2, <1>5, <1>6, <2>1
  <2>3. PICK k \in 1..Len(events) :
          events[k].kind = "row" /\ events[k].number = Len(rows) + 1
    BY <1>7, <2>2 DEF RowsOnTheirWay
  <2>4. k # 1 => event.number < Len(rows) + 1
    BY <1>1, <1>2, <1>7, <2>3 DEF RowsOnTheirWay
  <2> QED
    BY <1>1, <1>2, <1>5, <1>6, <2>1, <2>2, <2>3, <2>4
<1>9. /\ Len(rows') = Len(rows) + 1
      /\ \A i \in 1..Len(rows') : rows'[i] = <<latestSearchId, i>>
  <2>1. <<latestSearchId, event.number>> \in SearchIds \X Nat
    BY <1>2, <1>6
  <2>2. /\ Len(rows') = Len(rows) + 1
        /\ \A i \in 1..Len(rows) : rows'[i] = rows[i]
        /\ rows'[Len(rows) + 1] = <<latestSearchId, event.number>>
    BY <1>4, <1>5, <2>1, PostedEvent
  <2>3. \A i \in 1..Len(rows') : i \in 1..Len(rows) \/ i = Len(rows) + 1
    BY <1>5, <2>2
  <2>4. \A i \in 1..Len(rows) : rows[i] = <<latestSearchId, i>>
    BY DEF SearchInv
  <2> QED
    BY <1>8, <2>2, <2>3, <2>4
<1>10. OneSearchAtATime'
  <2>1. \A k \in 1..Len(events') : events'[k] = events[k + 1] /\ k + 1 \in 1..Len(events)
    BY <1>1
  <2> QED
    BY <1>4, <2>1 DEF SearchInv, OneSearchAtATime, SearchEvent
<1>11. EndOnItsWay'
  <2>1. \A j, k \in 1..Len(events') :
          /\ events'[k] = events[k + 1] /\ k + 1 \in 1..Len(events)
          /\ j > k => j + 1 > k + 1
    BY <1>1
  <2>2. \A k \in 1..Len(events') :
          events'[k].kind = "searchFinished" =>
            /\ search[latestSearchId].state = "done"
            /\ \/ events'[k].matches = sent
               \/ events'[k].matches = 0 /\ events'[k].ending = "partial"
    BY <1>7, <2>1 DEF EndOnItsWay
  <2>3. \A j, k \in 1..Len(events') :
          events'[k].kind = "searchFinished" /\ j > k => ~SearchEvent(events'[j])
    BY <1>7, <2>1 DEF EndOnItsWay
  <2> QED
    BY <1>4, <2>2, <2>3 DEF EndOnItsWay
<1>12. RowsOnTheirWay'
  <2>1. \A k \in 1..Len(events') :
          events'[k].kind = "row" => events'[k].number \in (Len(rows') + 1)..sent
    <3> SUFFICES ASSUME NEW k \in 1..Len(events'), events'[k].kind = "row"
                 PROVE  events'[k].number \in (Len(rows') + 1)..sent
      OBVIOUS
    <3>1. /\ k + 1 \in 1..Len(events) /\ 1 < k + 1
          /\ events[k + 1].kind = "row" /\ events'[k] = events[k + 1]
      BY <1>1
    <3>2. events[k + 1].number \in (Len(rows) + 1)..sent
      BY <1>7, <3>1 DEF RowsOnTheirWay
    <3>3. event.number < events[k + 1].number
      BY <1>1, <1>2, <1>7, <3>1 DEF RowsOnTheirWay
    <3> QED
      BY <1>5, <1>6, <1>8, <1>9, <3>1, <3>2, <3>3
  <2>2. \A n \in (Len(rows') + 1)..sent :
          \E k \in 1..Len(events') : events'[k].kind = "row" /\ events'[k].number = n
    <3> TAKE n \in (Len(rows') + 1)..sent
    <3>1. n \in (Len(rows) + 1)..sent /\ n # Len(rows) + 1
      BY <1>5, <1>6, <1>9
    <3>2. PICK k \in 1..Len(events) : events[k].kind = "row" /\ events[k].number = n
      BY <1>7, <3>1 DEF RowsOnTheirWay
    <3>3. k # 1
      BY <1>1, <1>8, <3>1, <3>2
    <3> QED
      BY <1>1, <3>2, <3>3
  <2>3. \A j, k \in 1..Len(events') :
          j < k /\ events'[j].kind = "row" /\ events'[k].kind = "row"
            => events'[j].number < events'[k].number
    <3>1. \A j, k \in 1..Len(events') :
            /\ events'[k] = events[k + 1] /\ k + 1 \in 1..Len(events)
            /\ j < k => j + 1 < k + 1
      BY <1>1
    <3> QED
      BY <1>7, <3>1 DEF RowsOnTheirWay
  <2>4. Len(rows') <= sent
    BY <1>5, <1>6, <1>8, <1>9
  <2> QED
    BY <1>4, <2>1, <2>2, <2>3, <2>4 DEF RowsOnTheirWay
<1> QED
  BY <1>3, <1>4, <1>9, <1>10, <1>11, <1>12 DEF SearchInv

(* The search is over: nothing of it stands behind its finished signal, so *)
(* all its results are shown.                                              *)
LEMMA SearchFinishedDeliveredInv ==
  ASSUME SessionTypeOK, SearchInv, events # <<>>, events' = Tail(events),
         Head(events) \in SearchFinishedEvents, OnSearchFinished(Head(events))
  PROVE  SearchInv'
<1> DEFINE event == Head(events)
           sent  == search[latestSearchId].sent
<1>1. /\ event = events[1] /\ 1 \in 1..Len(events)
      /\ \A k \in 1..Len(events') : events'[k] = events[k + 1] /\ k + 1 \in 2..Len(events)
      /\ \A k \in 1..Len(events) : k = 1 \/ k \in 2..Len(events)
      /\ \A k \in 2..Len(events) : k \in 1..Len(events) /\ k > 1
  BY QueueAfterDelivery
<1>2. event.kind = "searchFinished" /\ event.id \in SearchIds
  BY DEF SearchFinishedEvents
<1> HIDE DEF event
<1>3. running /\ event.id = latestSearchId /\ event.id = activeWatcher
  BY <1>1, <1>2 DEF SearchInv, OneSearchAtATime, SearchEvent
<1>4. /\ rows' = rows /\ ~running' /\ latestSearchId' = latestSearchId
      /\ search' = search /\ matchesFound' = event.matches /\ status' = event.ending
  BY <1>3 DEF OnSearchFinished, taskVars, event
<1>5. RowsOnTheirWay /\ EndOnItsWay
  BY <1>3 DEF SearchInv
<1>6. /\ search[latestSearchId].state = "done"
      /\ event.matches = sent \/ (event.matches = 0 /\ event.ending = "partial")
      /\ \A k \in 2..Len(events) : ~SearchEvent(events[k])
  BY <1>1, <1>2, <1>5 DEF EndOnItsWay
<1>7. Len(rows) = sent
  <2>1. sent \in Nat /\ Len(rows) \in Nat /\ Len(rows) <= sent
    BY <1>2, <1>3, <1>5, ShownRows DEF SessionTypeOK, SearchTasks, RowsOnTheirWay
  <2>2. Len(rows) # sent => sent \in (Len(rows) + 1)..sent
    BY <2>1
  <2>3. \A k \in 1..Len(events) : events[k].kind # "row"
    BY <1>1, <1>2, <1>6 DEF SearchEvent
  <2> QED
    BY <1>5, <2>2, <2>3 DEF RowsOnTheirWay
<1>8. OneSearchAtATime'
  <2>1. \A k \in 1..Len(events') : ~SearchEvent(events'[k])
    BY <1>1, <1>6
  <2>2. \A s \in SearchIds : search[s].state # "running"
    BY <1>6 DEF SearchInv, OneSearchAtATime
  <2> QED
    BY <1>4, <2>1, <2>2 DEF SearchInv, OneSearchAtATime, SearchEvent
<1> QED
  BY <1>4, <1>6, <1>7, <1>8 DEF SearchInv, CountIsShown

(* The status of a search that is over is not touched by cancel().         *)
LEMMA CancelLeavesTheEnd == CancelSearch => running \/ UNCHANGED status
BY DEF CancelSearch

LEMMA SearchNext ==
  SessionTypeOK /\ SearchInv /\ [SessionNext]_sessionVars => SearchInv'
<1> SUFFICES ASSUME SessionTypeOK, SearchInv, [SessionNext]_sessionVars PROVE SearchInv'
  OBVIOUS
<1>1. CASE UNCHANGED sessionVars
  BY <1>1, SearchUntouched DEF sessionVars, searchVars, taskVars, shownVars
<1>2. CASE startSearch
  BY <1>2, StartSearchInv
<1>3. CASE cancel
  BY <1>3, SearchUntouched, CancelLeavesTheEnd DEF cancel, taskVars, shownVars
<1>4. ASSUME NEW file \in Files, loadPreview(file) PROVE SearchInv'
  BY <1>4, SearchUntouched DEF loadPreview, searchVars, shownVars
<1>5. CASE ClearPreview
  BY <1>5, SearchUntouched DEF ClearPreview, searchVars, shownVars
<1>6. CASE startIndexing \/ startIndexingNowhere \/ cancelIndexing
  BY <1>6, SearchUntouched
  DEF startIndexing, startIndexingNowhere, cancelIndexing, searchVars, taskVars, shownVars
<1>7. CASE DeliverEvent
  <2> DEFINE event == Head(events)
  <2>1. /\ events # <<>> /\ events' = Tail(events)
        /\ \/ event \in RowEvents /\ OnRow(event)
           \/ event \in SearchFinishedEvents /\ OnSearchFinished(event)
           \/ event.kind = "previewFinished" /\ OnPreviewFinished(event)
           \/ event.kind = "progress" /\ OnProgress(event)
           \/ event.kind = "indexingFinished" /\ OnIndexingFinished(event)
    BY <1>7, EventDelivered
  <2>2. CASE event \in RowEvents /\ OnRow(event)
    BY <2>1, <2>2, RowDeliveredInv
  <2>3. CASE event \in SearchFinishedEvents /\ OnSearchFinished(event)
    BY <2>1, <2>3, SearchFinishedDeliveredInv
  <2>4. CASE event.kind = "previewFinished" /\ OnPreviewFinished(event)
    BY <2>1, <2>4, SearchUntouchedByDelivery
    DEF OnPreviewFinished, searchVars, taskVars, shownVars, SearchEvent
  <2>5. CASE event.kind = "progress" /\ OnProgress(event)
    BY <2>1, <2>5, SearchUntouchedByDelivery
    DEF OnProgress, searchVars, taskVars, shownVars, SearchEvent
  <2>6. CASE event.kind = "indexingFinished" /\ OnIndexingFinished(event)
    BY <2>1, <2>6, SearchUntouchedByDelivery
    DEF OnIndexingFinished, searchVars, taskVars, shownVars, SearchEvent
  <2> QED
    BY <2>1, <2>2, <2>3, <2>4, <2>5, <2>6
<1>8. ASSUME NEW s \in SearchIds, SearchSends(s) \/ SearchEnds(s) PROVE SearchInv'
  BY <1>8, SearchSendsInv, SearchEndsInv
<1>9. ASSUME NEW p \in PreviewIds, PreviewTaskEnds(p) PROVE SearchInv'
  <2>1. \E event \in Event : Post(event) /\ event.kind = "previewFinished"
    BY <1>9, PreviewTaskPosts
  <2>2. \A event : event.kind = "previewFinished" => ~SearchEvent(event)
    BY DEF SearchEvent
  <2> QED
    BY <1>9, <2>1, <2>2, SearchUntouchedByPost
    DEF PreviewTaskEnds, searchVars, shownVars
<1>10. ASSUME NEW r \in IndexIds, IndexTaskReports(r) \/ IndexTaskEnds(r) PROVE SearchInv'
  <2>1. \E event \in Event : Post(event) /\ ~SearchEvent(event)
    <3>1. \A event : IndexEvent(event) => ~SearchEvent(event)
      BY DEF IndexEvent, SearchEvent
    <3> QED
      BY <1>10, <3>1, IndexTaskPosts
  <2> QED
    BY <1>10, <2>1, SearchUntouchedByPost
    DEF IndexTaskReports, IndexTaskEnds, searchVars, shownVars
<1>11. CASE Destroy
  BY <1>11, SearchUntouched, CancelLeavesTheEnd DEF Destroy, shownVars
<1>12. CASE StopIndexing \/ Destroyed
  BY <1>12, SearchUntouched DEF StopIndexing, Destroyed, searchVars, taskVars, shownVars
<1> QED
  BY <1>1, <1>2, <1>3, <1>4, <1>5, <1>6, <1>7, <1>8, <1>9, <1>10, <1>11, <1>12
  DEF SessionNext

(* The list of results shows one search only, the latest, each result once *)
(* and in order; when that search is over it shows all of them, and the    *)
(* count is their number (SearchController::startSearch, cancel and the    *)
(* finished slot of the watcher).                                          *)
THEOREM SessionRowsAreTheLatestSearch == SessionSpec => []RowsAreTheLatestSearch
<1>1. SessionTypeOK /\ SearchInv => RowsAreTheLatestSearch
  <2> SUFFICES ASSUME SessionTypeOK, SearchInv PROVE RowsAreTheLatestSearch
    OBVIOUS
  <2>1. DOMAIN rows = 1..Len(rows)
    BY ShownRows
  <2> QED
    BY <2>1 DEF SearchInv, CountIsShown, RowsAreTheLatestSearch
<1> QED
  BY <1>1, TypeInit, TypeNext, SearchInit, SearchNext, PTL DEF SessionSpec

-----------------------------------------------------------------------------
(* Previews.  The watcher that is listened to belongs to the last preview  *)
(* asked for, and that one is not told to stop while the controller is     *)
(* alive: what it found is a text or the reason why there is none, and is  *)
(* about the file that is shown.                                           *)
PreviewShown ==
  /\ preview.file = IF previewWanted = None THEN NoFile
                    ELSE previewTask[previewWanted].file
  /\ previewWanted # None => previewWanted = previews
  /\ activePreviewWatcher # None => activePreviewWatcher = previewWanted
  /\ previewLoading <=> activePreviewWatcher # None
  /\ previewWanted # None /\ ~previewLoading =>
       /\ previewTask[previewWanted].state = "done"
       /\ preview.text \in {"text", "unreadable"}
  /\ activePreviewWatcher # None /\ Alive => ~previewTask[activePreviewWatcher].stop

PreviewsOnTheirWay ==
  \A k \in 1..Len(events) :
    events[k].kind = "previewFinished" =>
      LET task == previewTask[events[k].id] IN
        /\ task.state = "done"
        /\ events[k].result.file = task.file
        /\ events[k].result.text = "cancelled" => task.stop

PreviewInv ==
  /\ PreviewShown /\ PreviewsOnTheirWay
  /\ \A p \in PreviewIds : p > previews => previewTask[p].state = "none"

LEMMA CurrentPreview ==
  SessionTypeOK => previews \in Nat /\ (previews # 0 => previews \in PreviewIds)
<1> SUFFICES ASSUME SessionTypeOK
             PROVE  previews \in Nat /\ (previews # 0 => previews \in PreviewIds)
  OBVIOUS
<1>1. previews \in 0..MaxPreviews
  BY DEF SessionTypeOK
<1> QED
  BY <1>1, Bounds DEF PreviewIds

(* What stands in the queue after a step: nothing new about previews.      *)
LEMMA PreviewsStillOnTheirWay ==
  ASSUME SessionTypeOK, PreviewsOnTheirWay, UNCHANGED previewTask,
         \/ UNCHANGED events
         \/ \E event \in Event : Post(event) /\ event.kind # "previewFinished"
         \/ events # <<>> /\ events' = Tail(events)
  PROVE  PreviewsOnTheirWay'
<1>1. CASE UNCHANGED events
  BY <1>1 DEF PreviewsOnTheirWay
<1>2. ASSUME NEW event \in Event, Post(event), event.kind # "previewFinished"
      PROVE  PreviewsOnTheirWay'
  BY <1>2, QueueAfterPost DEF PreviewsOnTheirWay
<1>3. CASE events # <<>> /\ events' = Tail(events)
  <2>1. \A k \in 1..Len(events') : events'[k] = events[k + 1] /\ k + 1 \in 1..Len(events)
    BY <1>3, QueueAfterDelivery
  <2> QED
    BY <2>1 DEF PreviewsOnTheirWay
<1> QED
  BY <1>1, <1>2, <1>3

LEMMA PreviewUntouched ==
  ASSUME SessionTypeOK, PreviewInv, UNCHANGED <<previewVars, previewTask>>,
         controller' = "alive" => controller = "alive",
         \/ UNCHANGED events
         \/ \E event \in Event : Post(event) /\ event.kind # "previewFinished"
         \/ events # <<>> /\ events' = Tail(events)
  PROVE  PreviewInv'
<1>1. PreviewsOnTheirWay'
  BY PreviewsStillOnTheirWay DEF PreviewInv
<1>2. PreviewShown'
  BY DEF PreviewInv, PreviewShown, previewVars, Alive
<1> QED
  BY <1>1, <1>2 DEF PreviewInv, previewVars

LEMMA PreviewInit == SessionInit => PreviewInv
BY DEF SessionInit, PreviewInv, PreviewShown, PreviewsOnTheirWay, None, NoFile

(* The last preview is told to stop, and what is known of the tasks is     *)
(* still true.                                                             *)
LEMMA StopPreviewInv ==
  ASSUME SessionTypeOK, PreviewInv, StopPreview, UNCHANGED <<events, previews>>
  PROVE  /\ PreviewsOnTheirWay'
         /\ \A p \in PreviewIds : p > previews' => previewTask'[p].state = "none"
<1>1. \A p \in PreviewIds :
        /\ previewTask'[p].state = previewTask[p].state
        /\ previewTask'[p].file = previewTask[p].file
        /\ previewTask[p].stop => previewTask'[p].stop
  BY StopPreviewType
<1>2. \A k \in 1..Len(events) :
        events[k].kind = "previewFinished" => events[k].id \in PreviewIds
  <2> SUFFICES ASSUME NEW k \in 1..Len(events), events[k].kind = "previewFinished"
               PROVE  events[k].id \in PreviewIds
    OBVIOUS
  <2>1. events \in Seq(Event)
    BY DEF SessionTypeOK
  <2>2. events[k] \in Event
    BY <2>1
  <2>3. events[k] \in PreviewFinishedEvents
    BY <2>2, EventByKind
  <2> QED
    BY <2>3 DEF PreviewFinishedEvents
<1> QED
  BY <1>1, <1>2 DEF PreviewInv, PreviewsOnTheirWay

LEMMA ClearPreviewInv ==
  ASSUME SessionTypeOK, PreviewInv, clearPreview, UNCHANGED events
  PROVE  PreviewInv'
<1>1. PreviewShown'
  BY DEF clearPreview, PreviewShown, None
<1> QED
  BY <1>1, StopPreviewInv DEF clearPreview, PreviewInv

LEMMA LoadPreviewInv ==
  ASSUME SessionTypeOK, PreviewInv, NEW file \in Files, loadPreview(file)
  PROVE  PreviewInv'
<1> DEFINE p == previews + 1
<1>1. /\ p \in PreviewIds /\ previews \in Nat /\ p # 0
      /\ previews' = p /\ activePreviewWatcher' = p /\ previewWanted' = p
      /\ preview'.file = file /\ previewLoading' /\ events' = events
  <2>1. previews < MaxPreviews /\ previews \in Nat
    BY CurrentPreview DEF loadPreview
  <2>2. p \in PreviewIds /\ p # 0
    BY <2>1, Bounds DEF PreviewIds
  <2> QED
    BY <2>1, <2>2 DEF loadPreview
<1>2. /\ previewTask' =
           [q \in PreviewIds |->
              IF q = p THEN [state |-> "running", file |-> file, stop |-> FALSE]
              ELSE IF q = previews THEN [previewTask[q] EXCEPT !.stop = TRUE]
              ELSE previewTask[q]]
      /\ previewTask \in [PreviewIds -> PreviewTasks]
  BY DEF loadPreview, SessionTypeOK
<1>3. previewTask[p].state = "none"
  BY <1>1 DEF PreviewInv
<1> HIDE DEF p
<1>4. /\ previewTask'[p].file = file /\ ~previewTask'[p].stop
      /\ \A q \in PreviewIds : q # p =>
           /\ previewTask'[q].state = previewTask[q].state
           /\ previewTask'[q].file = previewTask[q].file
           /\ previewTask[q].stop => previewTask'[q].stop
  BY <1>1, <1>2 DEF PreviewTasks
<1>5. PreviewShown'
  BY <1>1, <1>4 DEF PreviewShown, None
<1>6. PreviewsOnTheirWay'
  <2> SUFFICES ASSUME NEW k \in 1..Len(events), events[k].kind = "previewFinished"
               PROVE  LET task == previewTask'[events[k].id] IN
                        /\ task.state = "done" /\ events[k].result.file = task.file
                        /\ events[k].result.text = "cancelled" => task.stop
    BY <1>1 DEF PreviewsOnTheirWay
  <2>1. events \in Seq(Event)
    BY DEF SessionTypeOK
  <2>2. events[k] \in Event
    BY <2>1
  <2>3. events[k].id \in PreviewIds
    BY <2>2, EventByKind DEF PreviewFinishedEvents
  <2>4. /\ previewTask[events[k].id].state = "done"
        /\ events[k].result.file = previewTask[events[k].id].file
        /\ events[k].result.text = "cancelled" => previewTask[events[k].id].stop
    BY DEF PreviewInv, PreviewsOnTheirWay
  <2> QED
    BY <1>3, <1>4, <2>3, <2>4
<1>7. \A q \in PreviewIds : q > previews' => previewTask'[q].state = "none"
  <2>1. \A q \in PreviewIds : q > p => q > previews /\ q # p
    BY <1>1 DEF PreviewIds, p
  <2> QED
    BY <1>1, <1>4, <2>1 DEF PreviewInv
<1> QED
  BY <1>5, <1>6, <1>7 DEF PreviewInv

LEMMA PreviewTaskEndsInv ==
  ASSUME SessionTypeOK, PreviewInv, NEW p \in PreviewIds, PreviewTaskEnds(p)
  PROVE  PreviewInv'
<1>1. PICK text \in {"cancelled", "text", "unreadable"} :
        /\ text = "cancelled" => previewTask[p].stop
        /\ Post([kind |-> "previewFinished", id |-> p,
                 result |-> [file |-> previewTask[p].file, text |-> text]])
  BY DEF PreviewTaskEnds
<1> DEFINE event == [kind |-> "previewFinished", id |-> p,
                     result |-> [file |-> previewTask[p].file, text |-> text]]
<1>2. /\ UNCHANGED <<previewVars, controller>> /\ previewTask[p].state = "running"
      /\ previewTask' = [previewTask EXCEPT ![p].state = "done"]
      /\ previewTask \in [PreviewIds -> PreviewTasks]
  BY DEF PreviewTaskEnds, SessionTypeOK
<1>3. /\ previewTask'[p].state = "done"
      /\ \A q \in PreviewIds :
           /\ q # p => previewTask'[q].state = previewTask[q].state
           /\ previewTask'[q].file = previewTask[q].file
           /\ previewTask'[q].stop = previewTask[q].stop
  BY <1>2 DEF PreviewTasks
<1>4. event \in Event
  BY <1>2 DEF Event, PreviewFinishedEvents, PreviewTasks
<1>5. /\ event.kind = "previewFinished" /\ event.id = p /\ event.result.text = text
      /\ event.result.file = previewTask[p].file
  OBVIOUS
<1> HIDE DEF event
<1>6. /\ \A k \in 1..Len(events) : events'[k] = events[k]
      /\ events'[Len(events) + 1] = event
      /\ \A k \in 1..Len(events') : k \in 1..Len(events) \/ k = Len(events) + 1
  BY <1>1, <1>4, QueueAfterPost DEF event
<1>7. PreviewsOnTheirWay'
  <2> SUFFICES ASSUME NEW k \in 1..Len(events'), events'[k].kind = "previewFinished"
               PROVE  LET task == previewTask'[events'[k].id] IN
                        /\ task.state = "done" /\ events'[k].result.file = task.file
                        /\ events'[k].result.text = "cancelled" => task.stop
    BY DEF PreviewsOnTheirWay
  <2>1. CASE k \in 1..Len(events)
    <3>1. events \in Seq(Event)
      BY DEF SessionTypeOK
    <3>2. events[k] \in Event
      BY <2>1, <3>1
    <3>3. events[k].id \in PreviewIds
      BY <1>6, <2>1, <3>2, EventByKind DEF PreviewFinishedEvents
    <3>4. /\ previewTask[events[k].id].state = "done"
          /\ events[k].result.file = previewTask[events[k].id].file
          /\ events[k].result.text = "cancelled" => previewTask[events[k].id].stop
      BY <1>6, <2>1 DEF PreviewInv, PreviewsOnTheirWay
    <3> QED
      BY <1>3, <1>6, <2>1, <3>3, <3>4
  <2>2. CASE k = Len(events) + 1
    BY <1>1, <1>3, <1>5, <1>6, <2>2
  <2> QED
    BY <1>6, <2>1, <2>2
<1>8. PreviewShown'
  <2>1. /\ previewWanted # None => previewWanted \in PreviewIds
        /\ activePreviewWatcher # None => activePreviewWatcher \in PreviewIds
    BY CurrentPreview DEF PreviewInv, PreviewShown, None
  <2> QED
    BY <1>2, <1>3, <2>1 DEF PreviewInv, PreviewShown, previewVars, Alive
<1>9. \A q \in PreviewIds : q > previews' => previewTask'[q].state = "none"
  BY <1>2, <1>3 DEF PreviewInv, previewVars
<1> QED
  BY <1>7, <1>8, <1>9 DEF PreviewInv

LEMMA PreviewFinishedInv ==
  ASSUME SessionTypeOK, PreviewInv, Alive, UNCHANGED controller,
         events # <<>>, events' = Tail(events),
         Head(events) \in PreviewFinishedEvents, OnPreviewFinished(Head(events))
  PROVE  PreviewInv'
<1> DEFINE event == Head(events)
<1>1. UNCHANGED <<previewTask, previews, previewWanted>>
  BY DEF OnPreviewFinished, taskVars
<1>2. PreviewsOnTheirWay'
  BY <1>1, PreviewsStillOnTheirWay DEF PreviewInv
<1>3. PreviewShown'
  <2>1. CASE IsCurrentPreview(event)
    <3>1. /\ activePreviewWatcher' = None /\ previewLoading' = FALSE
          /\ preview' = IF event.result.text = "cancelled" THEN preview ELSE event.result
      BY <2>1 DEF OnPreviewFinished, setPreviewResult
    <3>2. /\ event.kind = "previewFinished" /\ event.id \in PreviewIds
          /\ event.result.text \in {"cancelled", "text", "unreadable"}
      BY DEF PreviewFinishedEvents
    <3>3. event = events[1] /\ 1 \in 1..Len(events)
      BY QueueAfterDelivery
    <3> HIDE DEF event
    <3>4. event.id = activePreviewWatcher /\ activePreviewWatcher # None
      BY <2>1, <3>2 DEF IsCurrentPreview, PreviewIds, None
    <3>5. activePreviewWatcher = previewWanted /\ ~previewTask[activePreviewWatcher].stop
      BY <3>4 DEF PreviewInv, PreviewShown
    <3>6. /\ previewTask[event.id].state = "done"
          /\ event.result.file = previewTask[event.id].file
          /\ event.result.text # "cancelled"
      BY <3>2, <3>3, <3>4, <3>5 DEF PreviewInv, PreviewsOnTheirWay
    <3> QED
      BY <1>1, <3>1, <3>2, <3>4, <3>5, <3>6 DEF PreviewInv, PreviewShown
  <2>2. CASE ~IsCurrentPreview(event)
    BY <1>1, <2>2 DEF OnPreviewFinished, PreviewInv, PreviewShown, Alive
  <2> QED
    BY <2>1, <2>2
<1> QED
  BY <1>1, <1>2, <1>3 DEF PreviewInv

LEMMA PreviewNext ==
  SessionTypeOK /\ PreviewInv /\ [SessionNext]_sessionVars => PreviewInv'
<1> SUFFICES ASSUME SessionTypeOK, PreviewInv, [SessionNext]_sessionVars PROVE PreviewInv'
  OBVIOUS
<1>1. CASE UNCHANGED sessionVars
  BY <1>1, PreviewUntouched DEF sessionVars, taskVars
<1>2. CASE startSearch
  BY <1>2, ClearPreviewInv DEF startSearch
<1>3. CASE cancel
  BY <1>3, PreviewUntouched DEF cancel, taskVars
<1>4. ASSUME NEW file \in Files, loadPreview(file) PROVE PreviewInv'
  BY <1>4, LoadPreviewInv
<1>5. CASE ClearPreview
  BY <1>5, ClearPreviewInv DEF ClearPreview
<1>6. CASE startIndexing \/ startIndexingNowhere \/ cancelIndexing
  BY <1>6, PreviewUntouched
  DEF startIndexing, startIndexingNowhere, cancelIndexing, taskVars
<1>7. CASE DeliverEvent
  <2> DEFINE event == Head(events)
  <2>1. /\ Alive /\ UNCHANGED controller /\ events # <<>> /\ events' = Tail(events)
        /\ \/ event \in PreviewFinishedEvents /\ OnPreviewFinished(event)
           \/ \/ OnRow(event) \/ OnSearchFinished(event) \/ OnProgress(event)
              \/ OnIndexingFinished(event)
    BY <1>7, EventDelivered
  <2>2. CASE event \in PreviewFinishedEvents /\ OnPreviewFinished(event)
    BY <2>1, <2>2, PreviewFinishedInv
  <2>3. CASE OnRow(event) \/ OnSearchFinished(event) \/ OnProgress(event)
               \/ OnIndexingFinished(event)
    <3>1. UNCHANGED <<previewVars, previewTask>>
      BY <2>3 DEF OnRow, OnSearchFinished, OnProgress, OnIndexingFinished, taskVars
    <3> QED
      BY <2>1, <3>1, PreviewUntouched
  <2> QED
    BY <2>1, <2>2, <2>3
<1>8. ASSUME NEW s \in SearchIds, SearchSends(s) \/ SearchEnds(s) PROVE PreviewInv'
  <2>1. \E event \in Event : Post(event) /\ SearchEvent(event)
    BY <1>8, SearchPosts
  <2>2. \A event : SearchEvent(event) => event.kind # "previewFinished"
    BY DEF SearchEvent
  <2> QED
    BY <1>8, <2>1, <2>2, PreviewUntouched DEF SearchSends, SearchEnds
<1>9. ASSUME NEW p \in PreviewIds, PreviewTaskEnds(p) PROVE PreviewInv'
  BY <1>9, PreviewTaskEndsInv
<1>10. ASSUME NEW r \in IndexIds, IndexTaskReports(r) \/ IndexTaskEnds(r)
       PROVE PreviewInv'
  <2>1. \E event \in Event : Post(event) /\ IndexEvent(event)
    BY <1>10, IndexTaskPosts
  <2>2. \A event : IndexEvent(event) => event.kind # "previewFinished"
    BY DEF IndexEvent
  <2> QED
    BY <1>10, <2>1, <2>2, PreviewUntouched DEF IndexTaskReports, IndexTaskEnds
<1>11. CASE Destroy
  <2>1. PreviewShown'
    <3>1. \A p \in PreviewIds :
            /\ previewTask'[p].state = previewTask[p].state
            /\ previewTask'[p].file = previewTask[p].file
      BY <1>11, StopPreviewType DEF Destroy
    <3>2. previewWanted # None => previewWanted \in PreviewIds
      BY CurrentPreview DEF PreviewInv, PreviewShown, None
    <3> QED
      BY <1>11, <3>1, <3>2 DEF Destroy, PreviewInv, PreviewShown, previewVars, Alive
  <2>2. UNCHANGED <<events, previews>> /\ StopPreview
    BY <1>11 DEF Destroy, previewVars
  <2> QED
    BY <2>1, <2>2, StopPreviewInv DEF PreviewInv
<1>12. CASE StopIndexing \/ Destroyed
  BY <1>12, PreviewUntouched DEF StopIndexing, Destroyed, taskVars
<1> QED
  BY <1>1, <1>2, <1>3, <1>4, <1>5, <1>6, <1>7, <1>8, <1>9, <1>10, <1>11, <1>12
  DEF SessionNext

(* The preview is the one that was asked for last: its file, and when it   *)
(* is loaded the text of that very request, never the late answer of an    *)
(* older one (SearchController::loadPreview, clearPreview and the finished *)
(* slot of the preview watcher).                                           *)
THEOREM SessionPreviewIsTheLastRequest == SessionSpec => []PreviewIsTheLastRequest
<1>1. PreviewInv => PreviewIsTheLastRequest
  BY DEF PreviewInv, PreviewShown, PreviewIsTheLastRequest
<1> QED
  BY <1>1, TypeInit, TypeNext, PreviewInit, PreviewNext, PTL DEF SessionSpec

-----------------------------------------------------------------------------
(* Indexing.  At most one run is at work, the one the controller counts as *)
(* running; its finished signal is the last event of indexing in the       *)
(* queue, so no progress report can overwrite the final status.            *)
AtWork(r) == indexTask[r].state \in {"preparing", "running"}

IndexInv ==
  /\ ~indexingRunning => indexingStatus \in Finals \cup {"inactive", "no scope"}
  /\ \A r \in IndexIds : AtWork(r) => indexingRunning /\ r = indexRuns
  /\ \A k \in 1..Len(events) : IndexEvent(events[k]) => indexingRunning
  /\ \A k \in 1..Len(events) :
       events[k].kind = "indexingFinished" =>
         /\ \A r \in IndexIds : ~AtWork(r)
         /\ \A j \in 1..Len(events) : j > k => ~IndexEvent(events[j])

(* Steps that leave the tasks of indexing alone and post nothing of it.    *)
LEMMA IndexUntouched ==
  ASSUME SessionTypeOK, IndexInv, UNCHANGED indexTask,
         UNCHANGED <<indexingRunning, indexRuns>>,
         indexingRunning \/ UNCHANGED indexingStatus
           \/ indexingStatus' \in {"inactive", "no scope"},
         \/ UNCHANGED events
         \/ \E event \in Event : Post(event) /\ ~IndexEvent(event)
         \/ events # <<>> /\ events' = Tail(events)
  PROVE  IndexInv'
<1>1. \A r \in IndexIds : AtWork(r)' <=> AtWork(r)
  BY DEF AtWork
<1>2. /\ \A k \in 1..Len(events') : IndexEvent(events'[k]) => indexingRunning
      /\ \A k \in 1..Len(events') :
           events'[k].kind = "indexingFinished" =>
             /\ \A r \in IndexIds : ~AtWork(r)
             /\ \A j \in 1..Len(events') : j > k => ~IndexEvent(events'[j])
  <2>1. CASE UNCHANGED events
    BY <2>1 DEF IndexInv
  <2>2. ASSUME NEW event \in Event, Post(event), ~IndexEvent(event) PROVE <1>2
    BY <2>2, QueueAfterPost DEF IndexInv, IndexEvent
  <2>3. CASE events # <<>> /\ events' = Tail(events)
    <3>1. \A k \in 1..Len(events') : events'[k] = events[k + 1] /\ k + 1 \in 1..Len(events)
      BY <2>3, QueueAfterDelivery
    <3>2. \A j, k \in 1..Len(events') : j > k => j + 1 > k + 1
      BY <2>3, OrderAfterDelivery
    <3>3. \A k \in 1..Len(events') : IndexEvent(events'[k]) => indexingRunning
      BY <3>1 DEF IndexInv
    <3>4. \A k \in 1..Len(events') :
            events'[k].kind = "indexingFinished" => \A r \in IndexIds : ~AtWork(r)
      BY <3>1 DEF IndexInv
    <3>5. \A j, k \in 1..Len(events') :
            events'[k].kind = "indexingFinished" /\ j > k => ~IndexEvent(events'[j])
      BY <3>1, <3>2 DEF IndexInv
    <3> QED
      BY <3>3, <3>4, <3>5
  <2> QED
    BY <2>1, <2>2, <2>3
<1> QED
  BY <1>1, <1>2 DEF IndexInv

LEMMA IndexInit == SessionInit => IndexInv
BY DEF SessionInit, IndexInv, AtWork

LEMMA StartIndexingInv == ASSUME SessionTypeOK, IndexInv, startIndexing PROVE IndexInv'
<1>1. /\ indexingRunning' /\ ~indexingRunning /\ indexRuns' = indexRuns + 1
      /\ indexTask' = [indexTask EXCEPT ![indexRuns + 1].state = "preparing"]
      /\ indexTask \in [IndexIds -> IndexTasks] /\ events' = events
  BY DEF startIndexing, SessionTypeOK
<1>2. \A r \in IndexIds : r # indexRuns + 1 => indexTask'[r] = indexTask[r]
  BY <1>1
<1>3. \A r \in IndexIds : AtWork(r)' => r = indexRuns'
  BY <1>1, <1>2 DEF IndexInv, AtWork
<1>4. \A k \in 1..Len(events) :
        ~IndexEvent(events[k]) /\ events[k].kind # "indexingFinished"
  BY <1>1 DEF IndexInv, IndexEvent
<1> QED
  BY <1>1, <1>3, <1>4 DEF IndexInv

(* Nobody else is at work, and while one is the end has not been posted. *)
LEMMA OnlyOneAtWork ==
  ASSUME IndexInv, NEW r \in IndexIds, AtWork(r)
  PROVE  /\ indexingRunning /\ r = indexRuns
         /\ \A other \in IndexIds : AtWork(other) => other = r
         /\ \A k \in 1..Len(events) : events[k].kind # "indexingFinished"
BY DEF IndexInv

LEMMA IndexTaskReportsInv ==
  ASSUME SessionTypeOK, IndexInv, NEW r \in IndexIds, IndexTaskReports(r)
  PROVE  IndexInv'
<1> DEFINE event == [kind |-> "progress", id |-> r]
<1>1. /\ AtWork(r) /\ UNCHANGED <<indexingRunning, indexRuns, indexingStatus>>
      /\ \A other \in IndexIds : other # r => indexTask'[other] = indexTask[other]
      /\ Post(event)
  BY DEF IndexTaskReports, indexVars, AtWork, SessionTypeOK
<1>2. event \in Event /\ event.kind = "progress"
  BY DEF Event, ProgressEvents
<1> HIDE DEF event
<1>3. /\ \A k \in 1..Len(events) : events'[k] = events[k]
      /\ events'[Len(events) + 1] = event
      /\ \A k \in 1..Len(events') : k \in 1..Len(events) \/ k = Len(events) + 1
  BY <1>1, <1>2, QueueAfterPost
<1>4. \A k \in 1..Len(events') : events'[k].kind # "indexingFinished"
  BY <1>1, <1>2, <1>3, OnlyOneAtWork
<1>5. \A other \in IndexIds : AtWork(other)' => other = r
  BY <1>1, OnlyOneAtWork DEF AtWork
<1> QED
  BY <1>1, <1>4, <1>5, OnlyOneAtWork DEF IndexInv

LEMMA IndexTaskEndsInv ==
  ASSUME SessionTypeOK, IndexInv, NEW r \in IndexIds, IndexTaskEnds(r)
  PROVE  IndexInv'
<1>1. /\ AtWork(r) /\ UNCHANGED <<indexingRunning, indexRuns, indexingStatus>>
      /\ indexTask' = [indexTask EXCEPT ![r].state = "done"]
      /\ indexTask \in [IndexIds -> IndexTasks]
  BY DEF IndexTaskEnds, indexVars, AtWork, SessionTypeOK
<1>2. \A other \in IndexIds : ~AtWork(other)'
  <2>1. indexTask'[r].state = "done"
    BY <1>1 DEF IndexTasks
  <2>2. \A other \in IndexIds : other # r => indexTask'[other] = indexTask[other]
    BY <1>1
  <2> QED
    BY <1>1, <2>1, <2>2, OnlyOneAtWork DEF AtWork
<1>3. PICK event \in Event : Post(event) /\ IndexEvent(event)
  BY IndexTaskPosts
<1>4. /\ Len(events) \in Nat
      /\ \A k \in 1..Len(events) : events'[k] = events[k]
      /\ \A k \in 1..Len(events') : k \in 1..Len(events) \/ k = Len(events) + 1
      /\ Len(events') = Len(events) + 1
  BY <1>3, QueueAfterPost
<1>5. \A k \in 1..Len(events') :
        events'[k].kind = "indexingFinished" => k = Len(events) + 1
  BY <1>1, <1>4, OnlyOneAtWork
<1>6. \A j \in 1..Len(events') : ~(j > Len(events) + 1)
  BY <1>4
<1> QED
  BY <1>1, <1>2, <1>5, <1>6, OnlyOneAtWork DEF IndexInv

LEMMA IndexingFinishedInv ==
  ASSUME SessionTypeOK, IndexInv, events # <<>>, events' = Tail(events),
         Head(events) \in IndexingFinishedEvents, OnIndexingFinished(Head(events))
  PROVE  IndexInv'
<1>1. /\ Head(events).kind = "indexingFinished" /\ Head(events).final \in Finals
  BY DEF IndexingFinishedEvents
<1>2. /\ Head(events) = events[1] /\ 1 \in 1..Len(events)
      /\ \A k \in 1..Len(events') : events'[k] = events[k + 1] /\ k + 1 \in 2..Len(events)
      /\ \A k \in 2..Len(events) : k \in 1..Len(events) /\ k > 1
  BY QueueAfterDelivery
<1>3. /\ indexingStatus' \in Finals /\ ~indexingRunning' /\ UNCHANGED indexTask
  BY <1>1 DEF OnIndexingFinished, taskVars
<1>4. \A k \in 1..Len(events') : ~IndexEvent(events'[k])
  BY <1>1, <1>2 DEF IndexInv
<1>5. \A r \in IndexIds : ~AtWork(r)'
  BY <1>1, <1>2, <1>3 DEF IndexInv, AtWork
<1> QED
  BY <1>3, <1>4, <1>5 DEF IndexInv, IndexEvent

LEMMA IndexNext == SessionTypeOK /\ IndexInv /\ [SessionNext]_sessionVars => IndexInv'
<1> SUFFICES ASSUME SessionTypeOK, IndexInv, [SessionNext]_sessionVars PROVE IndexInv'
  OBVIOUS
<1>1. CASE UNCHANGED sessionVars
  BY <1>1, IndexUntouched DEF sessionVars, indexVars, taskVars
<1>2. CASE startSearch
  BY <1>2, IndexUntouched DEF startSearch, indexVars
<1>3. CASE cancel
  BY <1>3, IndexUntouched DEF cancel, indexVars, taskVars
<1>4. ASSUME NEW file \in Files, loadPreview(file) PROVE IndexInv'
  BY <1>4, IndexUntouched DEF loadPreview, indexVars
<1>5. CASE ClearPreview
  BY <1>5, IndexUntouched DEF ClearPreview, indexVars
<1>6. CASE startIndexing
  BY <1>6, StartIndexingInv
<1>7. CASE startIndexingNowhere \/ cancelIndexing
  BY <1>7, IndexUntouched DEF startIndexingNowhere, cancelIndexing, taskVars
<1>8. CASE DeliverEvent
  <2> DEFINE event == Head(events)
  <2>1. /\ events # <<>> /\ events' = Tail(events)
        /\ \/ event.kind = "progress" /\ OnProgress(event)
           \/ event \in IndexingFinishedEvents /\ OnIndexingFinished(event)
           \/ \/ OnRow(event) \/ OnSearchFinished(event) \/ OnPreviewFinished(event)
    BY <1>8, EventDelivered
  <2>2. CASE event.kind = "progress" /\ OnProgress(event)
    <3>1. indexingRunning
      BY <2>1, <2>2, QueueAfterDelivery DEF IndexInv, IndexEvent
    <3> QED
      BY <2>1, <2>2, <3>1, IndexUntouched DEF OnProgress, taskVars
  <2>3. CASE event \in IndexingFinishedEvents /\ OnIndexingFinished(event)
    BY <2>1, <2>3, IndexingFinishedInv
  <2>4. CASE OnRow(event) \/ OnSearchFinished(event) \/ OnPreviewFinished(event)
    BY <2>1, <2>4, IndexUntouched
    DEF OnRow, OnSearchFinished, OnPreviewFinished, indexVars, taskVars
  <2> QED
    BY <2>1, <2>2, <2>3, <2>4
<1>9. ASSUME NEW s \in SearchIds, SearchSends(s) \/ SearchEnds(s) PROVE IndexInv'
  <2>1. \E event \in Event : Post(event) /\ SearchEvent(event)
    BY <1>9, SearchPosts
  <2>2. \A event : SearchEvent(event) => ~IndexEvent(event)
    BY DEF IndexEvent, SearchEvent
  <2> QED
    BY <1>9, <2>1, <2>2, IndexUntouched DEF SearchSends, SearchEnds, indexVars
<1>10. ASSUME NEW p \in PreviewIds, PreviewTaskEnds(p) PROVE IndexInv'
  <2>1. \E event \in Event : Post(event) /\ event.kind = "previewFinished"
    BY <1>10, PreviewTaskPosts
  <2>2. \A event : event.kind = "previewFinished" => ~IndexEvent(event)
    BY DEF IndexEvent
  <2> QED
    BY <1>10, <2>1, <2>2, IndexUntouched DEF PreviewTaskEnds, indexVars
<1>11. ASSUME NEW r \in IndexIds, IndexTaskReports(r) \/ IndexTaskEnds(r)
       PROVE IndexInv'
  BY <1>11, IndexTaskReportsInv, IndexTaskEndsInv
<1>12. CASE Destroy
  BY <1>12, IndexUntouched DEF Destroy, indexVars
<1>13. CASE StopIndexing \/ Destroyed
  BY <1>13, IndexUntouched DEF StopIndexing, Destroyed, indexVars, taskVars
<1> QED
  BY <1>1, <1>2, <1>3, <1>4, <1>5, <1>6, <1>7, <1>8, <1>9, <1>10, <1>11, <1>12, <1>13
  DEF SessionNext

(* When no indexing runs, its status is a final one: no late progress      *)
(* report overwrites the end (SearchController::startIndexing, its         *)
(* progress callback and the finished slot of the indexing watcher).       *)
THEOREM SessionIndexingStatusIsFinal == SessionSpec => []IndexingStatusIsFinal
<1>1. IndexInv => IndexingStatusIsFinal
  BY DEF IndexInv, IndexingStatusIsFinal
<1> QED
  BY <1>1, TypeInit, TypeNext, IndexInit, IndexNext, PTL DEF SessionSpec

-----------------------------------------------------------------------------
(* The scope.  A selection has at most one folder, and it is the           *)
(* controller's directory; so a list of one folder is all that has to be   *)
(* known of the removal of folders and of those that vanished.             *)
LEMMA EntriesOfOne ==
  ASSUME NEW d
  PROVE  /\ \A e : withoutDirectory(<<>>, e) = <<>>
         /\ withoutDirectory(<<d>>, d) = <<>>
         /\ \A e : e # d => withoutDirectory(<<d>>, e) = <<d>>
         /\ thoseThatExist(<<>>) = <<>>
         /\ d \in existing => thoseThatExist(<<d>>) = <<d>>
         /\ d \notin existing => thoseThatExist(<<d>>) = <<>>
<1>1. \A list : EntriesAt(list, {}) = <<>>
  <2>1. Cardinality({}) = 0
    BY FS_EmptySet
  <2> QED
    BY <2>1 DEF EntriesAt
<1>2. EntriesAt(<<d>>, {1}) = <<d>>
  <2>1. Cardinality({1}) = 1
    BY FS_Singleton
  <2>2. \A n \in 1..1 : (CHOOSE i \in {1} : Cardinality({j \in {1} : j <= i}) = n) = 1
    <3>1. {j \in {1} : j <= 1} = {1}
      OBVIOUS
    <3>2. \A i \in {1} : i = 1 /\ Cardinality({j \in {1} : j <= i}) = 1
      BY <2>1, <3>1
    <3> QED
      BY <3>2
  <2>3. EntriesAt(<<d>>, {1}) = [n \in 1..1 |-> <<d>>[1]]
    BY <2>1, <2>2 DEF EntriesAt
  <2> QED
    BY <2>3
<1>3. DOMAIN <<>> = {} /\ DOMAIN <<d>> = {1} /\ <<d>>[1] = d
  OBVIOUS
<1>4. \A e : {i \in DOMAIN <<>> : <<>>[i] # e} = {}
  BY <1>3
<1>5. /\ {i \in DOMAIN <<d>> : <<d>>[i] # d} = {}
      /\ \A e : e # d => {i \in DOMAIN <<d>> : <<d>>[i] # e} = {1}
  BY <1>3
<1>6. /\ {i \in DOMAIN <<>> : <<>>[i] \in existing} = {}
      /\ d \in existing => {i \in DOMAIN <<d>> : <<d>>[i] \in existing} = {1}
      /\ d \notin existing => {i \in DOMAIN <<d>> : <<d>>[i] \in existing} = {}
  BY <1>3
<1> QED
  BY <1>1, <1>2, <1>4, <1>5, <1>6 DEF withoutDirectory, thoseThatExist

SelectionIsDirectory ==
  (selected = <<>> /\ directory = NoDirectory) \/ selected = <<directory>>

(* QSettings are what the controller has, but for a selection that a start *)
(* could not restore.                                                      *)
StoredIsCurrent ==
  /\ stored.included = included /\ stored.excluded = excluded
  /\ stored.recent = recent /\ stored.favorites = favorites
  /\ stored.selected = <<>> \/ \E d : stored.selected = <<d>>
  /\ ~fallback => stored.selected = selected

ScopeInv == SelectionIsDirectory /\ StoredIsCurrent /\ existing \subseteq Directories

LEMMA ScopeStarts == ASSUME ScopeInit PROVE ScopeInv
  BY DEF ScopeInit, ScopeInv, SelectionIsDirectory, StoredIsCurrent

(* Every operation ends in a save.                                         *)
LEMMA SavedScope ==
  ASSUME ScopeInv, SelectionIsDirectory', existing' = existing, saveScopeHistory
  PROVE  ScopeInv'
<1>1. selected' = <<>> \/ \E d : selected' = <<d>>
  BY DEF SelectionIsDirectory
<1> QED
  BY <1>1 DEF ScopeInv, StoredIsCurrent, saveScopeHistory

LEMMA RestoredScope ==
  ASSUME ScopeInv, loadScopeHistory
  PROVE  /\ ScopeInv'
         /\ ~fallback /\ directory \in existing =>
              UNCHANGED <<directory, selected, included, excluded, recent, favorites>>
<1> DEFINE there  == thoseThatExist(stored.selected)
           lately == thoseThatExist(stored.recent)
           choice == IF there # <<>> THEN <<there[Len(there)]>>
                     ELSE IF lately # <<>> THEN <<Head(lately)>> ELSE <<>>
<1>1. /\ selected' = choice
      /\ directory' = IF choice = <<>> THEN NoDirectory ELSE Head(choice)
      /\ fallback' = (there = <<>>)
      /\ included' = stored.included /\ excluded' = stored.excluded
      /\ recent' = stored.recent /\ favorites' = stored.favorites
      /\ stored' = stored /\ existing' = existing
  BY DEF loadScopeHistory
<1>2. stored.selected = <<>> \/ \E d : stored.selected = <<d>>
  BY DEF ScopeInv, StoredIsCurrent
<1>3. there # <<>> => \E d : stored.selected = <<d>> /\ there = <<d>>
  BY <1>2, EntriesOfOne
<1>4. choice = <<>> \/ choice = <<Head(choice)>>
  OBVIOUS
<1>5. SelectionIsDirectory'
  BY <1>1, <1>4 DEF SelectionIsDirectory
<1>6. there # <<>> => choice = stored.selected
  BY <1>3
<1>7. StoredIsCurrent'
  BY <1>1, <1>2, <1>6 DEF StoredIsCurrent
<1>8. ASSUME ~fallback, directory \in existing
      PROVE  UNCHANGED <<directory, selected, included, excluded, recent, favorites>>
  <2>1. directory # NoDirectory
    BY <1>8, ScopeAssumption DEF ScopeInv
  <2>2. stored.selected = <<directory>> /\ selected = <<directory>>
    BY <1>8, <2>1 DEF ScopeInv, SelectionIsDirectory, StoredIsCurrent
  <2>3. there = <<directory>>
    BY <1>8, <2>2, EntriesOfOne
  <2>4. choice = <<directory>> /\ Head(choice) = directory
    BY <2>3
  <2> QED
    BY <1>1, <2>2, <2>4 DEF ScopeInv, StoredIsCurrent
<1> QED
  BY <1>1, <1>5, <1>7, <1>8 DEF ScopeInv

LEMMA ScopeStep ==
  ASSUME ScopeInv, [ScopeNext]_scopeVars
  PROVE  ScopeInv'
<1>1. ASSUME NEW d \in Directories, selectDirectory(d) PROVE ScopeInv'
  <2>1. SelectionIsDirectory' /\ existing' = existing /\ saveScopeHistory
    BY <1>1 DEF selectDirectory, Operation, SelectionIsDirectory
  <2> QED
    BY <2>1, SavedScope
<1>2. ASSUME NEW d \in Directories, removeSelectedDirectory(d) PROVE ScopeInv'
  <2>1. /\ selected' = withoutDirectory(selected, d)
        /\ directory' = IF directory # d THEN directory
                        ELSE IF selected' = <<>> THEN NoDirectory ELSE Head(selected')
        /\ existing' = existing /\ saveScopeHistory
    BY <1>2 DEF removeSelectedDirectory, Operation
  <2>2. d # NoDirectory
    BY ScopeAssumption
  <2>3. SelectionIsDirectory'
    <3>1. CASE selected = <<>> /\ directory = NoDirectory
      BY <2>1, <2>2, <3>1, EntriesOfOne DEF SelectionIsDirectory
    <3>2. CASE selected = <<directory>> /\ directory = d
      BY <2>1, <3>2, EntriesOfOne DEF SelectionIsDirectory
    <3>3. CASE selected = <<directory>> /\ directory # d
      BY <2>1, <3>3, EntriesOfOne DEF SelectionIsDirectory
    <3> QED
      BY <3>1, <3>2, <3>3 DEF ScopeInv, SelectionIsDirectory
  <2> QED
    BY <2>1, <2>3, SavedScope
<1>3. ASSUME UNCHANGED <<directory, selected>>, Operation, saveScopeHistory PROVE ScopeInv'
  <2>1. SelectionIsDirectory' /\ existing' = existing
    BY <1>3 DEF ScopeInv, SelectionIsDirectory, Operation
  <2> QED
    BY <1>3, <2>1, SavedScope
<1>4. ASSUME NEW d \in Directories,
             \/ addIncludedDirectory(d) \/ addExcludedDirectory(d)
             \/ \E root \in Directories :
                  removeIncludedDirectory(root, d) \/ removeExcludedDirectory(root, d)
      PROVE  ScopeInv'
  BY <1>3, <1>4 DEF addIncludedDirectory, addExcludedDirectory, removeIncludedDirectory,
     removeExcludedDirectory
<1>5. ASSUME NEW d, toggleFavoriteDirectory(d) PROVE ScopeInv'
  BY <1>3, <1>5 DEF toggleFavoriteDirectory
<1>6. CASE toggleCurrentDirectoryFavorite
  BY <1>5, <1>6 DEF toggleCurrentDirectoryFavorite
<1>7. CASE DirectoryVanishesOrReturns
  BY <1>7 DEF DirectoryVanishesOrReturns, ScopeInv, SelectionIsDirectory, StoredIsCurrent
<1>8. CASE UNCHANGED scopeVars
  BY <1>8 DEF scopeVars, ScopeInv, SelectionIsDirectory, StoredIsCurrent
<1> QED
  BY <1>1, <1>2, <1>4, <1>5, <1>6, <1>7, <1>8, RestoredScope DEF ScopeNext

(* Starting the program again restores everything the user had, whatever   *)
(* the user did before and whichever other folders came and went           *)
(* (loadScopeHistory, saveScopeHistory).                                   *)
THEOREM ScopeRestartRestores == ScopeSpec => RestartRestoresScope
<1>1. ScopeInit => ScopeInv
  BY ScopeStarts
<1>2. ScopeInv /\ [ScopeNext]_scopeVars => ScopeInv'
  BY ScopeStep
<1>3. ScopeInv /\ [ScopeNext]_scopeVars =>
        [loadScopeHistory /\ ~fallback /\ directory \in existing =>
           UNCHANGED <<directory, selected, included, excluded, recent, favorites>>]_scopeVars
  BY RestoredScope
<1> QED
  BY <1>1, <1>2, <1>3, PTL DEF ScopeSpec, RestartRestoresScope

-----------------------------------------------------------------------------
(* One call of the search service.  First the search of the index: it has  *)
(* taken exactly the answers in front of the match that is tried next.     *)
Places       == Nat \X Nat
DocumentType == [path : Nat, text : Nat, givesUp : BOOLEAN]
Documents == Seq(DocumentType)
QueryType == [resultLimit : Nat, perFileResultLimit : Nat, budget : Nat,
              target : {"name", "content", "both"}]

AnswersBefore(documents, query, d, m) ==
  {r \in IndexAnswer(documents, query) : Earlier(r, <<d, m>>)}

IsReached(documents, query, d) == \A e \in 1..(d - 1) : ~EndsSearch(documents[e], query)

(* The answers in front of a place, as the place moves on. *)
LEMMA PlaceMoves ==
  ASSUME NEW documents \in Documents, NEW query \in QueryType,
         NEW d \in 1..Len(documents), NEW m \in Nat \ {0}
  PROVE  LET matches == MatchesOf(documents[d], query) IN
         /\ matches \in Nat
         /\ m > query.perFileResultLimit =>
              AnswersBefore(documents, query, d, m + 1) = AnswersBefore(documents, query, d, m)
         /\ (/\ m <= query.perFileResultLimit /\ m <= matches
             /\ IsReached(documents, query, d)) =>
              AnswersBefore(documents, query, d, m + 1)
                = AnswersBefore(documents, query, d, m) \cup {<<d, m>>}
         /\ m > matches =>
              AnswersBefore(documents, query, d + 1, 1) = AnswersBefore(documents, query, d, m)
         /\ m > matches /\ (d = Len(documents) \/ EndsSearch(documents[d], query)) =>
              AnswersBefore(documents, query, d, m) = IndexAnswer(documents, query)
<1> DEFINE matches == MatchesOf(documents[d], query)
           answer  == IndexAnswer(documents, query)
<1>1. documents[d] \in DocumentType /\ DOMAIN documents = 1..Len(documents)
      /\ Len(documents) \in Nat
  BY DEF Documents
<1>2. matches \in Nat
  BY <1>1 DEF MatchesOf, QueryType, DocumentType
<1>3. \A r \in answer :
        /\ r = <<r[1], r[2]>> /\ r[1] \in 1..Len(documents) /\ r[2] \in Nat \ {0}
        /\ r[2] <= query.perFileResultLimit
        /\ r[2] <= MatchesOf(documents[r[1]], query)
        /\ \A e \in 1..(r[1] - 1) : ~EndsSearch(documents[e], query)
  BY <1>1 DEF IndexAnswer, QueryType
<1>4. ASSUME m > query.perFileResultLimit
      PROVE  AnswersBefore(documents, query, d, m + 1) = AnswersBefore(documents, query, d, m)
  <2>1. \A r \in answer : Earlier(r, <<d, m + 1>>) <=> Earlier(r, <<d, m>>)
    BY <1>3, <1>4 DEF Earlier, QueryType
  <2> QED
    BY <2>1 DEF AnswersBefore
<1>5. ASSUME m <= query.perFileResultLimit, m <= matches,
             IsReached(documents, query, d)
      PROVE  AnswersBefore(documents, query, d, m + 1)
               = AnswersBefore(documents, query, d, m) \cup {<<d, m>>}
  <2>1. <<d, m>> \in answer
    BY <1>1, <1>2, <1>5 DEF IndexAnswer, QueryType, IsReached
  <2>2. \A r \in answer : Earlier(r, <<d, m + 1>>) <=> Earlier(r, <<d, m>>) \/ r = <<d, m>>
    BY <1>3 DEF Earlier
  <2> QED
    BY <2>1, <2>2 DEF AnswersBefore
<1>6. ASSUME m > matches
      PROVE  AnswersBefore(documents, query, d + 1, 1) = AnswersBefore(documents, query, d, m)
  <2>1. \A r \in answer : Earlier(r, <<d + 1, 1>>) <=> Earlier(r, <<d, m>>)
    BY <1>2, <1>3, <1>6 DEF Earlier
  <2> QED
    BY <2>1 DEF AnswersBefore
<1>7. ASSUME m > matches, d = Len(documents) \/ EndsSearch(documents[d], query)
      PROVE  AnswersBefore(documents, query, d, m) = answer
  <2>1. \A r \in answer : Earlier(r, <<d, m>>)
    <3> SUFFICES ASSUME NEW r \in answer PROVE Earlier(r, <<d, m>>)
      OBVIOUS
    <3>1. r[1] <= d
      BY <1>1, <1>3, <1>7
    <3>2. r[1] = d => r[2] < m
      BY <1>2, <1>3, <1>7
    <3> QED
      BY <1>3, <3>1, <3>2 DEF Earlier
  <2> QED
    BY <2>1 DEF AnswersBefore
<1> QED
  BY <1>2, <1>4, <1>5, <1>6, <1>7

LEMMA FirstPlace ==
  ASSUME NEW documents \in Documents, NEW query \in QueryType
  PROVE  /\ AnswersBefore(documents, query, 0, 1) = {}
         /\ AnswersBefore(documents, query, 1, 1) = {}
         /\ Len(documents) = 0 => IndexAnswer(documents, query) = {}
  BY DEF AnswersBefore, IndexAnswer, Earlier, Documents, QueryType

(* A list that grows. *)
LEMMA ElementsGrow ==
  ASSUME NEW S, NEW list \in Seq(S), NEW e \in S
  PROVE  /\ Elements(<<>>) = {}
         /\ Elements(Append(list, e)) = Elements(list) \cup {e}
<1>1. /\ DOMAIN Append(list, e) = 1..(Len(list) + 1) /\ DOMAIN list = 1..Len(list)
      /\ Len(list) \in Nat
      /\ \A i \in 1..Len(list) : Append(list, e)[i] = list[i]
      /\ Append(list, e)[Len(list) + 1] = e
  OBVIOUS
<1>2. 1..(Len(list) + 1) = (1..Len(list)) \cup {Len(list) + 1}
  BY <1>1
<1> QED
  BY <1>1, <1>2 DEF Elements

CallType == [strategy : {"direct", "indexed", "hybrid"}, valid : BOOLEAN,
             batching : [adaptive : BOOLEAN, size : Nat, minimum : Nat, maximum : Nat],
             query : QueryType, direct : Seq(Places), documents : Documents,
             holdsBack : BOOLEAN]

(* Where the search of the index is, and what it has of each document.     *)
PlaceInv ==
  /\ inDocument \in 0..Len(call.documents) /\ nextMatch \in Nat \ {0}
  /\ fileMatches = IF nextMatch > call.query.perFileResultLimit
                   THEN call.query.perFileResultLimit ELSE nextMatch - 1
  /\ inDocument = 0 => nextMatch = 1
  /\ IsReached(call.documents, call.query, inDocument)

ResultsInv ==
  /\ indexResults \in Seq(Places)
  /\ \A i, j \in DOMAIN indexResults : i < j => Earlier(indexResults[i], indexResults[j])
  /\ Elements(indexResults)
       = AnswersBefore(call.documents, call.query, inDocument, nextMatch)
  /\ Len(indexResults) <= call.query.resultLimit
  /\ call.query.budget # 0 => Len(indexResults) <= call.query.budget

EndingInv ==
  /\ indexEnding \in {"none", "limit", "memory", "gave up", "complete", "stopped"}
  /\ indexEnding = "limit"   => Len(indexResults) = call.query.resultLimit
  /\ indexEnding = "memory"  => /\ call.query.budget # 0
                                /\ Len(indexResults) = call.query.budget
  /\ indexEnding \in {"gave up", "complete"} =>
       Elements(indexResults) = IndexAnswer(call.documents, call.query)
  /\ indexEnding = "stopped" => searchStopped

IndexedInv == PlaceInv /\ ResultsInv /\ EndingInv

LEMMA IndexStarts ==
  ASSUME call \in CallType, IndexSearchInit
  PROVE  IndexedInv
<1>1. /\ call.documents \in Documents /\ call.query \in QueryType
      /\ Len(call.documents) \in Nat
      /\ call.query.perFileResultLimit \in Nat /\ call.query.resultLimit \in Nat
      /\ call.query.budget \in Nat
  BY DEF CallType, QueryType, Documents
<1>2. PlaceInv
  BY <1>1 DEF PlaceInv, IndexSearchInit, IsReached
<1>3. Elements(indexResults) = {}
  BY DEF IndexSearchInit, Elements
<1>4. AnswersBefore(call.documents, call.query, inDocument, nextMatch) = {}
  BY <1>1, FirstPlace DEF IndexSearchInit
<1>5. indexResults = <<>> /\ indexResults \in Seq(Places) /\ Len(indexResults) = 0
      /\ DOMAIN indexResults = {}
  BY DEF IndexSearchInit
<1>6. ResultsInv
  BY <1>1, <1>3, <1>4, <1>5 DEF ResultsInv
<1> QED
  BY <1>2, <1>6 DEF IndexedInv, EndingInv, IndexSearchInit

(* A result that is appended comes after all that were appended before.    *)
LEMMA ResultAppended ==
  ASSUME call \in CallType, PlaceInv, ResultsInv, inDocument > 0,
         HasMore(call.documents, call.query), call' = call,
         Len(indexResults) < call.query.resultLimit,
         fileMatches < call.query.perFileResultLimit,
         fitsBudget(Len(indexResults), call.query.budget),
         indexResults' = Append(indexResults, <<inDocument, nextMatch>>),
         inDocument' = inDocument, nextMatch' = nextMatch + 1
  PROVE  ResultsInv'
<1> DEFINE documents == call.documents
           query     == call.query
           place     == <<inDocument, nextMatch>>
<1>1. /\ documents \in Documents /\ query \in QueryType /\ Len(documents) \in Nat
      /\ query.perFileResultLimit \in Nat /\ query.resultLimit \in Nat
      /\ query.budget \in Nat
  BY DEF CallType, QueryType, Documents
<1>2. /\ inDocument \in 1..Len(documents) /\ nextMatch \in Nat \ {0}
      /\ nextMatch <= MatchesOf(documents[inDocument], query)
      /\ nextMatch <= query.perFileResultLimit
      /\ IsReached(documents, query, inDocument)
  BY <1>1 DEF PlaceInv, HasMore
<1>3. place \in Places
  BY <1>1, <1>2 DEF Places
<1>4. indexResults \in Seq(Places) /\ indexResults' \in Seq(Places)
  BY <1>3 DEF ResultsInv
<1>5. AnswersBefore(documents, query, inDocument, nextMatch + 1)
        = AnswersBefore(documents, query, inDocument, nextMatch) \cup {place}
  BY <1>1, <1>2, PlaceMoves
<1>6. Elements(indexResults')
        = AnswersBefore(documents, query, inDocument, nextMatch + 1)
  <2>1. Elements(indexResults') = Elements(indexResults) \cup {place}
    BY <1>3, <1>4, ElementsGrow
  <2>2. Elements(indexResults) = AnswersBefore(documents, query, inDocument, nextMatch)
    BY DEF ResultsInv
  <2> QED
    BY <1>5, <2>1, <2>2
<1>7. \A i \in DOMAIN indexResults : Earlier(indexResults[i], place)
  BY DEF ResultsInv, Elements, AnswersBefore
<1>8. /\ DOMAIN indexResults = 1..Len(indexResults) /\ Len(indexResults) \in Nat
      /\ DOMAIN indexResults' = 1..(Len(indexResults) + 1)
      /\ Len(indexResults') = Len(indexResults) + 1
      /\ \A i \in 1..Len(indexResults) : indexResults'[i] = indexResults[i]
      /\ indexResults'[Len(indexResults) + 1] = place
  BY <1>4, <1>3
<1>9. \A i, j \in DOMAIN indexResults' :
        i < j => Earlier(indexResults'[i], indexResults'[j])
  <2> SUFFICES ASSUME NEW i \in DOMAIN indexResults', NEW j \in DOMAIN indexResults', i < j
               PROVE  Earlier(indexResults'[i], indexResults'[j])
    OBVIOUS
  <2>1. i \in DOMAIN indexResults
    BY <1>8
  <2>2. CASE j \in DOMAIN indexResults
    BY <1>8, <2>1, <2>2 DEF ResultsInv
  <2>3. CASE j = Len(indexResults) + 1
    BY <1>7, <1>8, <2>1, <2>3
  <2> QED
    BY <1>8, <2>2, <2>3
<1>10. /\ Len(indexResults') <= query.resultLimit
       /\ query.budget # 0 => Len(indexResults') <= query.budget
  BY <1>1, <1>8 DEF fitsBudget
<1> QED
  BY <1>4, <1>6, <1>9, <1>10 DEF ResultsInv

LEMMA IndexSteps ==
  ASSUME call \in CallType, IndexedInv, SearchIndex
  PROVE  IndexedInv'
<1> DEFINE documents == call.documents
           query     == call.query
<1>1. /\ documents \in Documents /\ query \in QueryType /\ Len(documents) \in Nat
      /\ query.perFileResultLimit \in Nat /\ query.resultLimit \in Nat
      /\ query.budget \in Nat
  BY DEF CallType, QueryType, Documents
<1>2. /\ call' = call /\ searchStopped' = searchStopped
      /\ IndexSearchNext(documents, query, searchStopped)
      /\ indexEnding = "none"
  BY DEF SearchIndex, IndexSearchNext, appendIndexedResult, leaveDocument
<1>3. PlaceInv /\ ResultsInv /\ Len(indexResults) \in Nat
  BY DEF IndexedInv, ResultsInv
<1>4. CASE appendIndexedResult(documents, query)
  <2>1. /\ HasMore(documents, query) /\ inDocument > 0 /\ inDocument' = inDocument
        /\ inDocument \in 1..Len(documents) /\ nextMatch \in Nat \ {0}
    BY <1>1, <1>3, <1>4 DEF appendIndexedResult, HasMore, PlaceInv
  <2>2. ASSUME Len(indexResults) >= query.resultLimit, indexEnding' = "limit",
               UNCHANGED <<nextMatch, fileMatches, indexResults>>
        PROVE  IndexedInv'
    <3>1. PlaceInv' /\ ResultsInv'
      BY <1>2, <1>3, <2>1, <2>2 DEF PlaceInv, ResultsInv
    <3>2. EndingInv'
      BY <1>1, <1>2, <1>3, <2>2 DEF EndingInv, ResultsInv
    <3> QED
      BY <3>1, <3>2 DEF IndexedInv
  <2>3. ASSUME Len(indexResults) < query.resultLimit,
               fileMatches >= query.perFileResultLimit, nextMatch' = nextMatch + 1,
               UNCHANGED <<fileMatches, indexResults, indexEnding>>
        PROVE  IndexedInv'
    <3>1. nextMatch > query.perFileResultLimit
      BY <1>1, <1>3, <2>1, <2>3 DEF PlaceInv
    <3>2. PlaceInv'
      BY <1>1, <1>2, <1>3, <2>1, <2>3, <3>1 DEF PlaceInv
    <3>3. AnswersBefore(documents, query, inDocument, nextMatch + 1)
            = AnswersBefore(documents, query, inDocument, nextMatch)
      BY <1>1, <2>1, <3>1, PlaceMoves
    <3>4. ResultsInv'
      BY <1>2, <1>3, <2>1, <2>3, <3>3 DEF ResultsInv
    <3>5. EndingInv'
      BY <1>2, <2>3 DEF EndingInv
    <3> QED
      BY <3>2, <3>4, <3>5 DEF IndexedInv
  <2>4. ASSUME Len(indexResults) < query.resultLimit,
               ~fitsBudget(Len(indexResults), query.budget), indexEnding' = "memory",
               UNCHANGED <<nextMatch, fileMatches, indexResults>>
        PROVE  IndexedInv'
    <3>1. PlaceInv' /\ ResultsInv'
      BY <1>2, <1>3, <2>1, <2>4 DEF PlaceInv, ResultsInv
    <3>2. EndingInv'
      BY <1>1, <1>2, <1>3, <2>4 DEF EndingInv, ResultsInv, fitsBudget
    <3> QED
      BY <3>1, <3>2 DEF IndexedInv
  <2>5. ASSUME Len(indexResults) < query.resultLimit,
               fileMatches < query.perFileResultLimit,
               fitsBudget(Len(indexResults), query.budget),
               indexResults' = Append(indexResults, <<inDocument, nextMatch>>),
               fileMatches' = fileMatches + 1, nextMatch' = nextMatch + 1,
               UNCHANGED indexEnding
        PROVE  IndexedInv'
    <3>1. ResultsInv'
      BY <1>2, <1>3, <2>1, <2>5, ResultAppended
    <3>2. PlaceInv'
      BY <1>1, <1>2, <1>3, <2>1, <2>5 DEF PlaceInv
    <3>3. EndingInv'
      BY <1>2, <2>5 DEF EndingInv
    <3> QED
      BY <3>1, <3>2, <3>3 DEF IndexedInv
  <2> QED
    BY <1>4, <2>2, <2>3, <2>4, <2>5 DEF appendIndexedResult
<1>5. CASE leaveDocument(documents, query, searchStopped)
  <2>1. indexResults' = indexResults /\ ~HasMore(documents, query)
    BY <1>5 DEF leaveDocument
  <2>2. inDocument \in 0..Len(documents) /\ nextMatch \in Nat \ {0}
    BY <1>3 DEF PlaceInv
  <2>3. inDocument > 0 => nextMatch > MatchesOf(documents[inDocument], query)
    BY <1>1, <2>1, <2>2, PlaceMoves DEF HasMore
  <2>4. ASSUME UNCHANGED <<inDocument, nextMatch, fileMatches>>
        PROVE  PlaceInv' /\ ResultsInv'
    BY <1>2, <1>3, <2>1, <2>4 DEF PlaceInv, ResultsInv
  <2>5. ASSUME inDocument = Len(documents) \/ GivesUpHere(documents, query)
        PROVE  Elements(indexResults) = IndexAnswer(documents, query)
    <3>1. CASE inDocument = 0
      <4>1. nextMatch = 1 /\ Len(documents) = 0
        BY <1>3, <2>5, <3>1 DEF PlaceInv, GivesUpHere
      <4>2. Elements(indexResults) = AnswersBefore(documents, query, 0, 1)
        BY <1>3, <3>1, <4>1 DEF ResultsInv
      <4> QED
        BY <1>1, <4>1, <4>2, FirstPlace
    <3>2. CASE inDocument > 0
      BY <1>1, <1>3, <2>2, <2>3, <2>5, <3>2, PlaceMoves DEF ResultsInv, GivesUpHere
    <3> QED
      BY <1>1, <2>2, <3>1, <3>2
  <2>6. ASSUME GivesUpHere(documents, query), indexEnding' = "gave up",
               UNCHANGED <<inDocument, nextMatch, fileMatches>>
        PROVE  IndexedInv'
    <3>1. EndingInv'
      BY <1>2, <2>1, <2>5, <2>6 DEF EndingInv
    <3> QED
      BY <2>4, <2>6, <3>1 DEF IndexedInv
  <2>7. ASSUME inDocument = Len(documents) \/ searchStopped,
               indexEnding' = IF inDocument = Len(documents) THEN "complete" ELSE "stopped",
               UNCHANGED <<inDocument, nextMatch, fileMatches>>
        PROVE  IndexedInv'
    <3>1. EndingInv'
      BY <1>2, <2>1, <2>5, <2>7 DEF EndingInv
    <3> QED
      BY <2>4, <2>7, <3>1 DEF IndexedInv
  <2>8. ASSUME ~GivesUpHere(documents, query), inDocument < Len(documents),
               inDocument' = inDocument + 1, nextMatch' = 1, fileMatches' = 0,
               UNCHANGED indexEnding
        PROVE  IndexedInv'
    <3>1. IsReached(documents, query, inDocument + 1)
      BY <1>1, <1>3, <2>2, <2>8 DEF PlaceInv, GivesUpHere, IsReached
    <3>2. PlaceInv'
      BY <1>1, <1>2, <2>2, <2>8, <3>1 DEF PlaceInv
    <3>3. AnswersBefore(documents, query, inDocument + 1, 1)
            = AnswersBefore(documents, query, inDocument, nextMatch)
      <4>1. CASE inDocument = 0
        <5>1. nextMatch = 1 /\ inDocument + 1 = 1
          BY <1>3, <4>1 DEF PlaceInv
        <5> QED
          BY <1>1, <4>1, <5>1, FirstPlace
      <4>2. CASE inDocument > 0
        <5>1. /\ inDocument \in 1..Len(documents) /\ nextMatch \in Nat \ {0}
              /\ nextMatch > MatchesOf(documents[inDocument], query)
          BY <1>1, <2>2, <2>3, <4>2
        <5> HIDE DEF documents, query
        <5> QED
          BY <1>1, <5>1, PlaceMoves
      <4> QED
        BY <1>1, <2>2, <4>1, <4>2
    <3>4. ResultsInv'
      BY <1>2, <1>3, <2>1, <2>8, <3>3 DEF ResultsInv
    <3>5. EndingInv'
      BY <1>2, <2>8 DEF EndingInv
    <3> QED
      BY <3>2, <3>4, <3>5 DEF IndexedInv
  <2> QED
    BY <1>5, <2>6, <2>7, <2>8 DEF leaveDocument
<1> QED
  BY <1>2, <1>4, <1>5 DEF IndexSearchNext

-----------------------------------------------------------------------------
(* The whole call. *)
Before    == {"idle", "started", "search"}
Afterward == {"flush", "terminal", "returned"}
EventType == [kind : {"started", "resultBatch"} \cup Terminals, size : Nat,
              accepted : BOOLEAN]

ServiceTypes ==
  /\ servicePhase \in Before \cup Afterward \cup {"index", "results", "threw"}
  /\ servicePhase # "idle" => call \in CallType
  /\ remaining \in Seq(Places) /\ pendingResults \in Seq(Places)
  /\ shown \in Seq(Places) /\ handedOut \in Seq(Places)
  /\ delivered \in Seq(EventType)
  /\ cacheHits \in Nat /\ cacheMisses \in Nat /\ emittedResultCount \in Nat
  /\ offeredAgain \in Nat /\ lastOffers \in BOOLEAN
  /\ abortedBySink \in BOOLEAN /\ searchStopped \in BOOLEAN
  /\ summary \in [cancelled : BOOLEAN, errors : {"none", "invalid", "partial"},
                  limitReached : BOOLEAN, matches : Int]

(* A batch is sent as soon as it is full. *)
BatchInv ==
  /\ Len(pendingResults) < batchSize
  /\ batchSize \in Nat
  /\ servicePhase # "idle" =>
       /\ SmallestBatch(call.batching) <= batchSize
       /\ batchSize <= LargestBatch(call.batching)

(* Until the call has returned, no terminal event was sent, and after a    *)
(* refusal only an engine that holds results back goes on.                 *)
EventsInv ==
  /\ EventsInOrder
  /\ servicePhase \in {"idle", "started"} => delivered = <<>>
  /\ servicePhase \notin {"idle", "started", "returned"} =>
       /\ delivered # <<>>
       /\ \A i \in DOMAIN delivered :
            /\ delivered[i].kind \notin Terminals
            /\ ~delivered[i].accepted => delivered[i].kind = "resultBatch" /\ abortedBySink
  /\ abortedBySink /\ ~call.holdsBack => pendingResults = <<>>
  /\ abortedBySink /\ ~call.holdsBack /\ servicePhase = "results" => remaining = <<>>
  /\ abortedBySink /\ servicePhase \in Afterward => summary.cancelled
  /\ servicePhase \in Before \cup {"index"} => ~abortedBySink
  /\ servicePhase \in {"terminal", "returned"} => pendingResults = <<>>

(* What remains is the rest of what is found, or a part of it when the     *)
(* search was refused or stopped.                                          *)
RestInv ==
  /\ \A i \in DOMAIN remaining : remaining[i] = Offer(Len(handedOut) + i)
  /\ Len(handedOut) + Len(remaining) <= OfferCount
  /\ ~searchStopped /\ ~abortedBySink => Len(handedOut) + Len(remaining) = Len(Found)
  /\ ~lastOffers => offeredAgain = 0

(* What was handed out is the first part of what is found, a refused       *)
(* result twice.                                                           *)
HandedOutInv ==
  /\ handedOut = shown \o pendingResults
  /\ servicePhase \in Before \cup {"index"} =>
       /\ handedOut = <<>> /\ cacheHits = 0 /\ cacheMisses = 0 /\ emittedResultCount = 0
       /\ offeredAgain = 0
  /\ handedOut # <<>> => /\ Len(handedOut) <= OfferCount
                        /\ \A i \in DOMAIN handedOut : handedOut[i] = Offer(i)
  /\ offeredAgain # 0 => call.holdsBack /\ (abortedBySink \/ searchStopped)
  /\ servicePhase = "results" =>
       /\ call.valid /\ RestInv
       /\ call.strategy = "hybrid" => cacheHits + cacheMisses = emittedResultCount
       /\ ~abortedBySink => emittedResultCount = Len(handedOut)

(* What the summary says. *)
SummaryInv ==
  servicePhase \in Afterward /\ ~summary.cancelled =>
    /\ ~call.valid => summary.errors = "invalid" /\ handedOut = <<>>
    /\ call.valid  => /\ summary.errors # "invalid" /\ Len(handedOut) = Len(Found)
                      /\ offeredAgain = 0 /\ summary.matches = Len(handedOut)
    /\ call.strategy = "hybrid" => cacheHits + cacheMisses = summary.matches
    /\ call.valid /\ call.strategy = "indexed" =>
         /\ indexEnding \notin {"none", "stopped"}
         /\ indexEnding = "limit" => summary.limitReached
    /\ servicePhase = "returned" =>
         delivered[Len(delivered)].kind = IF call.valid THEN "completed" ELSE "failed"

IndexUsed ==
  /\ servicePhase \in Before => IndexSearchInit
  /\ servicePhase = "index" => call.valid
  /\ servicePhase = "index" \/ indexEnding # "none" => IndexedInv
  /\ servicePhase = "results" /\ call.strategy = "indexed" => indexEnding # "none"

ServiceInv ==
  /\ ServiceTypes /\ BatchInv /\ EventsInv /\ HandedOutInv /\ SummaryInv /\ IndexUsed

LEMMA BatchBounds ==
  ASSUME NEW o \in [adaptive : BOOLEAN, size : Nat, minimum : Nat, maximum : Nat]
  PROVE  /\ SmallestBatch(o) \in Nat /\ 1 <= SmallestBatch(o) /\ LargestBatch(o) \in Nat
         /\ InitialBatch(o) \in Nat
         /\ SmallestBatch(o) <= InitialBatch(o) /\ InitialBatch(o) <= LargestBatch(o)
  BY DEF SmallestBatch, LargestBatch, InitialBatch, normalizedBatchSize, AtLeast, AtMost

LEMMA WithinBounds ==
  ASSUME NEW smallest \in Nat, NEW largest \in Nat, NEW b \in Nat, smallest <= b, b <= largest
  PROVE  /\ AtMost(b * 2, largest) \in Nat /\ AtLeast(b \div 2, smallest) \in Nat
         /\ smallest <= AtMost(b * 2, largest) /\ AtMost(b * 2, largest) <= largest
         /\ smallest <= AtLeast(b \div 2, smallest) /\ AtLeast(b \div 2, smallest) <= largest
<1>1. b * 2 \in Nat /\ b <= b * 2
  OBVIOUS
<1>2. b \div 2 \in Nat /\ b \div 2 <= b
  OBVIOUS
<1> QED
  BY <1>1, <1>2 DEF AtMost, AtLeast

LEMMA BatchAdapts ==
  ASSUME call \in CallType, BatchInv, servicePhase # "idle"
  PROVE  \A latency \in {"fast", "slow", "near the target"} :
           /\ recordDeliveryLatency(latency) \in Nat /\ 1 <= recordDeliveryLatency(latency)
           /\ SmallestBatch(call.batching) <= recordDeliveryLatency(latency)
           /\ recordDeliveryLatency(latency) <= LargestBatch(call.batching)
<1> DEFINE smallest == SmallestBatch(call.batching)
           largest  == LargestBatch(call.batching)
<1>1. smallest \in Nat /\ 1 <= smallest /\ largest \in Nat
  BY BatchBounds DEF CallType
<1>2. batchSize \in Nat /\ smallest <= batchSize /\ batchSize <= largest
  BY DEF BatchInv
<1>3. /\ AtMost(batchSize * 2, largest) \in Nat /\ AtLeast(batchSize \div 2, smallest) \in Nat
      /\ smallest <= AtMost(batchSize * 2, largest)
      /\ AtMost(batchSize * 2, largest) <= largest
      /\ smallest <= AtLeast(batchSize \div 2, smallest)
      /\ AtLeast(batchSize \div 2, smallest) <= largest
  BY <1>1, <1>2, WithinBounds
<1>4. \A a, b \in Nat : 1 <= a /\ a <= b => 1 <= b
  OBVIOUS
<1> QED
  BY <1>1, <1>2, <1>3, <1>4 DEF recordDeliveryLatency

(* One more event. *)
LEMMA EventSent ==
  ASSUME delivered \in Seq(EventType), EventsInOrder, call' = call,
         NEW e \in EventType, delivered' = Append(delivered, e),
         e.kind = "started" <=> delivered = <<>>,
         \A i \in DOMAIN delivered :
           /\ delivered[i].kind \notin Terminals
           /\ ~delivered[i].accepted =>
                /\ delivered[i].kind = "resultBatch"
                /\ e.kind = "cancelled" \/ (call.holdsBack /\ e.kind = "resultBatch"),
         e.kind = "resultBatch" => e.size \in 1..LargestBatch(call.batching)
  PROVE  /\ EventsInOrder' /\ delivered' \in Seq(EventType) /\ delivered' # <<>>
         /\ DOMAIN delivered' = DOMAIN delivered \cup {Len(delivered')}
         /\ \A i \in DOMAIN delivered : delivered'[i] = delivered[i] /\ i < Len(delivered')
         /\ delivered'[Len(delivered')] = e
<1> DEFINE n == Len(delivered)
<1>1. /\ n \in Nat /\ DOMAIN delivered = 1..n /\ Len(delivered') = n + 1
      /\ DOMAIN delivered' = 1..(n + 1) /\ delivered' \in Seq(EventType)
      /\ \A i \in 1..n : delivered'[i] = delivered[i]
      /\ delivered'[n + 1] = e
  OBVIOUS
<1>2. delivered # <<>> <=> n > 0
  BY <1>1
<1>3. delivered'[1].kind = "started"
  BY <1>1, <1>2 DEF EventsInOrder
<1> DEFINE AfterRefusal(d, i) == \A k \in DOMAIN d :
             k > i => /\ d[i].kind = "resultBatch"
                      /\ \/ d[k].kind = "cancelled"
                         \/ call.holdsBack /\ d[k].kind = "resultBatch"
<1>4. ASSUME NEW i \in 1..n
      PROVE  /\ delivered'[i].kind = "started" => i = 1
             /\ delivered'[i].kind \notin Terminals
             /\ ~delivered'[i].accepted => AfterRefusal(delivered', i)
             /\ delivered'[i].kind = "resultBatch" =>
                  delivered'[i].size \in 1..LargestBatch(call.batching)
  <2>1. delivered'[i] = delivered[i]
    BY <1>1
  <2>2. ASSUME ~delivered'[i].accepted, NEW k \in DOMAIN delivered', k > i
        PROVE  /\ delivered'[i].kind = "resultBatch"
               /\ \/ delivered'[k].kind = "cancelled"
                  \/ call.holdsBack /\ delivered'[k].kind = "resultBatch"
    <3>1. ~delivered[i].accepted /\ i \in DOMAIN delivered
      BY <1>1, <2>1, <2>2
    <3>2. CASE k \in 1..n
      <4>1. delivered'[k] = delivered[k] /\ k \in DOMAIN delivered
        BY <1>1, <3>2
      <4>2. /\ delivered[i].kind = "resultBatch"
            /\ \/ delivered[k].kind = "cancelled"
               \/ call.holdsBack /\ delivered[k].kind = "resultBatch"
        BY <2>2, <3>1, <4>1 DEF EventsInOrder
      <4> QED
        BY <2>1, <4>1, <4>2
    <3>3. CASE k = n + 1
      BY <1>1, <2>1, <3>1, <3>3
    <3>4. k \in 1..n \/ k = n + 1
      BY <1>1
    <3> QED
      BY <3>2, <3>3, <3>4
  <2>3. /\ delivered[i].kind = "started" => i = 1
        /\ delivered[i].kind \notin Terminals
        /\ delivered[i].kind = "resultBatch" =>
             delivered[i].size \in 1..LargestBatch(call.batching)
    BY <1>1 DEF EventsInOrder
  <2>4. ~delivered'[i].accepted => AfterRefusal(delivered', i)
    BY <2>2
  <2> HIDE DEF AfterRefusal
  <2> QED
    BY <2>1, <2>3, <2>4
<1>5. ASSUME NEW i \in 1..(n + 1)
      PROVE  /\ delivered'[i].kind = "started" => i = 1
             /\ delivered'[i].kind \in Terminals => i = n + 1
             /\ ~delivered'[i].accepted => AfterRefusal(delivered', i)
             /\ delivered'[i].kind = "resultBatch" =>
                  delivered'[i].size \in 1..LargestBatch(call.batching)
  <2>1. CASE i \in 1..n
    <3> HIDE DEF AfterRefusal
    <3> QED
      BY <1>4, <2>1
  <2>2. CASE i = n + 1
    <3>1. e.kind = "started" => n = 0
      BY <1>2
    <3>2. delivered'[i] = e /\ n \in Nat
      BY <1>1, <2>2
    <3>3. AfterRefusal(delivered', i)
      <4>1. \A k \in DOMAIN delivered' : ~(k > i)
        BY <1>1, <2>2
      <4> QED
        BY <4>1
    <3> HIDE DEF AfterRefusal
    <3> QED
      BY <2>2, <3>1, <3>2, <3>3
  <2>3. i \in 1..n \/ i = n + 1
    BY <1>1
  <2> QED
    BY <2>1, <2>2, <2>3
<1>6. EventsInOrder'
  <2> HIDE DEF n
  <2> QED
    BY <1>1, <1>3, <1>5 DEF EventsInOrder
<1> QED
  BY <1>1, <1>2, <1>6

LEMMA ServiceStarts == ASSUME ServiceInit PROVE ServiceInv
<1> USE DEF ServiceInit
<1>1. ServiceTypes
  <2>1. /\ remaining \in Seq(Places) /\ pendingResults \in Seq(Places)
        /\ shown \in Seq(Places) /\ handedOut \in Seq(Places)
        /\ delivered \in Seq(EventType)
    OBVIOUS
  <2>2. summary \in [cancelled : BOOLEAN, errors : {"none", "invalid", "partial"},
                    limitReached : BOOLEAN, matches : Int]
    BY DEF NoSummary
  <2> QED
    BY <2>1, <2>2 DEF ServiceTypes, Before
<1>2. BatchInv
  BY DEF BatchInv
<1>3. EventsInv
  BY DEF EventsInv, EventsInOrder, Before, Afterward
<1>4. HandedOutInv
  BY DEF HandedOutInv
<1>5. SummaryInv /\ IndexUsed
  BY DEF SummaryInv, IndexUsed, Before, Afterward, IndexSearchInit
<1> QED
  BY <1>1, <1>2, <1>3, <1>4, <1>5 DEF ServiceInv

LEMMA CallBegunInv == ASSUME ServiceInv, searchWithEvents PROVE ServiceInv'
<1>1. /\ servicePhase = "idle" /\ servicePhase' = "started"
      /\ UNCHANGED <<remaining, lastOffers, offeredAgain, pendingResults, delivered,
                     shown, handedOut, cacheHits, cacheMisses, emittedResultCount,
                     abortedBySink, searchStopped, summary>>
      /\ UNCHANGED <<inDocument, nextMatch, fileMatches, indexResults, indexEnding>>
  BY DEF searchWithEvents, indexSearchVars, offering, counts
<1>2. call' \in CallType /\ batchSize' = InitialBatch(call'.batching)
  <2>1. PICK strategy \in Strategies, valid \in BOOLEAN, holdsBack \in BOOLEAN,
             o \in BatchOptions, query \in Queries, direct \in DirectAnswers,
             documents \in IndexContents :
               /\ call' = [strategy |-> strategy, valid |-> valid, holdsBack |-> holdsBack,
                           batching |-> o, query |-> query, direct |-> direct,
                           documents |-> documents]
               /\ batchSize' = InitialBatch(o)
    BY DEF searchWithEvents
  <2>2. /\ strategy \in {"direct", "indexed", "hybrid"} /\ query \in QueryType
        /\ o \in [adaptive : BOOLEAN, size : Nat, minimum : Nat, maximum : Nat]
        /\ direct \in Seq(Places) /\ documents \in Documents
    BY ServiceAssumption DEF QueryType, Documents, DocumentType, Places
  <2> QED
    BY <2>1, <2>2 DEF CallType
<1>3. ServiceTypes'
  BY <1>1, <1>2 DEF ServiceInv, ServiceTypes, Before
<1>4. pendingResults = <<>> /\ handedOut = <<>> /\ delivered = <<>>
  <2>1. handedOut = shown \o pendingResults /\ handedOut = <<>> /\ delivered = <<>>
    BY <1>1 DEF ServiceInv, HandedOutInv, EventsInv, Before
  <2>2. shown \in Seq(Places) /\ pendingResults \in Seq(Places)
    BY DEF ServiceInv, ServiceTypes
  <2>3. Len(shown \o pendingResults) = Len(shown) + Len(pendingResults)
    BY <2>2
  <2>4. Len(pendingResults) = 0
    BY <2>1, <2>2, <2>3
  <2> QED
    BY <2>1, <2>2, <2>4
<1>5. BatchInv'
  <2>1. call'.batching \in [adaptive : BOOLEAN, size : Nat, minimum : Nat, maximum : Nat]
    BY <1>2 DEF CallType
  <2>2. /\ SmallestBatch(call'.batching) \in Nat /\ 1 <= SmallestBatch(call'.batching)
        /\ batchSize' \in Nat
        /\ SmallestBatch(call'.batching) <= batchSize'
        /\ batchSize' <= LargestBatch(call'.batching)
    BY <1>2, <2>1, BatchBounds
  <2> QED
    BY <1>1, <1>4, <2>2 DEF BatchInv
<1>6. EventsInv'
  BY <1>1, <1>4 DEF ServiceInv, EventsInv, EventsInOrder, Before, Afterward
<1>7. HandedOutInv'
  BY <1>1, <1>4 DEF ServiceInv, HandedOutInv, Before
<1>8. SummaryInv' /\ IndexUsed'
  BY <1>1 DEF ServiceInv, SummaryInv, IndexUsed, Before, Afterward, IndexSearchInit
<1> QED
  BY <1>3, <1>5, <1>6, <1>7, <1>8 DEF ServiceInv

(* The summary of a call that sent "started" only. *)
LEMMA StartedInv == ASSUME ServiceInv, SendStarted PROVE ServiceInv'
<1>1. /\ servicePhase = "started"
      /\ UNCHANGED <<call, remaining, lastOffers, offeredAgain, pendingResults, batchSize,
                     handedOut, cacheHits, cacheMisses, emittedResultCount, abortedBySink,
                     searchStopped>>
      /\ UNCHANGED <<inDocument, nextMatch, fileMatches, indexResults, indexEnding>>
  BY DEF SendStarted, indexSearchVars, offering, counts
<1>2. PICK accepted \in BOOLEAN :
        /\ Send("started", <<>>, accepted)
        /\ servicePhase' = IF accepted THEN "search" ELSE "returned"
        /\ summary' = [summary EXCEPT !.cancelled = ~accepted]
  BY DEF SendStarted
<1> DEFINE e == [kind |-> "started", size |-> Len(<<>>), accepted |-> accepted]
<1>3. e \in EventType /\ e.kind = "started" /\ e.accepted = accepted
  BY DEF EventType
<1>4. delivered = <<>> /\ delivered' = Append(delivered, e) /\ shown' = shown \o <<>>
  BY <1>1, <1>2 DEF Send, ServiceInv, EventsInv
<1>5. shown' = shown /\ delivered \in Seq(EventType) /\ DOMAIN delivered = {}
  BY <1>4 DEF ServiceInv, ServiceTypes
<1>6. /\ EventsInOrder' /\ delivered' \in Seq(EventType) /\ delivered' # <<>>
      /\ DOMAIN delivered' = {1} /\ Len(delivered') = 1 /\ delivered'[1] = e
  <2> HIDE DEF e
  <2>1. EventsInOrder'
    BY <1>1, <1>3, <1>4, <1>5, EventSent DEF ServiceInv, EventsInv
  <2> QED
    BY <1>3, <1>4, <2>1
<1>7. ServiceTypes'
  BY <1>1, <1>2, <1>5, <1>6 DEF ServiceInv, ServiceTypes, Before, Afterward
<1>8. BatchInv'
  BY <1>1, <1>2 DEF ServiceInv, BatchInv
<1>9. /\ ~abortedBySink /\ handedOut = <<>> /\ cacheHits = 0 /\ cacheMisses = 0
      /\ emittedResultCount = 0 /\ offeredAgain = 0
  BY <1>1 DEF ServiceInv, EventsInv, HandedOutInv, Before
<1>10. pendingResults = <<>> /\ shown = <<>>
  <2>1. shown \in Seq(Places) /\ pendingResults \in Seq(Places)
        /\ shown \o pendingResults = <<>>
    BY <1>9 DEF ServiceInv, ServiceTypes, HandedOutInv
  <2>2. Len(shown \o pendingResults) = Len(shown) + Len(pendingResults)
    BY <2>1
  <2>3. Len(shown) = 0 /\ Len(pendingResults) = 0
    BY <2>1, <2>2
  <2> QED
    BY <2>1, <2>3
<1>11. EventsInv'
  BY <1>1, <1>2, <1>3, <1>6, <1>9, <1>10 DEF EventsInv, Terminals, Before, Afterward
<1>12. HandedOutInv'
  BY <1>1, <1>2, <1>5, <1>9 DEF ServiceInv, HandedOutInv
<1>13. summary'.cancelled = ~accepted
  BY <1>2 DEF ServiceInv, ServiceTypes
<1>14. SummaryInv' /\ IndexUsed'
  BY <1>1, <1>2, <1>13 DEF ServiceInv, SummaryInv, IndexUsed, Before, Afterward,
     IndexSearchInit
<1> QED
  BY <1>7, <1>8, <1>11, <1>12, <1>14 DEF ServiceInv

(* Until a result was handed out there is none. *)
LEMMA NothingHandedOut ==
  ASSUME ServiceInv, servicePhase \in Before \cup {"index"}
  PROVE  /\ handedOut = <<>> /\ pendingResults = <<>> /\ shown = <<>> /\ ~abortedBySink
         /\ cacheHits = 0 /\ cacheMisses = 0 /\ emittedResultCount = 0 /\ offeredAgain = 0
<1>1. /\ handedOut = <<>> /\ cacheHits = 0 /\ cacheMisses = 0 /\ ~abortedBySink
      /\ emittedResultCount = 0 /\ offeredAgain = 0
  BY DEF ServiceInv, HandedOutInv, EventsInv
<1>2. /\ shown \in Seq(Places) /\ pendingResults \in Seq(Places)
      /\ shown \o pendingResults = <<>>
  BY <1>1 DEF ServiceInv, ServiceTypes, HandedOutInv
<1>3. Len(shown \o pendingResults) = Len(shown) + Len(pendingResults)
  BY <1>2
<1>4. Len(shown) = 0 /\ Len(pendingResults) = 0
  BY <1>2, <1>3
<1> QED
  BY <1>1, <1>2, <1>4

LEMMA StrategyChosenInv == ASSUME ServiceInv, StartSearch PROVE ServiceInv'
<1>1. /\ servicePhase = "search"
      /\ UNCHANGED <<call, lastOffers, offeredAgain, pendingResults, batchSize, delivered,
                     shown, handedOut, cacheHits, cacheMisses, emittedResultCount,
                     abortedBySink, searchStopped>>
      /\ UNCHANGED <<inDocument, nextMatch, fileMatches, indexResults, indexEnding>>
  BY DEF StartSearch, indexSearchVars, offering, counts
<1>2. /\ handedOut = <<>> /\ pendingResults = <<>> /\ shown = <<>> /\ ~abortedBySink
      /\ cacheHits = 0 /\ cacheMisses = 0
  BY <1>1, NothingHandedOut DEF Before
<1>3. call \in CallType /\ IndexSearchInit
  BY <1>1 DEF ServiceInv, ServiceTypes, IndexUsed, Before
<1>4. EventsInOrder /\ EventsInOrder'
  BY <1>1 DEF ServiceInv, EventsInv, EventsInOrder
<1>5. ASSUME servicePhase' \in {"flush", "index", "results"} PROVE BatchInv' /\ EventsInv'
  BY <1>1, <1>2, <1>4, <1>5 DEF ServiceInv, BatchInv, EventsInv, Before, Afterward
<1>6. ASSUME servicePhase' \in {"flush", "index"}, remaining' = remaining
      PROVE  HandedOutInv'
  BY <1>1, <1>2, <1>6 DEF ServiceInv, HandedOutInv, Before
<1>7. CASE /\ ~call.valid /\ servicePhase' = "flush" /\ remaining' = remaining
           /\ summary' = [NoSummary EXCEPT !.errors = "invalid"]
  <2>1. /\ summary' = [cancelled |-> FALSE, errors |-> "invalid", limitReached |-> FALSE,
                       matches |-> 0]
    BY <1>7 DEF NoSummary
  <2>2. ServiceTypes'
    <3>1. summary' \in [cancelled : BOOLEAN, errors : {"none", "invalid", "partial"},
                        limitReached : BOOLEAN, matches : Int]
      BY <2>1
    <3> QED
      BY <1>1, <1>7, <3>1 DEF ServiceInv, ServiceTypes, Before, Afterward
  <2>3. SummaryInv' /\ IndexUsed'
    BY <1>1, <1>2, <1>3, <1>7, <2>1 DEF SummaryInv, IndexUsed, Before, IndexSearchInit
  <2> QED
    BY <1>5, <1>6, <1>7, <2>2, <2>3 DEF ServiceInv
<1>8. CASE /\ servicePhase' = "flush" /\ remaining' = remaining
           /\ summary' = [NoSummary EXCEPT !.cancelled = TRUE]
  <2>1. /\ summary' = [cancelled |-> TRUE, errors |-> "none", limitReached |-> FALSE,
                       matches |-> 0]
    BY <1>8 DEF NoSummary
  <2>2. ServiceTypes'
    <3>1. summary' \in [cancelled : BOOLEAN, errors : {"none", "invalid", "partial"},
                        limitReached : BOOLEAN, matches : Int]
      BY <2>1
    <3> QED
      BY <1>1, <1>8, <3>1 DEF ServiceInv, ServiceTypes, Before, Afterward
  <2>3. SummaryInv' /\ IndexUsed'
    BY <1>1, <1>2, <1>3, <1>8, <2>1 DEF SummaryInv, IndexUsed, Before, IndexSearchInit
  <2> QED
    BY <1>5, <1>6, <1>8, <2>2, <2>3 DEF ServiceInv
<1>9. CASE call.valid /\ servicePhase' = "index" /\ UNCHANGED <<remaining, summary>>
  <2>1. ServiceTypes'
    BY <1>1, <1>9 DEF ServiceInv, ServiceTypes, Before, Afterward
  <2>2. IndexedInv
    BY <1>3, IndexStarts
  <2>3. IndexedInv'
    BY <1>1, <2>2 DEF IndexedInv, PlaceInv, ResultsInv, EndingInv
  <2>4. SummaryInv' /\ IndexUsed'
    BY <1>1, <1>9, <2>3 DEF SummaryInv, IndexUsed, Before, Afterward
  <2> QED
    BY <1>5, <1>6, <1>9, <2>1, <2>4 DEF ServiceInv
<1>10. CASE /\ call.valid /\ call.strategy = "direct" /\ servicePhase' = "results"
            /\ remaining' = call.direct /\ UNCHANGED summary
  <2>1. ServiceTypes'
    BY <1>1, <1>3, <1>10 DEF ServiceInv, ServiceTypes, Before, Afterward, CallType
  <2>2. HandedOutInv'
    <3>1. call.direct \in Seq(Places) /\ Found' = call.direct
      BY <1>1, <1>3, <1>10 DEF CallType, Found
    <3>2. /\ Len(handedOut') = 0 /\ handedOut' = <<>> /\ emittedResultCount' = 0
          /\ Len(remaining') = Len(Found') /\ Len(Found') \in Nat /\ offeredAgain' = 0
          /\ \A i \in DOMAIN remaining' : i \in Nat /\ remaining'[i] = Found'[i]
      BY <1>1, <1>2, <1>10, <3>1 DEF ServiceInv, HandedOutInv, Before
    <3>3. RestInv'
      BY <3>2 DEF RestInv, Offer, OfferCount
    <3> QED
      BY <1>1, <1>2, <1>10, <3>2, <3>3 DEF ServiceInv, HandedOutInv, Before
  <2>3. SummaryInv' /\ IndexUsed'
    BY <1>1, <1>3, <1>10 DEF SummaryInv, IndexUsed, Before, Afterward, IndexSearchInit
  <2> QED
    BY <1>5, <1>10, <2>1, <2>2, <2>3 DEF ServiceInv
<1> QED
  BY <1>7, <1>8, <1>9, <1>10 DEF StartSearch, offering

(* Where only the state of the search has to be looked at. *)
LEMMA IndexSearchedInv == ASSUME ServiceInv, SearchIndex PROVE ServiceInv'
<1>1. /\ servicePhase = "index" /\ servicePhase' = servicePhase
      /\ UNCHANGED <<call, remaining, lastOffers, offeredAgain, pendingResults, batchSize,
                     delivered, shown, handedOut, cacheHits, cacheMisses,
                     emittedResultCount, abortedBySink, searchStopped, summary>>
  BY DEF SearchIndex, offering, counts
<1>2. call \in CallType /\ IndexedInv'
  BY <1>1, IndexSteps DEF ServiceInv, ServiceTypes, IndexUsed
<1>3. ServiceTypes' /\ BatchInv'
  BY <1>1 DEF ServiceInv, ServiceTypes, BatchInv
<1>4. EventsInv'
  BY <1>1 DEF ServiceInv, EventsInv, EventsInOrder
<1>5. handedOut = <<>>
  BY <1>1, NothingHandedOut
<1>6. HandedOutInv'
  BY <1>1, <1>5 DEF ServiceInv, HandedOutInv
<1>7. SummaryInv' /\ IndexUsed'
  BY <1>1, <1>2 DEF ServiceInv, SummaryInv, IndexUsed, Before, Afterward
<1> QED
  BY <1>3, <1>4, <1>6, <1>7 DEF ServiceInv

LEMMA IndexReturnedInv == ASSUME ServiceInv, IndexReturns PROVE ServiceInv'
<1>1. /\ servicePhase = "index" /\ indexEnding # "none" /\ servicePhase' = "results"
      /\ remaining' = IF call.strategy = "indexed" THEN indexResults ELSE call.direct
      /\ UNCHANGED <<call, lastOffers, offeredAgain, pendingResults, batchSize, delivered,
                     shown, handedOut, cacheHits, cacheMisses, emittedResultCount,
                     abortedBySink, searchStopped, summary>>
      /\ UNCHANGED <<inDocument, nextMatch, fileMatches, indexResults, indexEnding>>
  BY DEF IndexReturns, indexSearchVars, offering, counts
<1>2. /\ handedOut = <<>> /\ pendingResults = <<>> /\ shown = <<>> /\ ~abortedBySink
      /\ cacheHits = 0 /\ cacheMisses = 0
  BY <1>1, NothingHandedOut
<1>3. call \in CallType /\ IndexedInv /\ call.valid
  BY <1>1 DEF ServiceInv, ServiceTypes, IndexUsed
<1>4. Found \in Seq(Places) /\ remaining' = Found /\ Found' = Found
  BY <1>1, <1>3 DEF Found, CallType, IndexedInv, ResultsInv
<1>5. ServiceTypes' /\ BatchInv'
  BY <1>1, <1>4 DEF ServiceInv, ServiceTypes, BatchInv
<1>6. EventsInv'
  BY <1>1, <1>2 DEF ServiceInv, EventsInv, EventsInOrder, Before, Afterward
<1>7. HandedOutInv'
  <2>1. /\ Len(handedOut') = 0 /\ handedOut' = <<>> /\ emittedResultCount' = 0
        /\ Len(remaining') = Len(Found') /\ Len(Found') \in Nat /\ offeredAgain' = 0
        /\ \A i \in DOMAIN remaining' : i \in Nat /\ remaining'[i] = Found'[i]
    BY <1>1, <1>2, <1>4 DEF ServiceInv, HandedOutInv, Before
  <2>2. RestInv'
    BY <2>1 DEF RestInv, Offer, OfferCount
  <2> QED
    BY <1>1, <1>2, <1>3, <2>1, <2>2 DEF ServiceInv, HandedOutInv, Before
<1>8. IndexedInv'
  BY <1>1, <1>3 DEF IndexedInv, PlaceInv, ResultsInv, EndingInv
<1>9. SummaryInv' /\ IndexUsed'
  BY <1>1, <1>8 DEF SummaryInv, IndexUsed, Before, Afterward
<1> QED
  BY <1>5, <1>6, <1>7, <1>9 DEF ServiceInv

(* Whatever is added to what is pending, or sent, was handed out.          *)
LEMMA AppendedToRest ==
  ASSUME NEW S, NEW s \in Seq(S), NEW p \in Seq(S), NEW e \in S
  PROVE  Append(s \o p, e) = s \o Append(p, e) /\ s \o Append(p, e) \in Seq(S)
<1> DEFINE left == Append(s \o p, e)
           right == s \o Append(p, e)
<1>1. /\ left \in Seq(S) /\ right \in Seq(S)
      /\ Len(left) = Len(s) + Len(p) + 1 /\ Len(right) = Len(s) + Len(p) + 1
  OBVIOUS
<1>2. \A i \in 1..(Len(s) + Len(p) + 1) : left[i] = right[i]
  OBVIOUS
<1>3. left = right
  <2> HIDE DEF left, right
  <2> QED
    BY <1>1, <1>2
<1> QED
  BY <1>1, <1>3

LEMMA NothingAppended == ASSUME NEW S, NEW s \in Seq(S) PROVE s \o <<>> = s
  OBVIOUS

LEMMA OneMoreHandedOut ==
  ASSUME NEW s \in Seq(Places), NEW p \in Seq(Places), NEW e \in Places
  PROVE  /\ Append(s \o p, e) = s \o Append(p, e)
         /\ (s \o Append(p, e)) \o <<>> = s \o Append(p, e)
         /\ s \o Append(p, e) \in Seq(Places)
<1>1. Append(s \o p, e) = s \o Append(p, e) /\ s \o Append(p, e) \in Seq(Places)
  BY AppendedToRest
<1>2. \A list \in Seq(Places) : list \o <<>> = list
  BY NothingAppended
<1> QED
  BY <1>1, <1>2

LEMMA RestOfSequence ==
  ASSUME NEW S, NEW s \in Seq(S), s # <<>>
  PROVE  /\ Head(s) \in S /\ Head(s) = s[1] /\ Tail(s) \in Seq(S) /\ Len(s) > 0
         /\ Len(Tail(s)) = Len(s) - 1
         /\ \A i \in DOMAIN Tail(s) : Tail(s)[i] = s[i + 1] /\ i + 1 \in DOMAIN s
  OBVIOUS

(* The next of what is found is handed out; the rest remains, or the       *)
(* search ends, or the engine's flush hands out the same result again.     *)
LEMMA NextIsFound ==
  ASSUME ServiceInv, servicePhase = "results", remaining # <<>>,
         call' = call, indexResults' = indexResults,
         handedOut' = Append(handedOut, Head(remaining)),
         NEW accepted \in BOOLEAN, AnswerResult(accepted),
         ~accepted => searchStopped' \/ abortedBySink',
         searchStopped \/ abortedBySink => searchStopped' \/ abortedBySink'
  PROVE  /\ Head(remaining) \in Places /\ handedOut' \in Seq(Places)
         /\ remaining' \in Seq(Places) /\ offeredAgain' \in Nat /\ lastOffers' \in BOOLEAN
         /\ Len(handedOut') <= OfferCount'
         /\ \A i \in DOMAIN handedOut' : handedOut'[i] = Offer(i)'
         /\ offeredAgain' # 0 => call.holdsBack /\ (abortedBySink' \/ searchStopped')
         /\ RestInv'
         /\ Len(handedOut') = Len(handedOut) + 1
<1> DEFINE result == Head(remaining)
           n      == Len(handedOut)
<1>1. /\ handedOut \in Seq(Places) /\ remaining \in Seq(Places) /\ n \in Nat
      /\ Len(Found) \in Nat /\ offeredAgain \in Nat
  <2>1. Found \in Seq(Places)
    BY DEF ServiceInv, ServiceTypes, IndexUsed, IndexedInv, ResultsInv, CallType, Found
  <2> QED
    BY <2>1 DEF ServiceInv, ServiceTypes
<1>2. /\ result \in Places /\ result = remaining[1] /\ Tail(remaining) \in Seq(Places)
      /\ Len(remaining) > 0 /\ Len(Tail(remaining)) = Len(remaining) - 1
      /\ \A i \in DOMAIN Tail(remaining) :
           Tail(remaining)[i] = remaining[i + 1] /\ i + 1 \in DOMAIN remaining
  BY <1>1, RestOfSequence
<1>3. Found' = Found
  BY DEF Found
<1>4. /\ RestInv
      /\ \A i \in DOMAIN handedOut : handedOut[i] = Offer(i)
      /\ offeredAgain # 0 => call.holdsBack /\ (abortedBySink \/ searchStopped)
  <2>1. handedOut # <<>> => \A i \in DOMAIN handedOut : handedOut[i] = Offer(i)
    BY DEF ServiceInv, HandedOutInv
  <2>2. handedOut = <<>> => DOMAIN handedOut = {}
    OBVIOUS
  <2> QED
    BY <2>1, <2>2 DEF ServiceInv, HandedOutInv
<1>5. /\ handedOut' \in Seq(Places) /\ Len(handedOut') = n + 1
      /\ DOMAIN handedOut' = 1..(n + 1) /\ DOMAIN handedOut = 1..n
      /\ \A i \in 1..n : handedOut'[i] = handedOut[i]
      /\ handedOut'[n + 1] = result
  BY <1>1, <1>2
<1>6. DOMAIN remaining = 1..Len(remaining) /\ Len(remaining) \in Nat
  BY <1>1
<1>7. result = Offer(n + 1)
  <2>1. 1 \in DOMAIN remaining
    BY <1>2, <1>6
  <2> QED
    BY <1>2, <1>4, <2>1 DEF RestInv
<1>8. \A i \in 1..(n + 1) : handedOut'[i] = Offer(i)
  BY <1>1, <1>4, <1>5, <1>7
<1>9. n + 1 <= OfferCount /\ OfferCount \in Nat
  BY <1>1, <1>2, <1>4, <1>6 DEF RestInv, OfferCount
<1>10. ASSUME UNCHANGED <<lastOffers, offeredAgain>>
       PROVE  /\ offeredAgain' \in Nat /\ lastOffers' \in BOOLEAN
              /\ Len(handedOut') <= OfferCount'
              /\ \A i \in DOMAIN handedOut' : handedOut'[i] = Offer(i)'
              /\ offeredAgain' # 0 => call.holdsBack /\ (abortedBySink' \/ searchStopped')
              /\ OfferCount' = OfferCount /\ \A i : Offer(i)' = Offer(i)
  <2>1. OfferCount' = OfferCount /\ \A i : Offer(i)' = Offer(i)
    BY <1>3, <1>10 DEF OfferCount, Offer
  <2> QED
    BY <1>4, <1>5, <1>8, <1>9, <1>10, <2>1 DEF ServiceInv, ServiceTypes
<1>11. CASE accepted /\ remaining' = Tail(remaining) /\ UNCHANGED <<lastOffers, offeredAgain>>
  <2>1. ASSUME NEW i \in DOMAIN remaining'
        PROVE  remaining'[i] = Offer(Len(handedOut') + i)
    <3>1. remaining'[i] = remaining[i + 1] /\ i + 1 \in DOMAIN remaining /\ i \in Nat
      BY <1>2, <1>11
    <3>2. remaining[i + 1] = Offer(n + (i + 1))
      BY <1>4, <3>1 DEF RestInv
    <3>3. n + (i + 1) = Len(handedOut') + i
      BY <1>1, <1>5, <3>1
    <3> QED
      BY <3>1, <3>2, <3>3
  <2>2. Len(handedOut') + Len(remaining') = n + Len(remaining)
    BY <1>1, <1>2, <1>5, <1>6, <1>11
  <2>3. RestInv'
    BY <1>3, <1>4, <1>10, <1>11, <2>1, <2>2 DEF RestInv
  <2> QED
    BY <1>2, <1>5, <1>10, <1>11, <2>3
<1>12. CASE ~accepted /\ remaining' = <<>> /\ UNCHANGED <<lastOffers, offeredAgain>>
  <2>1. remaining' \in Seq(Places) /\ Len(remaining') = 0 /\ DOMAIN remaining' = {}
    BY <1>12
  <2>2. RestInv'
    BY <1>1, <1>4, <1>5, <1>9, <1>10, <1>12, <2>1 DEF RestInv
  <2> QED
    BY <1>2, <1>5, <1>10, <1>12, <2>1, <2>2
<1>13. ASSUME ~accepted, call.holdsBack, ~lastOffers, NEW held \in 1..Len(remaining),
              remaining' = <<Emptied>> \o SubSeq(remaining, 2, held),
              lastOffers' = TRUE, offeredAgain' = n + 2
       PROVE  /\ remaining' \in Seq(Places) /\ Len(handedOut') <= OfferCount'
              /\ \A i \in DOMAIN handedOut' : handedOut'[i] = Offer(i)'
              /\ RestInv' /\ offeredAgain' \in Nat /\ offeredAgain' # 0
  <2>1. offeredAgain = 0 /\ OfferCount = Len(Found) /\ OfferCount' = Len(Found) + 1
    BY <1>1, <1>3, <1>4, <1>13 DEF RestInv, OfferCount
  <2>2. \A i \in Nat : Offer(i) = Found[i]
    BY <2>1 DEF Offer
  <2>3. /\ \A i \in Nat : i < n + 2 => Offer(i)' = Found[i]
        /\ \A i \in Nat : i = n + 2 => Offer(i)' = Emptied
        /\ \A i \in Nat : i > n + 2 => Offer(i)' = Found[i - 1]
    BY <1>1, <1>3, <1>13 DEF Offer
  <2>4. /\ remaining' \in Seq(Places) /\ Len(remaining') = held /\ held \in Nat
        /\ remaining'[1] = Emptied
        /\ \A i \in 2..held : remaining'[i] = remaining[i] /\ i \in DOMAIN remaining
    <3>1. /\ SubSeq(remaining, 2, held) \in Seq(Places)
          /\ Len(SubSeq(remaining, 2, held)) = held - 1
          /\ \A i \in 1..(held - 1) : SubSeq(remaining, 2, held)[i] = remaining[i + 1]
      BY <1>1, <1>6
    <3>2. Emptied \in Places
      BY DEF Emptied, Places
    <3> DEFINE s == SubSeq(remaining, 2, held)
    <3> HIDE DEF s
    <3>3. /\ <<Emptied>> \o s \in Seq(Places) /\ Len(<<Emptied>> \o s) = 1 + Len(s)
          /\ (<<Emptied>> \o s)[1] = Emptied
          /\ \A i \in 2..(1 + Len(s)) : (<<Emptied>> \o s)[i] = s[i - 1]
      <4>1. s \in Seq(Places)
        BY <3>1 DEF s
      <4> QED
        BY <3>2, <4>1
    <3>4. held \in Nat /\ Len(s) = held - 1
      BY <1>6, <1>13, <3>1 DEF s
    <3>5. ASSUME NEW i \in 2..held
          PROVE  remaining'[i] = remaining[i] /\ i \in DOMAIN remaining
      <4>1. i - 1 \in 1..(held - 1) /\ i \in 2..(1 + Len(s)) /\ (i - 1) + 1 = i
        BY <3>4
      <4>2. s[i - 1] = remaining[(i - 1) + 1]
        BY <3>1, <4>1 DEF s
      <4>3. i \in DOMAIN remaining
        BY <1>6, <1>13, <3>4
      <4> QED
        BY <1>13, <3>3, <4>1, <4>2, <4>3 DEF s
    <3> QED
      BY <1>13, <3>3, <3>4, <3>5 DEF s
  <2>5. \A i \in DOMAIN handedOut' : handedOut'[i] = Offer(i)'
    BY <1>1, <1>5, <1>8, <2>2, <2>3
  <2>6. ASSUME NEW i \in 1..held, NEW j \in Nat, j = (n + 1) + i
        PROVE  remaining'[i] = Offer(j)'
    <3>1. CASE i = 1
      BY <1>1, <2>3, <2>4, <2>6, <3>1
    <3>2. CASE i \in 2..held
      <4>1. remaining'[i] = Found[n + i]
        <5>1. remaining'[i] = Offer(n + i)
          BY <1>4, <2>4, <3>2 DEF RestInv
        <5> QED
          BY <1>1, <2>2, <3>2, <5>1
      <4>2. j > n + 2 /\ j - 1 = n + i
        BY <1>1, <2>6, <3>2
      <4> QED
        BY <2>3, <4>1, <4>2
    <3>3. i = 1 \/ i \in 2..held
      BY <2>4
    <3> QED
      BY <3>1, <3>2, <3>3
  <2>7. n + held <= Len(Found)
    BY <1>1, <1>4, <1>6, <1>13, <2>1 DEF RestInv
  <2>8. RestInv'
    <3>1. DOMAIN remaining' = 1..held
      BY <2>4
    <3>2. Len(handedOut') + Len(remaining') <= OfferCount'
      BY <1>1, <1>5, <2>1, <2>4, <2>7
    <3>3. \A i \in DOMAIN remaining' : \A j \in Nat :
            j = Len(handedOut') + i => remaining'[i] = Offer(j)'
      BY <1>5, <2>6, <3>1
    <3>4. \A i \in DOMAIN remaining' : Len(handedOut') + i \in Nat
      BY <1>1, <1>5, <3>1
    <3> QED
      BY <1>13, <3>2, <3>3, <3>4 DEF RestInv
  <2> QED
    BY <1>1, <1>5, <1>9, <1>13, <2>1, <2>4, <2>5, <2>8
<1> QED
  BY <1>2, <1>5, <1>11, <1>12, <1>13 DEF AnswerResult

(* A result that the service takes is counted. *)
LEMMA ResultCounted ==
  ASSUME ServiceInv, servicePhase = "results", call' = call,
         NEW result, Count(result), Len(handedOut') = Len(handedOut) + 1,
         abortedBySink => abortedBySink'
  PROVE  /\ cacheHits' \in Nat /\ cacheMisses' \in Nat /\ emittedResultCount' \in Nat
         /\ call.strategy = "hybrid" => cacheHits' + cacheMisses' = emittedResultCount'
         /\ ~abortedBySink' => emittedResultCount' = Len(handedOut')
<1>1. /\ cacheHits \in Nat /\ cacheMisses \in Nat /\ emittedResultCount \in Nat
      /\ Len(handedOut) \in Nat
      /\ call.strategy = "hybrid" => cacheHits + cacheMisses = emittedResultCount
      /\ ~abortedBySink => emittedResultCount = Len(handedOut)
  BY DEF ServiceInv, ServiceTypes, HandedOutInv
<1> QED
  BY <1>1 DEF Count

LEMMA ResultTakenInv == ASSUME ServiceInv, Result PROVE ServiceInv'
<1> DEFINE IsNext(r) == r = Head(remaining)
<1>0. PICK result : IsNext(result)
  OBVIOUS
<1> HIDE DEF IsNext
<1> DEFINE waiting == Append(pendingResults, result)
           goesOn  == ~(call.strategy = "hybrid" /\ searchStopped)
<1>1. /\ servicePhase = "results" /\ remaining # <<>>
      /\ handedOut' = Append(handedOut, result)
      /\ UNCHANGED <<call, servicePhase, searchStopped, summary>>
      /\ UNCHANGED <<inDocument, nextMatch, fileMatches, indexResults, indexEnding>>
  BY <1>0 DEF Result, indexSearchVars, offering, counts, IsNext
<1>2. /\ call \in CallType /\ call.valid /\ abortedBySink \in BOOLEAN /\ searchStopped \in BOOLEAN
      /\ abortedBySink => call.holdsBack
      /\ shown \in Seq(Places) /\ pendingResults \in Seq(Places)
      /\ handedOut \in Seq(Places) /\ handedOut = shown \o pendingResults
      /\ delivered \in Seq(EventType) /\ EventsInOrder /\ delivered # <<>>
      /\ Len(pendingResults) < batchSize /\ batchSize \in Nat
      /\ batchSize <= LargestBatch(call.batching)
      /\ \A i \in DOMAIN delivered :
           /\ delivered[i].kind \notin Terminals
           /\ ~delivered[i].accepted => delivered[i].kind = "resultBatch" /\ abortedBySink
  BY <1>1 DEF ServiceInv, ServiceTypes, HandedOutInv, EventsInv, BatchInv, Before, Afterward
<1>3. result \in Places
  BY <1>0, <1>1, RestOfSequence DEF ServiceInv, ServiceTypes, IsNext
<1>4. /\ waiting \in Seq(Places) /\ Len(waiting) = Len(pendingResults) + 1
      /\ handedOut' = shown \o waiting /\ handedOut' = (shown \o waiting) \o <<>>
      /\ shown \o waiting \in Seq(Places) /\ Len(pendingResults) \in Nat
  <2>1. /\ Append(shown \o pendingResults, result) = shown \o waiting
        /\ shown \o waiting = (shown \o waiting) \o <<>>
        /\ shown \o waiting \in Seq(Places)
    <3>1. shown \in Seq(Places) /\ pendingResults \in Seq(Places)
      BY <1>2
    <3>2. /\ Append(shown \o pendingResults, result) = shown \o Append(pendingResults, result)
          /\ (shown \o Append(pendingResults, result)) \o <<>>
               = shown \o Append(pendingResults, result)
          /\ shown \o Append(pendingResults, result) \in Seq(Places)
      BY <1>3, <3>1, OneMoreHandedOut
    <3> QED
      BY <3>2, Zenon
  <2>2. waiting \in Seq(Places) /\ Len(waiting) = Len(pendingResults) + 1
    <3>1. pendingResults \in Seq(Places)
      BY <1>2
    <3> QED
      BY <1>3, <3>1
  <2>3. Len(pendingResults) \in Nat
    BY <1>2
  <2> HIDE DEF waiting
  <2> QED
    BY <1>1, <1>2, <2>1, <2>2, <2>3
<1>5. SummaryInv' /\ IndexUsed'
  <2>1. IndexedInv => IndexedInv'
    BY <1>1 DEF IndexedInv, PlaceInv, ResultsInv, EndingInv
  <2> QED
    BY <1>1, <2>1 DEF ServiceInv, SummaryInv, IndexUsed, Before, Afterward
<1> HIDE DEF waiting
<1>6. ASSUME NEW accepted \in BOOLEAN, AnswerResult(accepted),
             ~accepted => searchStopped' \/ abortedBySink',
             abortedBySink => abortedBySink'
      PROVE  /\ handedOut' \in Seq(Places) /\ Len(handedOut') = Len(handedOut) + 1
             /\ remaining' \in Seq(Places) /\ offeredAgain' \in Nat /\ lastOffers' \in BOOLEAN
             /\ Len(handedOut') <= OfferCount'
             /\ \A i \in DOMAIN handedOut' : handedOut'[i] = Offer(i)'
             /\ offeredAgain' # 0 => call.holdsBack /\ (abortedBySink' \/ searchStopped')
             /\ RestInv'
  <2>1. searchStopped \/ abortedBySink => searchStopped' \/ abortedBySink'
    BY <1>1, <1>6
  <2>2. handedOut' = Append(handedOut, Head(remaining))
    BY <1>0, <1>1 DEF IsNext
  <2> QED
    BY <1>1, <1>6, <2>1, <2>2, NextIsFound
<1>7. CASE /\ Len(waiting) < batchSize /\ pendingResults' = waiting
           /\ Count(result) /\ AnswerResult(goesOn)
           /\ UNCHANGED <<delivered, shown, batchSize, abortedBySink>>
  <2>1. goesOn \in BOOLEAN /\ (~goesOn => searchStopped' \/ abortedBySink')
    BY <1>1
  <2> HIDE DEF goesOn
  <2>2. /\ handedOut' \in Seq(Places) /\ Len(handedOut') = Len(handedOut) + 1
        /\ remaining' \in Seq(Places) /\ offeredAgain' \in Nat /\ lastOffers' \in BOOLEAN
        /\ Len(handedOut') <= OfferCount'
        /\ \A i \in DOMAIN handedOut' : handedOut'[i] = Offer(i)'
        /\ offeredAgain' # 0 => call.holdsBack /\ (abortedBySink' \/ searchStopped')
        /\ RestInv'
    BY <1>6, <1>7, <2>1
  <2>3. /\ cacheHits' \in Nat /\ cacheMisses' \in Nat /\ emittedResultCount' \in Nat
        /\ call.strategy = "hybrid" => cacheHits' + cacheMisses' = emittedResultCount'
        /\ ~abortedBySink' => emittedResultCount' = Len(handedOut')
    BY <1>1, <1>7, <2>2, ResultCounted
  <2>4. ServiceTypes'
    BY <1>1, <1>4, <1>7, <2>2, <2>3 DEF ServiceInv, ServiceTypes
  <2>5. BatchInv'
    BY <1>1, <1>7 DEF ServiceInv, BatchInv
  <2>6. EventsInv'
    BY <1>1, <1>2, <1>7 DEF ServiceInv, EventsInv, EventsInOrder, Before, Afterward
  <2>7. HandedOutInv'
    BY <1>1, <1>2, <1>4, <1>7, <2>2, <2>3 DEF HandedOutInv, Before
  <2> QED
    BY <1>5, <2>4, <2>5, <2>6, <2>7 DEF ServiceInv
<1>8. ASSUME Len(waiting) >= batchSize, pendingResults' = <<>>,
             NEW accepted \in BOOLEAN, Send("resultBatch", waiting, accepted),
             \E latency \in {"fast", "slow", "near the target"} :
               batchSize' = recordDeliveryLatency(latency),
             abortedBySink' = (abortedBySink \/ ~accepted),
             IF accepted THEN Count(result) ELSE UNCHANGED counts,
             AnswerResult(accepted /\ goesOn)
      PROVE  ServiceInv'
  <2> DEFINE answer == accepted /\ goesOn
  <2>1. /\ answer \in BOOLEAN /\ AnswerResult(answer)
        /\ ~answer => searchStopped' \/ abortedBySink'
        /\ abortedBySink => abortedBySink'
        /\ abortedBySink' => abortedBySink \/ ~answer
    BY <1>1, <1>8
  <2> HIDE DEF answer, goesOn
  <2>2. /\ handedOut' \in Seq(Places) /\ Len(handedOut') = Len(handedOut) + 1
        /\ remaining' \in Seq(Places) /\ offeredAgain' \in Nat /\ lastOffers' \in BOOLEAN
        /\ Len(handedOut') <= OfferCount'
        /\ \A i \in DOMAIN handedOut' : handedOut'[i] = Offer(i)'
        /\ offeredAgain' # 0 => call.holdsBack /\ (abortedBySink' \/ searchStopped')
        /\ RestInv'
    BY <1>6, <2>1
  <2>3. /\ cacheHits' \in Nat /\ cacheMisses' \in Nat /\ emittedResultCount' \in Nat
        /\ call.strategy = "hybrid" => cacheHits' + cacheMisses' = emittedResultCount'
        /\ ~abortedBySink' => emittedResultCount' = Len(handedOut')
    <3>1. CASE accepted
      BY <1>1, <1>8, <2>1, <2>2, <3>1, ResultCounted
    <3>2. CASE ~accepted
      <4>1. UNCHANGED <<emittedResultCount, cacheHits, cacheMisses>> /\ abortedBySink'
        BY <1>8, <3>2 DEF counts
      <4>2. /\ cacheHits \in Nat /\ cacheMisses \in Nat /\ emittedResultCount \in Nat
            /\ call.strategy = "hybrid" => cacheHits + cacheMisses = emittedResultCount
        BY <1>1 DEF ServiceInv, ServiceTypes, HandedOutInv
      <4> QED
        BY <4>1, <4>2
    <3> QED
      BY <3>1, <3>2
  <2> DEFINE e == [kind |-> "resultBatch", size |-> Len(waiting), accepted |-> accepted]
  <2>4. /\ delivered' = Append(delivered, e) /\ shown' = shown \o waiting
        /\ e.kind = "resultBatch" /\ e.accepted = accepted /\ e.size = Len(waiting)
        /\ e \in EventType
    <3>1. Len(waiting) \in Nat
      BY <1>4
    <3>2. e \in EventType
      BY <1>8, <3>1 DEF EventType
    <3> QED
      BY <1>8, <3>2 DEF Send
  <2> HIDE DEF e
  <2>5. e.size \in 1..LargestBatch(call.batching)
    <3>1. LargestBatch(call.batching) \in Nat
      BY <1>2, BatchBounds DEF CallType
    <3> QED
      BY <1>2, <1>4, <2>4, <3>1
  <2>6. /\ EventsInOrder' /\ delivered' \in Seq(EventType) /\ delivered' # <<>>
        /\ DOMAIN delivered' = DOMAIN delivered \cup {Len(delivered')}
        /\ \A i \in DOMAIN delivered : delivered'[i] = delivered[i] /\ i < Len(delivered')
        /\ delivered'[Len(delivered')] = e
    BY <1>1, <1>2, <2>4, <2>5, EventSent
  <2>7. \A i \in DOMAIN delivered' :
          /\ delivered'[i].kind \notin Terminals
          /\ ~delivered'[i].accepted => delivered'[i].kind = "resultBatch" /\ abortedBySink'
    BY <1>2, <1>8, <2>4, <2>6 DEF Terminals
  <2>8. ServiceTypes'
    <3>1. pendingResults' \in Seq(Places)
      <4>1. <<>> \in Seq(Places)
        OBVIOUS
      <4> QED
        BY <1>8, <4>1
    <3>2. abortedBySink' \in BOOLEAN
      BY <1>8
    <3>3. shown' \in Seq(Places)
      BY <1>4, <2>4
    <3> QED
      BY <1>1, <2>2, <2>3, <2>6, <3>1, <3>2, <3>3 DEF ServiceInv, ServiceTypes
  <2>9. BatchInv'
    <3>1. /\ batchSize' \in Nat /\ 1 <= batchSize'
          /\ SmallestBatch(call.batching) <= batchSize'
          /\ batchSize' <= LargestBatch(call.batching)
      BY <1>1, <1>2, <1>8, BatchAdapts DEF ServiceInv
    <3>2. Len(pendingResults') = 0
      BY <1>8
    <3>3. Len(pendingResults') < batchSize'
      BY <3>1, <3>2
    <3> QED
      BY <1>1, <3>1, <3>3 DEF BatchInv
  <2>10. abortedBySink' /\ ~call.holdsBack => remaining' = <<>>
    BY <1>2, <2>1 DEF AnswerResult
  <2>11. EventsInv'
    BY <1>1, <1>8, <2>6, <2>7, <2>10 DEF EventsInv, Before, Afterward
  <2>12. HandedOutInv'
    BY <1>1, <1>2, <1>4, <1>8, <2>2, <2>3, <2>4 DEF HandedOutInv, Before
  <2> QED
    BY <1>5, <2>8, <2>9, <2>11, <2>12 DEF ServiceInv
<1> QED
  BY <1>0, <1>7, <1>8 DEF Result, waiting, IsNext

LEMMA StopSeenInv == ASSUME ServiceInv, StopSeen PROVE ServiceInv'
<1>1. /\ servicePhase = "results" /\ searchStopped /\ ~lastOffers /\ lastOffers' = TRUE
      /\ UNCHANGED <<call, offeredAgain, servicePhase, pendingResults,
                     batchSize, delivered, shown, handedOut, cacheHits, cacheMisses,
                     emittedResultCount, abortedBySink, searchStopped, summary>>
      /\ UNCHANGED <<inDocument, nextMatch, fileMatches, indexResults, indexEnding>>
  BY DEF StopSeen, indexSearchVars, offering, counts
<1>2. PICK held \in 0..Len(remaining) :
        /\ remaining' = SubSeq(remaining, 1, held)
        /\ ~call.holdsBack => held = 0
  <2>1. Len(remaining) \in Nat
    BY DEF ServiceInv, ServiceTypes
  <2> QED
    BY <2>1 DEF StopSeen
<1>3. /\ remaining \in Seq(Places) /\ remaining' \in Seq(Places) /\ Len(remaining') = held
      /\ held \in Nat /\ held <= Len(remaining) /\ Len(remaining) \in Nat
      /\ \A i \in DOMAIN remaining' : i \in DOMAIN remaining /\ remaining'[i] = remaining[i]
  <2>1. remaining \in Seq(Places)
    BY DEF ServiceInv, ServiceTypes
  <2> QED
    BY <1>2, <2>1
<1>4. remaining' = <<>> \/ call.holdsBack
  BY <1>2, <1>3
<1>5. ServiceTypes' /\ BatchInv'
  BY <1>1, <1>3 DEF ServiceInv, ServiceTypes, BatchInv
<1>6. EventsInv'
  BY <1>1, <1>4 DEF ServiceInv, EventsInv, EventsInOrder
<1>7. /\ Found' = Found /\ OfferCount' = OfferCount
      /\ \A i : Offer(i)' = Offer(i)
  BY <1>1 DEF Found, OfferCount, Offer
<1>8. RestInv'
  <2>1. RestInv /\ Len(handedOut) \in Nat /\ OfferCount \in Nat
    <3>1. Found \in Seq(Places)
      BY <1>1 DEF ServiceInv, ServiceTypes, IndexUsed, IndexedInv, ResultsInv, CallType,
         Found, Before
    <3> QED
      BY <1>1, <3>1 DEF ServiceInv, ServiceTypes, HandedOutInv, OfferCount
  <2>2. ASSUME NEW i \in DOMAIN remaining'
        PROVE  remaining'[i] = Offer(Len(handedOut) + i)
    BY <1>3, <2>1 DEF RestInv
  <2>3. Len(handedOut) + Len(remaining') <= OfferCount
    BY <1>3, <2>1 DEF RestInv
  <2> QED
    BY <1>1, <1>7, <2>2, <2>3 DEF RestInv
<1>9. HandedOutInv'
  BY <1>1, <1>7, <1>8 DEF ServiceInv, HandedOutInv
<1>10. IndexedInv => IndexedInv'
  BY <1>1 DEF IndexedInv, PlaceInv, ResultsInv, EndingInv
<1>11. SummaryInv' /\ IndexUsed'
  BY <1>1, <1>10 DEF ServiceInv, SummaryInv, IndexUsed, Before, Afterward
<1> QED
  BY <1>5, <1>6, <1>9, <1>11 DEF ServiceInv

LEMMA SearchReturnedInv == ASSUME ServiceInv, SearchReturns PROVE ServiceInv'
<1>1. /\ servicePhase = "results" /\ remaining = <<>> /\ servicePhase' = "flush"
      /\ UNCHANGED <<call, remaining, lastOffers, offeredAgain, pendingResults, batchSize,
                     delivered, shown, handedOut, cacheHits, cacheMisses,
                     emittedResultCount, abortedBySink, searchStopped>>
      /\ UNCHANGED <<inDocument, nextMatch, fileMatches, indexResults, indexEnding>>
  BY DEF SearchReturns, indexSearchVars, offering, counts
<1>2. PICK errors \in {"none", "partial"}, limitReached \in BOOLEAN :
        /\ summary' = [cancelled |-> searchStopped \/ abortedBySink, errors |-> errors,
                       matches |-> emittedResultCount, limitReached |-> limitReached]
        /\ call.strategy = "indexed" /\ indexEnding = "limit" => limitReached
  <2>1. PICK errors \in IF call.strategy = "indexed" THEN {"none"} ELSE {"none", "partial"},
             limit \in IF call.strategy = "indexed" THEN {indexEnding = "limit"} ELSE BOOLEAN :
          summary' = [cancelled |-> searchStopped \/ abortedBySink, errors |-> errors,
                      matches |-> emittedResultCount,
                      limitReached |-> limit \/ (/\ call.strategy = "hybrid"
                                                 /\ emittedResultCount >= call.query.resultLimit)]
    BY DEF SearchReturns
  <2>2. errors \in {"none", "partial"}
    BY <2>1
  <2>3. call.strategy = "indexed" => limit = (indexEnding = "limit")
    BY <2>1
  <2> DEFINE limitReached == limit \/ (/\ call.strategy = "hybrid"
                                       /\ emittedResultCount >= call.query.resultLimit)
  <2>4. limitReached \in BOOLEAN
    OBVIOUS
  <2>5. call.strategy = "indexed" /\ indexEnding = "limit" => limitReached
    BY <2>3
  <2> QED
    BY <2>1, <2>2, <2>4, <2>5
<1>3. /\ summary'.cancelled = (searchStopped \/ abortedBySink) /\ summary'.errors = errors
      /\ summary'.matches = emittedResultCount /\ summary'.limitReached = limitReached
  BY <1>2
<1>4. emittedResultCount \in Int
  BY DEF ServiceInv, ServiceTypes
<1>5. ServiceTypes' /\ BatchInv'
  <2>1. (searchStopped \/ abortedBySink) \in BOOLEAN
    BY DEF ServiceInv, ServiceTypes
  <2>2. summary' \in [cancelled : BOOLEAN, errors : {"none", "invalid", "partial"},
                      limitReached : BOOLEAN, matches : Int]
    BY <1>2, <1>4, <2>1
  <2> QED
    BY <1>1, <2>2 DEF ServiceInv, ServiceTypes, BatchInv, Afterward
<1>6. EventsInv'
  BY <1>1, <1>3 DEF ServiceInv, EventsInv, EventsInOrder, Before, Afterward
<1>7. HandedOutInv'
  <2>1. /\ OfferCount' = OfferCount /\ \A i : Offer(i)' = Offer(i)
    BY <1>1 DEF Found, OfferCount, Offer
  <2> QED
    BY <1>1, <2>1 DEF ServiceInv, HandedOutInv, Before
<1>8. IndexedInv => IndexedInv'
  BY <1>1 DEF IndexedInv, PlaceInv, ResultsInv, EndingInv
<1>9. IndexUsed'
  BY <1>1, <1>8 DEF ServiceInv, IndexUsed, Before
<1>10. SummaryInv'
  <2> SUFFICES ASSUME ~summary'.cancelled
               PROVE  /\ ~call.valid => FALSE
                      /\ summary'.errors # "invalid" /\ Len(handedOut) = Len(Found)
                      /\ offeredAgain = 0 /\ summary'.matches = Len(handedOut)
                      /\ call.strategy = "hybrid" => cacheHits + cacheMisses = summary'.matches
                      /\ call.strategy = "indexed" =>
                           /\ indexEnding \notin {"none", "stopped"}
                           /\ indexEnding = "limit" => summary'.limitReached
    BY <1>1 DEF SummaryInv, Found
  <2>1. ~searchStopped /\ ~abortedBySink
    BY <1>3
  <2>2. /\ call.valid /\ Len(handedOut) + Len(remaining) = Len(Found)
        /\ call.strategy = "hybrid" => cacheHits + cacheMisses = summary'.matches
        /\ offeredAgain = 0 /\ summary'.matches = Len(handedOut)
    BY <1>1, <1>3, <2>1 DEF ServiceInv, HandedOutInv, RestInv
  <2>3. Len(remaining) = 0 /\ Len(handedOut) \in Nat
    BY <1>1 DEF ServiceInv, ServiceTypes
  <2>4. Len(handedOut) = Len(Found)
    BY <2>2, <2>3
  <2>5. call.strategy = "indexed" => indexEnding \notin {"none", "stopped"}
    BY <1>1, <2>1 DEF ServiceInv, IndexUsed, IndexedInv, EndingInv
  <2>6. summary'.errors # "invalid"
    BY <1>2, <1>3
  <2> QED
    BY <1>2, <1>3, <2>2, <2>4, <2>5, <2>6
<1> QED
  BY <1>5, <1>6, <1>7, <1>9, <1>10 DEF ServiceInv

LEMMA EngineThrewInv == ASSUME ServiceInv, EngineThrows PROVE ServiceInv'
<1>1. /\ servicePhase = "results" /\ servicePhase' = "threw"
      /\ UNCHANGED <<call, remaining, lastOffers, offeredAgain, pendingResults, batchSize,
                     delivered, shown, handedOut, cacheHits, cacheMisses,
                     emittedResultCount, abortedBySink, searchStopped, summary>>
      /\ UNCHANGED <<inDocument, nextMatch, fileMatches, indexResults, indexEnding>>
  BY DEF EngineThrows, indexSearchVars, offering, counts
<1>2. ServiceTypes' /\ BatchInv'
  BY <1>1 DEF ServiceInv, ServiceTypes, BatchInv
<1>3. EventsInv'
  BY <1>1 DEF ServiceInv, EventsInv, EventsInOrder, Before, Afterward
<1>4. HandedOutInv'
  <2>1. /\ OfferCount' = OfferCount /\ \A i : Offer(i)' = Offer(i)
    BY <1>1 DEF Found, OfferCount, Offer
  <2> QED
    BY <1>1, <2>1 DEF ServiceInv, HandedOutInv, Before
<1>5. IndexedInv => IndexedInv'
  BY <1>1 DEF IndexedInv, PlaceInv, ResultsInv, EndingInv
<1>6. SummaryInv' /\ IndexUsed'
  BY <1>1, <1>5 DEF ServiceInv, SummaryInv, IndexUsed, Before, Afterward
<1> QED
  BY <1>2, <1>3, <1>4, <1>6 DEF ServiceInv

LEMMA BatchFlushedInv == ASSUME ServiceInv, FlushBatch PROVE ServiceInv'
<1>1. /\ servicePhase = "flush" /\ servicePhase' = "terminal" /\ pendingResults' = <<>>
      /\ UNCHANGED <<call, remaining, lastOffers, offeredAgain, batchSize, handedOut,
                     cacheHits, cacheMisses, emittedResultCount, searchStopped>>
      /\ UNCHANGED <<inDocument, nextMatch, fileMatches, indexResults, indexEnding>>
  BY DEF FlushBatch, indexSearchVars, offering, counts
<1>2. PICK accepted \in BOOLEAN :
        /\ pendingResults = <<>> => accepted /\ UNCHANGED <<delivered, shown>>
        /\ pendingResults # <<>> => Send("resultBatch", pendingResults, accepted)
        /\ abortedBySink' = (abortedBySink \/ ~accepted)
        /\ summary' = [summary EXCEPT !.cancelled = @ \/ abortedBySink']
  <2>1. PICK accepted \in IF pendingResults = <<>> THEN {TRUE} ELSE BOOLEAN :
          /\ IF pendingResults = <<>> THEN UNCHANGED <<delivered, shown>>
             ELSE Send("resultBatch", pendingResults, accepted)
          /\ abortedBySink' = (abortedBySink \/ ~accepted)
          /\ summary' = [summary EXCEPT !.cancelled = @ \/ abortedBySink']
    BY DEF FlushBatch
  <2>2. accepted \in BOOLEAN /\ (pendingResults = <<>> => accepted)
    BY <2>1
  <2> QED
    BY <2>1, <2>2
<1>3. /\ call \in CallType /\ abortedBySink \in BOOLEAN
      /\ shown \in Seq(Places) /\ pendingResults \in Seq(Places)
      /\ handedOut = shown \o pendingResults
      /\ delivered \in Seq(EventType) /\ EventsInOrder /\ delivered # <<>>
      /\ Len(pendingResults) < batchSize /\ batchSize \in Nat
      /\ batchSize <= LargestBatch(call.batching)
      /\ abortedBySink => (pendingResults = <<>> \/ call.holdsBack) /\ summary.cancelled
      /\ \A i \in DOMAIN delivered :
           /\ delivered[i].kind \notin Terminals
           /\ ~delivered[i].accepted => delivered[i].kind = "resultBatch" /\ abortedBySink
  BY <1>1 DEF ServiceInv, ServiceTypes, HandedOutInv, EventsInv, BatchInv, Before, Afterward
<1>4. /\ summary' \in [cancelled : BOOLEAN, errors : {"none", "invalid", "partial"},
                       limitReached : BOOLEAN, matches : Int]
      /\ summary'.cancelled = (summary.cancelled \/ abortedBySink')
      /\ summary'.errors = summary.errors /\ summary'.matches = summary.matches
      /\ summary'.limitReached = summary.limitReached
  <2>1. summary \in [cancelled : BOOLEAN, errors : {"none", "invalid", "partial"},
                     limitReached : BOOLEAN, matches : Int]
    BY DEF ServiceInv, ServiceTypes
  <2>2. (summary.cancelled \/ abortedBySink') \in BOOLEAN
    OBVIOUS
  <2> QED
    BY <1>2, <2>1, <2>2
<1>5. /\ EventsInOrder' /\ delivered' \in Seq(EventType) /\ delivered' # <<>>
      /\ shown' = shown \o pendingResults /\ shown' \in Seq(Places)
      /\ \A i \in DOMAIN delivered' :
           /\ delivered'[i].kind \notin Terminals
           /\ ~delivered'[i].accepted => delivered'[i].kind = "resultBatch" /\ abortedBySink'
  <2>1. CASE pendingResults = <<>>
    <3>1. UNCHANGED <<delivered, shown>>
      BY <1>2, <2>1
    <3>2. shown \o pendingResults = shown
      BY <1>3, <2>1, NothingAppended
    <3>3. abortedBySink => abortedBySink'
      BY <1>2
    <3>4. EventsInOrder'
      BY <1>1, <1>3, <3>1 DEF EventsInOrder
    <3> QED
      BY <1>3, <3>1, <3>2, <3>3, <3>4
  <2>2. CASE pendingResults # <<>>
    <3> DEFINE e == [kind |-> "resultBatch", size |-> Len(pendingResults),
                     accepted |-> accepted]
    <3>1. /\ abortedBySink => call.holdsBack
          /\ abortedBySink' = (abortedBySink \/ ~accepted)
      BY <1>2, <1>3, <2>2
    <3>2. Len(pendingResults) \in Nat /\ Len(pendingResults) > 0
      BY <1>3, <2>2
    <3>3. e \in EventType /\ e.kind = "resultBatch" /\ e.size = Len(pendingResults)
          /\ e.accepted = accepted
      BY <3>2 DEF EventType
    <3>4. delivered' = Append(delivered, e) /\ shown' = shown \o pendingResults
      BY <1>2, <2>2 DEF Send
    <3> HIDE DEF e
    <3>5. e.size \in 1..LargestBatch(call.batching)
      <4>1. LargestBatch(call.batching) \in Nat
        BY <1>3, BatchBounds DEF CallType
      <4> QED
        BY <1>3, <3>2, <3>3, <4>1
    <3>6. \A i \in DOMAIN delivered :
            /\ delivered[i].kind \notin Terminals
            /\ ~delivered[i].accepted => delivered[i].kind = "resultBatch" /\ call.holdsBack
      BY <1>3, <3>1
    <3>7. /\ EventsInOrder' /\ delivered' \in Seq(EventType) /\ delivered' # <<>>
          /\ DOMAIN delivered' = DOMAIN delivered \cup {Len(delivered')}
          /\ \A i \in DOMAIN delivered : delivered'[i] = delivered[i] /\ i < Len(delivered')
          /\ delivered'[Len(delivered')] = e
      BY <1>1, <1>3, <3>3, <3>4, <3>5, <3>6, EventSent
    <3>8. \A i \in DOMAIN delivered' :
            /\ delivered'[i].kind \notin Terminals
            /\ ~delivered'[i].accepted => delivered'[i].kind = "resultBatch" /\ abortedBySink'
      BY <1>3, <3>1, <3>3, <3>7 DEF Terminals
    <3>9. shown \o pendingResults \in Seq(Places)
      BY <1>3
    <3> QED
      BY <3>4, <3>7, <3>8, <3>9
  <2> QED
    BY <2>1, <2>2
<1>6. <<>> \in Seq(Places) /\ Len(<<>>) = 0
  OBVIOUS
<1>7. ServiceTypes'
  <2>1. abortedBySink' \in BOOLEAN
    BY <1>2
  <2> QED
    BY <1>1, <1>4, <1>5, <1>6, <2>1 DEF ServiceInv, ServiceTypes, Afterward
<1>8. BatchInv'
  <2>1. Len(pendingResults') < batchSize
    <3>1. Len(pendingResults) \in Nat
      BY <1>3
    <3>2. \A a, b \in Nat : a < b => 0 < b
      OBVIOUS
    <3> QED
      BY <1>1, <1>3, <1>6, <3>1, <3>2
  <2> QED
    BY <1>1, <2>1 DEF ServiceInv, BatchInv
<1>9. EventsInv'
  BY <1>1, <1>4, <1>5 DEF EventsInv, Before, Afterward
<1>10. HandedOutInv'
  <2>1. handedOut' = shown' \o pendingResults'
    BY <1>1, <1>3, <1>5, NothingAppended
  <2>2. /\ OfferCount' = OfferCount /\ \A i : Offer(i)' = Offer(i)
    BY <1>1 DEF Found, OfferCount, Offer
  <2> QED
    BY <1>1, <1>2, <2>1, <2>2 DEF ServiceInv, HandedOutInv, Before
<1>11. IndexedInv => IndexedInv'
  BY <1>1 DEF IndexedInv, PlaceInv, ResultsInv, EndingInv
<1>12. SummaryInv' /\ IndexUsed'
  BY <1>1, <1>4, <1>11 DEF ServiceInv, SummaryInv, IndexUsed, Found, Before, Afterward
<1> QED
  BY <1>7, <1>8, <1>9, <1>10, <1>12 DEF ServiceInv

LEMMA TerminalSentInv == ASSUME ServiceInv, SendTerminal PROVE ServiceInv'
<1>1. /\ servicePhase = "terminal" /\ servicePhase' = "returned"
      /\ UNCHANGED <<call, remaining, lastOffers, offeredAgain, pendingResults, batchSize,
                     handedOut, cacheHits, cacheMisses, emittedResultCount, abortedBySink,
                     searchStopped>>
      /\ UNCHANGED <<inDocument, nextMatch, fileMatches, indexResults, indexEnding>>
  BY DEF SendTerminal, indexSearchVars, offering, counts
<1>2. PICK accepted \in BOOLEAN :
        /\ Send(completionEventKind, <<>>, accepted)
        /\ summary' = [summary EXCEPT !.cancelled = @ \/ ~accepted]
  BY DEF SendTerminal
<1>3. /\ call \in CallType /\ abortedBySink \in BOOLEAN
      /\ shown \in Seq(Places) /\ pendingResults = <<>>
      /\ handedOut = shown \o pendingResults
      /\ delivered \in Seq(EventType) /\ EventsInOrder /\ delivered # <<>>
      /\ abortedBySink => summary.cancelled
      /\ \A i \in DOMAIN delivered :
           /\ delivered[i].kind \notin Terminals
           /\ ~delivered[i].accepted => delivered[i].kind = "resultBatch" /\ abortedBySink
  BY <1>1 DEF ServiceInv, ServiceTypes, HandedOutInv, EventsInv, Before, Afterward
<1>4. /\ summary' \in [cancelled : BOOLEAN, errors : {"none", "invalid", "partial"},
                       limitReached : BOOLEAN, matches : Int]
      /\ summary'.cancelled = (summary.cancelled \/ ~accepted)
      /\ summary'.errors = summary.errors /\ summary'.matches = summary.matches
      /\ summary'.limitReached = summary.limitReached
  <2>1. summary \in [cancelled : BOOLEAN, errors : {"none", "invalid", "partial"},
                     limitReached : BOOLEAN, matches : Int]
    BY DEF ServiceInv, ServiceTypes
  <2>2. (summary.cancelled \/ ~accepted) \in BOOLEAN
    OBVIOUS
  <2> QED
    BY <1>2, <2>1, <2>2
<1> DEFINE e == [kind |-> completionEventKind, size |-> Len(<<>>), accepted |-> accepted]
<1>5. /\ completionEventKind \in Terminals
      /\ summary.cancelled => completionEventKind = "cancelled"
      /\ ~summary.cancelled =>
           completionEventKind = IF summary.errors = "invalid" THEN "failed" ELSE "completed"
  BY DEF completionEventKind, Terminals
<1>6. /\ e \in EventType /\ e.kind = completionEventKind /\ e.accepted = accepted
      /\ e.kind # "started" /\ e.kind # "resultBatch"
  <2>1. Len(<<>>) \in Nat
    OBVIOUS
  <2> QED
    BY <1>5, <2>1 DEF EventType, Terminals
<1>7. delivered' = Append(delivered, e) /\ shown' = shown \o <<>>
  BY <1>2 DEF Send
<1>8. shown' = shown
  BY <1>3, <1>7, NothingAppended
<1> HIDE DEF e
<1>9. /\ EventsInOrder' /\ delivered' \in Seq(EventType) /\ delivered' # <<>>
      /\ delivered'[Len(delivered')] = e
  BY <1>1, <1>3, <1>5, <1>6, <1>7, EventSent
<1>10. ServiceTypes'
  BY <1>1, <1>4, <1>8, <1>9 DEF ServiceInv, ServiceTypes, Afterward
<1>11. BatchInv'
  BY <1>1 DEF ServiceInv, BatchInv
<1>12. EventsInv'
  BY <1>1, <1>3, <1>4, <1>9 DEF EventsInv, Before, Afterward
<1>13. HandedOutInv'
  <2>1. /\ OfferCount' = OfferCount /\ \A i : Offer(i)' = Offer(i)
    BY <1>1 DEF Found, OfferCount, Offer
  <2> QED
    BY <1>1, <1>8, <2>1 DEF ServiceInv, HandedOutInv, Before
<1>14. IndexedInv => IndexedInv'
  BY <1>1 DEF IndexedInv, PlaceInv, ResultsInv, EndingInv
<1>15. IndexUsed'
  BY <1>1, <1>14 DEF ServiceInv, IndexUsed, Before
<1>16. SummaryInv'
  <2> SUFFICES ASSUME ~summary'.cancelled PROVE SummaryInv'
    BY DEF SummaryInv
  <2>1. ~summary.cancelled
    BY <1>4
  <2>2. /\ ~call.valid => summary.errors = "invalid" /\ handedOut = <<>>
        /\ call.valid  => /\ summary.errors # "invalid" /\ Len(handedOut) = Len(Found)
                          /\ offeredAgain = 0 /\ summary.matches = Len(handedOut)
        /\ call.strategy = "hybrid" => cacheHits + cacheMisses = summary.matches
        /\ call.valid /\ call.strategy = "indexed" =>
             /\ indexEnding \notin {"none", "stopped"}
             /\ indexEnding = "limit" => summary.limitReached
    BY <1>1, <2>1 DEF ServiceInv, SummaryInv, Afterward
  <2>3. delivered'[Len(delivered')].kind = IF call.valid THEN "completed" ELSE "failed"
    BY <1>5, <1>6, <1>9, <2>1, <2>2
  <2> QED
    BY <1>1, <1>4, <2>2, <2>3 DEF SummaryInv, Found
<1> QED
  BY <1>10, <1>11, <1>12, <1>13, <1>15, <1>16 DEF ServiceInv

LEMMA StopRequestedInv == ASSUME ServiceInv, StopRequested PROVE ServiceInv'
<1>1. /\ servicePhase \in {"started", "search", "index", "results"} /\ searchStopped' = TRUE
      /\ UNCHANGED <<call, servicePhase, remaining, lastOffers, offeredAgain,
                     pendingResults, batchSize, delivered, shown, handedOut, cacheHits,
                     cacheMisses, emittedResultCount, abortedBySink, summary>>
      /\ UNCHANGED <<inDocument, nextMatch, fileMatches, indexResults, indexEnding>>
  BY DEF StopRequested, indexSearchVars, offering, counts
<1>2. ServiceTypes' /\ BatchInv'
  BY <1>1 DEF ServiceInv, ServiceTypes, BatchInv
<1>3. EventsInv'
  BY <1>1 DEF ServiceInv, EventsInv, EventsInOrder
<1>4. HandedOutInv'
  <2>1. /\ Found' = Found /\ OfferCount' = OfferCount /\ \A i : Offer(i)' = Offer(i)
    BY <1>1 DEF Found, OfferCount, Offer
  <2>2. RestInv => RestInv'
    BY <1>1, <2>1 DEF RestInv
  <2> QED
    BY <1>1, <2>1, <2>2 DEF ServiceInv, HandedOutInv
<1>5. IndexedInv => IndexedInv'
  BY <1>1 DEF IndexedInv, PlaceInv, ResultsInv, EndingInv
<1>6. SummaryInv' /\ IndexUsed'
  BY <1>1, <1>5 DEF ServiceInv, SummaryInv, IndexUsed, IndexSearchInit, Before, Afterward
<1> QED
  BY <1>2, <1>3, <1>4, <1>6 DEF ServiceInv

LEMMA ServiceStep == ServiceInv /\ [ServiceNext]_serviceVars => ServiceInv'
<1> SUFFICES ASSUME ServiceInv, [ServiceNext]_serviceVars PROVE ServiceInv'
  OBVIOUS
<1>1. CASE UNCHANGED serviceVars
  <2>1. /\ UNCHANGED <<call, servicePhase, remaining, lastOffers, offeredAgain,
                       pendingResults, batchSize, delivered, shown, handedOut, cacheHits,
                       cacheMisses, emittedResultCount, abortedBySink, searchStopped,
                       summary>>
        /\ UNCHANGED <<inDocument, nextMatch, fileMatches, indexResults, indexEnding>>
    BY <1>1 DEF serviceVars, indexSearchVars, offering, counts
  <2>2. ServiceTypes' /\ BatchInv'
    BY <2>1 DEF ServiceInv, ServiceTypes, BatchInv
  <2>3. EventsInv'
    BY <2>1 DEF ServiceInv, EventsInv, EventsInOrder
  <2>4. HandedOutInv'
    <3>1. /\ Found' = Found /\ OfferCount' = OfferCount /\ \A i : Offer(i)' = Offer(i)
      BY <2>1 DEF Found, OfferCount, Offer
    <3>2. RestInv => RestInv'
      BY <2>1, <3>1 DEF RestInv
    <3> QED
      BY <2>1, <3>1, <3>2 DEF ServiceInv, HandedOutInv
  <2>5. IndexedInv => IndexedInv'
    BY <2>1 DEF IndexedInv, PlaceInv, ResultsInv, EndingInv
  <2>6. SummaryInv' /\ IndexUsed'
    BY <2>1, <2>5 DEF ServiceInv, SummaryInv, IndexUsed, IndexSearchInit, Found
  <2> QED
    BY <2>2, <2>3, <2>4, <2>6 DEF ServiceInv
<1>2. CASE ServiceNext
  BY <1>2, CallBegunInv, StartedInv, StrategyChosenInv, IndexSearchedInv, IndexReturnedInv,
     ResultTakenInv, StopSeenInv, SearchReturnedInv, EngineThrewInv, BatchFlushedInv,
     TerminalSentInv, StopRequestedInv
  DEF ServiceNext
<1> QED
  BY <1>1, <1>2

(* What the index answered is the first part of its answer. *)
LEMMA AnswerBegins ==
  ASSUME call \in CallType, PlaceInv, ResultsInv
  PROVE  Begins(indexResults, IndexAnswer(call.documents, call.query))
<1> DEFINE answer == IndexAnswer(call.documents, call.query)
<1>1. Elements(indexResults) = {r \in answer : Earlier(r, <<inDocument, nextMatch>>)}
  BY DEF ResultsInv, AnswersBefore
<1>2. \A i, j \in DOMAIN indexResults : i < j => Earlier(indexResults[i], indexResults[j])
  BY DEF ResultsInv
<1>3. Elements(indexResults) \subseteq answer
  BY <1>1
<1>4. ASSUME NEW i \in DOMAIN indexResults, NEW r \in answer, Earlier(r, indexResults[i])
      PROVE  r \in Elements(indexResults)
  <2> DEFINE s == indexResults[i]
  <2>1. s \in answer /\ Earlier(s, <<inDocument, nextMatch>>)
    BY <1>1 DEF Elements
  <2>2. /\ call.documents \in Documents /\ call.query.perFileResultLimit \in Nat
        /\ DOMAIN call.documents = 1..Len(call.documents) /\ Len(call.documents) \in Nat
    BY DEF CallType, QueryType, Documents
  <2>3. \A a \in answer : a[1] \in Nat /\ a[2] \in Nat
    BY <2>2 DEF IndexAnswer
  <2>4. inDocument \in Nat /\ nextMatch \in Nat
    BY <2>2 DEF PlaceInv
  <2>5. Earlier(r, s)
    BY <1>4
  <2> HIDE DEF answer, s
  <2>6. Earlier(r, <<inDocument, nextMatch>>)
    BY <2>1, <2>3, <2>4, <2>5 DEF Earlier
  <2> QED
    BY <1>1, <2>6
<1> QED
  BY <1>2, <1>3, <1>4 DEF Begins

LEMMA SameList ==
  ASSUME NEW a \in Seq(Places), NEW b \in Seq(Places), Len(a) = Len(b),
         \A i \in DOMAIN a : a[i] = b[i]
  PROVE  a = b
  OBVIOUS

(* What searchWithEvents tells its consumer is what the search did: the    *)
(* events in their order, the results in theirs, each once and the first   *)
(* of those that are found, whatever the sizes of the batches of           *)
(* AdaptiveResultBatcher; and "completed" only when every result was       *)
(* shown, and counted, of the index (PersistentIndexService::search) all   *)
(* that its documents have or the limits of the query admit.  The          *)
(* exception is the direct engine's flush of what it holds back for        *)
(* context lines: after a refusal more batches may come in front of        *)
(* "cancelled", and they may carry the refused result again, emptied.      *)
THEOREM ServiceEventsTellTheSearch == ServiceSpec => []EventsTellTheSearch
<1>1. ServiceInit => ServiceInv
  BY ServiceStarts
<1>2. ServiceInv /\ [ServiceNext]_serviceVars => ServiceInv'
  BY ServiceStep
<1>3. ServiceInv => EventsTellTheSearch
  <2> SUFFICES ASSUME ServiceInv PROVE EventsTellTheSearch
    OBVIOUS
  <2>1. /\ EventsInOrder /\ handedOut = shown \o pendingResults
        /\ handedOut # <<>> => /\ Len(handedOut) <= OfferCount
                              /\ \A i \in DOMAIN handedOut : handedOut[i] = Offer(i)
        /\ offeredAgain # 0 => call.holdsBack /\ (abortedBySink \/ searchStopped)
    BY DEF ServiceInv, EventsInv, HandedOutInv
  <2>2. ASSUME servicePhase = "returned", ~summary.cancelled
        PROVE  /\ delivered[Len(delivered)].kind = IF call.valid THEN "completed" ELSE "failed"
               /\ ~call.valid => shown = <<>>
               /\ call.valid => summary.matches = Len(shown)
               /\ call.valid /\ call.strategy # "indexed" => shown = call.direct
               /\ call.valid /\ call.strategy = "indexed" => AnswersTheQuery
               /\ call.strategy = "hybrid" => cacheHits + cacheMisses = summary.matches
    <3>1. /\ pendingResults = <<>> /\ shown \in Seq(Places) /\ handedOut \in Seq(Places)
          /\ call \in CallType
      BY <2>2 DEF ServiceInv, ServiceTypes, EventsInv
    <3>2. handedOut = shown
      BY <2>1, <3>1, NothingAppended
    <3>3. /\ ~call.valid => handedOut = <<>>
          /\ call.valid  => /\ Len(handedOut) = Len(Found) /\ offeredAgain = 0
                            /\ summary.matches = Len(handedOut)
          /\ call.strategy = "hybrid" => cacheHits + cacheMisses = summary.matches
          /\ call.valid /\ call.strategy = "indexed" =>
               /\ indexEnding \notin {"none", "stopped"}
               /\ indexEnding = "limit" => summary.limitReached
          /\ delivered[Len(delivered)].kind = IF call.valid THEN "completed" ELSE "failed"
      BY <2>2 DEF ServiceInv, SummaryInv, Afterward
    <3>4. ASSUME call.valid, Found \in Seq(Places)
          PROVE  shown = Found
      <4>1. Len(shown) = Len(Found)
        BY <3>2, <3>3, <3>4
      <4>2. \A i \in DOMAIN shown : shown[i] = Found[i]
        BY <2>1, <3>1, <3>2, <3>3, <3>4 DEF Offer
      <4> QED
        BY <3>1, <3>4, <4>1, <4>2, SameList
    <3>5. call.valid /\ call.strategy # "indexed" => shown = call.direct
      BY <3>1, <3>4 DEF Found, CallType
    <3>6. ASSUME call.valid, call.strategy = "indexed"
          PROVE  AnswersTheQuery
      <4>1. IndexedInv /\ indexEnding # "none" /\ indexEnding # "stopped"
        BY <3>3, <3>6 DEF ServiceInv, IndexUsed
      <4>2. Found = indexResults /\ indexResults \in Seq(Places)
        BY <3>6, <4>1 DEF Found, IndexedInv, ResultsInv
      <4>3. shown = indexResults
        BY <3>4, <3>6, <4>2
      <4>4. Begins(shown, IndexAnswer(call.documents, call.query))
        BY <3>1, <4>1, <4>3, AnswerBegins DEF IndexedInv
      <4>5. \/ indexEnding = "limit" /\ Len(indexResults) = call.query.resultLimit
            \/ call.query.budget # 0 /\ Len(indexResults) = call.query.budget
            \/ Elements(indexResults) = IndexAnswer(call.documents, call.query)
        BY <4>1 DEF IndexedInv, EndingInv
      <4> QED
        BY <3>3, <3>6, <4>3, <4>4, <4>5 DEF AnswersTheQuery
    <3> QED
      BY <3>2, <3>3, <3>5, <3>6
  <2> QED
    BY <2>1, <2>2 DEF EventsTellTheSearch
<1> QED
  BY <1>1, <1>2, <1>3, PTL DEF ServiceSpec
=============================================================================
