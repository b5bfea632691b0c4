---------------------------- MODULE DirectSearch ----------------------------
(***************************************************************************)
(* DirectSearchEngine::search (src/core/search/direct-search-engine.cpp)   *)
(* with its worker pool (src/core/concurrency/worker-pool.hpp).            *)
(*                                                                         *)
(* The calling thread runs the scanner.  For each file it either searches  *)
(* the file itself, after it has published everything in flight, or gives  *)
(* it to the pool together with a small event queue; it publishes the      *)
(* event queues in the order of the scanner, at the latest when too many   *)
(* files are in flight.  One stop source, workStopSource, is requested by  *)
(* the caller's cancellation, by a limit, by a refusing sink and by a file *)
(* that ends the search; the workers of the pool also have a token each,   *)
(* which only requestStop() uses and which the file tasks ignore.          *)
(*                                                                         *)
(* The queues are used through BoundedQueue's operations as atomic steps:  *)
(* push waits for room, is refused once the token is stopped; pop waits    *)
(* for an item, a close or a stop, and returns an item if there is one.    *)
(***************************************************************************)
EXTENDS SearchInputs, FiniteSets

CONSTANTS
  Workers,         \* the threads of the pool
  QueueMultiplier, \* workerQueueCapacityMultiplier
  EventCapacity,   \* fileResultQueueCapacity
  SinkMayThrow,    \* the caller's sink may throw
  HoldsBack,       \* options.contextAfterLines > 0
  EmptiedBytes     \* the memory of a result that was moved from

ASSUME EngineAssumption ==
  /\ IsFiniteSet(Workers) /\ Workers # {}
  /\ QueueMultiplier \in Nat \ {0}
  /\ EventCapacity \in Nat \ {0}
  /\ SinkMayThrow \in BOOLEAN
  /\ HoldsBack \in BOOLEAN
  /\ EmptiedBytes \in Nat

WorkerCount == Cardinality(Workers)

(* maximumInFlightTasks is also the capacity of the pool's task queue. *)
MaximumInFlight == WorkerCount * QueueMultiplier

OneSlotLess  == MaximumInFlight - 1
PoolCapacity == MaximumInFlight

None == 0

VARIABLES
  files,             \* the files of this search
  pc,                \* where the calling thread is
  resume,            \* where publishFileTask returns to
  nextFile,          \* the scanner's next file
  at,                \* matches a synchronous search has found in nextFile
  taken,             \* how many of them the sink took
  verdict,           \* what the end of nextFile means for the search
  movedFrom,         \* the pending match whose result was offered and refused
  emptied,           \* history: the matches delivered after they were refused
  tasks,             \* the deque of files in flight
  current,           \* the file whose events are being published
  publishedInitial,  \* publishedInitialParallelTask
  continueSearch,
  poolQueue,         \* tasks no worker has taken
  poolClosed,
  poolStop,          \* the workers' own tokens are stopped
  worker,            \* what each worker is doing
  events,            \* the event queue of each file
  eventsClosed,
  stop,              \* workStopSource
  cancelled,         \* the caller's token
  held,              \* history: the matches held back when it was stopped
  delivered,         \* results the sink accepted
  resultBytes,       \* summary.resultMemoryBytes
  flags,             \* what the summary or an exception tells the caller
  late               \* history: results delivered after the cancellation

scanVars   == <<nextFile, publishedInitial>>
syncVars   == <<at, taken, verdict, movedFrom, emptied>>
cancelVars == <<cancelled, held>>
poolVars   == <<poolQueue, poolClosed, poolStop>>
outputVars == <<delivered, resultBytes, late>>
vars == <<files, pc, resume, nextFile, at, taken, verdict, movedFrom, emptied,
          tasks, current, publishedInitial, continueSearch, poolQueue,
          poolClosed, poolStop, worker, events, eventsClosed, stop, cancelled,
          held, delivered, resultBytes, flags, late>>

Flags == {"limitReached", "memoryLimitReached", "refused", "halted", "failed",
          "sinkThrew"}

(* What goes through an event queue: a match, or the completion with its   *)
(* summary; "at" is 0 for a completion.                                    *)
Event == [file : FileIds, at : Nat, continueSearch : BOOLEAN,
          limitReached : BOOLEAN, failure : BOOLEAN]

ResultEvent(f, i) == [file |-> f, at |-> i, continueSearch |-> TRUE,
                      limitReached |-> FALSE, failure |-> FALSE]
Completion(f, continues, limit, failure) ==
  [file |-> f, at |-> None, continueSearch |-> continues,
   limitReached |-> limit, failure |-> failure]

TypeOK ==
  /\ files \in Worlds
  /\ pc \in {"scan", "submit", "ahead", "sync", "flush", "drain", "publish",
             "pop", "join", "returned"}
  /\ resume \in {"scan", "ahead", "drain"}
  /\ nextFile \in 1..(NumFiles + 1)
  /\ at \in Nat /\ taken \in Nat
  /\ verdict \in {"continue", "halt", "end"}
  /\ movedFrom \in Nat
  /\ emptied \subseteq FileIds \X Nat
  /\ tasks \in Seq(FileIds)
  /\ current \in FileIds \cup {None}
  /\ publishedInitial \in BOOLEAN /\ continueSearch \in BOOLEAN
  /\ poolQueue \in Seq(FileIds) /\ Len(poolQueue) <= MaximumInFlight
  /\ poolClosed \in BOOLEAN /\ poolStop \in BOOLEAN
  /\ worker \in [Workers -> [state : {"idle", "searching", "closing", "exited"},
                             file : FileIds \cup {None}, at : Nat]]
  /\ events \in [FileIds -> Seq(Event)]
  /\ eventsClosed \in [FileIds -> BOOLEAN]
  /\ stop \in BOOLEAN /\ cancelled \in BOOLEAN
  /\ delivered \in Seq(FileIds \X Nat)
  /\ resultBytes \in Nat
  /\ MemoryBudget = 0 \/ resultBytes <= MemoryBudget
  /\ flags \subseteq Flags
  /\ late \subseteq FileIds \X Nat
  /\ held \subseteq FileIds \X Nat

Idle == [state |-> "idle", file |-> None, at |-> 0]

Init ==
  /\ files \in Worlds
  /\ pc = "scan" /\ resume = "scan"
  /\ nextFile = 1
  /\ at = 0 /\ taken = 0 /\ verdict = "continue" /\ movedFrom = 0 /\ emptied = {}
  /\ tasks = <<>> /\ current = None
  /\ publishedInitial = FALSE /\ continueSearch = TRUE
  /\ poolQueue = <<>> /\ poolClosed = FALSE /\ poolStop = FALSE
  /\ worker = [w \in Workers |-> Idle]
  /\ events = [f \in FileIds |-> <<>>]
  /\ eventsClosed = [f \in FileIds |-> FALSE]
  /\ stop = FALSE /\ cancelled = FALSE /\ held = {}
  /\ delivered = <<>> /\ resultBytes = 0 /\ flags = {} /\ late = {}

-----------------------------------------------------------------------------
(* publishResult: the global limit, the memory budget, the sink.  It never *)
(* looks at the token.                                                     *)
BudgetLeft(bytes) == MemoryBudget = 0 \/ resultBytes < MemoryBudget
Budgeted(bytes)   == FitsBudget(resultBytes, bytes)

MatchBytes(f, i) == files[f].results[i].bytes

(* The sink takes the result; k is where the thread goes on. *)
Accept(result, bytes, k) ==
  /\ Len(delivered) < ResultLimit /\ Budgeted(bytes)
  /\ delivered' = Append(delivered, result)
  /\ resultBytes' = resultBytes + bytes
  /\ late' = IF cancelled THEN late \cup {result} ELSE late
  /\ pc' = k
  /\ UNCHANGED <<flags, stop, continueSearch>>

(* The search ends in front of the result. *)
Reject(bytes, k) ==
  /\ \/ /\ Len(delivered) >= ResultLimit
        /\ flags' = flags \cup {"limitReached"}
     \/ /\ Len(delivered) < ResultLimit /\ ~Budgeted(bytes)
        /\ flags' = flags \cup {"memoryLimitReached"}
     \/ /\ Len(delivered) < ResultLimit /\ Budgeted(bytes)
        /\ flags' = flags \cup {"refused"}
  /\ stop' = TRUE
  /\ continueSearch' = FALSE
  /\ pc' = k
  /\ UNCHANGED outputVars

(* The sink throws.  Unwinding destroys the pool, which requests the       *)
(* workers' tokens, closes the task queue and joins; workStopSource is     *)
(* not requested.                                                          *)
SinkThrows(bytes) ==
  /\ SinkMayThrow /\ Len(delivered) < ResultLimit /\ Budgeted(bytes)
  /\ flags' = flags \cup {"sinkThrew"}
  /\ continueSearch' = FALSE
  /\ pc' = "join"
  /\ UNCHANGED <<stop, outputVars>>

-----------------------------------------------------------------------------
(* The scanner's callback. *)

shouldSearchFileInParallel(f) == WorkerCount # 1 /\ files[f].big

(* publishFrontTask: publish the front of the deque, then go on at k. *)
PublishBack(inFlight, k) ==
  /\ current' = inFlight[Len(inFlight)]
  /\ tasks' = SubSeq(inFlight, 1, Len(inFlight) - 1)
  /\ resume' = k
  /\ pc' = "publish"

PublishFront(inFlight, k) ==
  /\ current' = Head(inFlight)
  /\ tasks' = Tail(inFlight)
  /\ resume' = k
  /\ pc' = "publish"

(* A file for the pool; tasks.push_back comes before submit. *)
ScanParallel ==
  /\ pc = "scan" /\ ~stop /\ nextFile <= NumFiles
  /\ shouldSearchFileInParallel(nextFile)
  /\ tasks' = Append(tasks, nextFile)
  /\ pc' = "submit"
  /\ UNCHANGED <<files, resume, scanVars, syncVars, current, continueSearch,
                 poolVars, worker, events, eventsClosed, stop, cancelVars,
                 outputVars, flags>>

ScanSynchronous ==
  /\ pc = "scan" /\ ~stop /\ nextFile <= NumFiles
  /\ ~shouldSearchFileInParallel(nextFile)
  /\ pc' = "ahead"
  /\ UNCHANGED <<files, resume, scanVars, syncVars, tasks, current, continueSearch,
                 poolVars, worker, events, eventsClosed, stop, cancelVars,
                 outputVars, flags>>

(* The last file, or a stop seen by the scanner or by its callback: the    *)
(* files in flight are published next.                                     *)
ScanEnds ==
  /\ pc = "scan" /\ (stop \/ nextFile > NumFiles)
  /\ pc' = "drain"
  /\ UNCHANGED <<files, resume, scanVars, syncVars, tasks, current, continueSearch,
                 poolVars, worker, events, eventsClosed, stop, cancelVars,
                 outputVars, flags>>

(* The pool takes the file: publish the first parallel file at once, later *)
(* ones when the limit of files in flight is reached.                      *)
Submit ==
  /\ pc = "submit" /\ ~stop /\ Len(poolQueue) < PoolCapacity
  /\ poolQueue' = Append(poolQueue, nextFile)
  /\ nextFile' = nextFile + 1
  /\ publishedInitial' = TRUE
  /\ IF ~publishedInitial \/ Len(tasks) >= MaximumInFlight
     THEN PublishFront(tasks, "scan")
     ELSE pc' = "scan" /\ UNCHANGED <<current, tasks, resume>>
  /\ UNCHANGED <<files, syncVars, continueSearch, poolClosed, poolStop, worker,
                 events, eventsClosed, stop, cancelVars, outputVars, flags>>

(* The push is refused because of a stop; the task is dropped again and    *)
(* the scan ends with continueSearch still true.                           *)
SubmitRefused ==
  /\ pc = "submit" /\ stop
  /\ tasks' = SubSeq(tasks, 1, Len(tasks) - 1)
  /\ pc' = "drain"
  /\ UNCHANGED <<files, resume, scanVars, syncVars, current, continueSearch,
                 poolVars, worker, events, eventsClosed, stop, cancelVars,
                 outputVars, flags>>

(* Before a synchronous file: publish everything in flight. *)
Ahead ==
  /\ pc = "ahead"
  /\ IF tasks # <<>>
     THEN PublishFront(tasks, "ahead") /\ UNCHANGED <<at, taken>>
     ELSE /\ pc' = "sync" /\ at' = 0 /\ taken' = 0
          /\ UNCHANGED <<current, tasks, resume>>
  /\ UNCHANGED <<files, scanVars, verdict, movedFrom, emptied, continueSearch,
                 poolVars, worker, events, eventsClosed, stop, cancelVars, outputVars,
                 flags>>

(* After the scan: the loop that publishes what is in flight.  No step     *)
(* reaches it with continueSearch false.                                   *)
Drain ==
  /\ pc = "drain"
  /\ IF tasks # <<>>
     THEN PublishFront(tasks, "drain")
     ELSE pc' = "join" /\ UNCHANGED <<current, tasks, resume>>
  /\ UNCHANGED <<files, scanVars, syncVars, continueSearch, poolVars, worker, events,
                 eventsClosed, stop, cancelVars, outputVars, flags>>

-----------------------------------------------------------------------------
(* publishFileTask. *)

(* The loop's test of the stop token. *)
PublishLoop ==
  /\ pc = "publish"
  /\ \/ ~stop /\ pc' = "pop" /\ UNCHANGED <<current, continueSearch>>
     \/ stop /\ pc' = "join" /\ current' = None /\ continueSearch' = FALSE
  /\ UNCHANGED <<files, resume, scanVars, syncVars, tasks, poolVars, worker, events,
                 eventsClosed, stop, cancelVars, outputVars, flags>>

(* pop answers "empty": closed or stopped.  The task's answer is whether   *)
(* the search goes on.                                                     *)
PopEmpty ==
  /\ pc = "pop" /\ events[current] = <<>> /\ (stop \/ eventsClosed[current])
  /\ current' = None
  /\ continueSearch' = ~stop
  /\ pc' = IF stop THEN "join" ELSE resume
  /\ UNCHANGED <<files, resume, scanVars, syncVars, tasks, poolVars, worker, events,
                 eventsClosed, stop, cancelVars, outputVars, flags>>

(* workStopSource.request_stop(), when the file ends the search. *)
NoStopRequest(ends) == stop' = stop
RequestStopIf(ends) == stop' = (stop \/ ends)

TakeEvent ==
  events' = [events EXCEPT ![current] = Tail(@)]

(* A match, even when the token was stopped while pop waited. *)
PopResult ==
  /\ pc = "pop" /\ events[current] # <<>>
  /\ LET event == Head(events[current])
         bytes == MatchBytes(event.file, event.at)
     IN  /\ event.at # None
         /\ \/ Accept(<<event.file, event.at>>, bytes, "publish")
            \/ Reject(bytes, "join")
            \/ SinkThrows(bytes)
  /\ TakeEvent
  /\ UNCHANGED <<files, resume, scanVars, syncVars, tasks, current, poolVars, worker,
                 eventsClosed, cancelVars>>

(* The completion: rethrow its failure, or merge its summary and go on if  *)
(* neither the file nor a stop ends the search.                            *)
PopCompletion ==
  /\ pc = "pop" /\ events[current] # <<>>
  /\ LET event == Head(events[current])
         ends == event.failure \/ ~event.continueSearch
     IN  /\ event.at = None
         /\ flags' = flags
              \cup (IF event.failure THEN {"failed"} ELSE {})
              \cup (IF event.limitReached THEN {"limitReached"} ELSE {})
              \cup (IF ~event.continueSearch /\ ~event.limitReached
                    THEN {"halted"} ELSE {})
         /\ RequestStopIf(ends)
         /\ continueSearch' = (~ends /\ ~stop)
         /\ pc' = IF ends \/ stop THEN "join" ELSE resume
  /\ TakeEvent
  /\ current' = None
  /\ UNCHANGED <<files, resume, scanVars, syncVars, tasks, poolVars, worker,
                 eventsClosed, cancelVars, outputVars>>

-----------------------------------------------------------------------------
(* searchFileSynchronously: searchFile on the calling thread, with         *)
(* publishResult as its sink.  With HoldsBack a match of the content waits *)
(* in pendingResults for the lines that follow it: matches up to at are    *)
(* found, those up to taken are with the sink, those between are pending.  *)
(* Chunk 0 is the file's path: searched without a look at the token, its   *)
(* results are released before the content is opened.                      *)
Chunk(f, i)  == IF i = 0 THEN 0 ELSE files[f].results[i].chunk
InPath(f, i) == Chunk(f, i) = 0

(* The reader looks at the token where a chunk begins, and may look at it  *)
(* again after the last one.                                               *)
AtEndOfFile(f, i) == i = Len(files[f].results)
AtChunk(f, i) ==
  i < Len(files[f].results) => Chunk(f, i + 1) # Chunk(f, i)

SyncFind ==
  /\ pc = "sync" /\ HasMatch(files[nextFile], at)
  /\ ~(stop /\ AtChunk(nextFile, at))
  /\ taken < at => HoldsBack /\ (InPath(nextFile, at) => InPath(nextFile, at + 1))
  /\ at' = at + 1
  /\ UNCHANGED <<files, pc, resume, scanVars, taken, verdict, movedFrom, emptied,
                 tasks, current, continueSearch, poolVars, worker, events,
                 eventsClosed, stop, cancelVars, outputVars, flags>>

(* The first match the sink does not have; how long it is held back is     *)
(* left open.  A refused one is moved from, stays pending and ends the     *)
(* reading.  Without HoldsBack, and in the path, nothing is offered again. *)
SyncPublish ==
  LET bytes == MatchBytes(nextFile, taken + 1)
      stays == HoldsBack /\ ~InPath(nextFile, taken + 1)
  IN
    /\ pc = "sync" /\ taken < at
    /\ \/ /\ Accept(<<nextFile, taken + 1>>, bytes, "sync")
          /\ taken' = taken + 1
          /\ UNCHANGED <<verdict, movedFrom>>
       \/ /\ Reject(bytes, IF stays THEN "flush" ELSE "join")
          /\ movedFrom' = IF stays THEN taken + 1 ELSE movedFrom
          /\ verdict' = "end"
          /\ UNCHANGED taken
       \/ SinkThrows(bytes) /\ UNCHANGED <<taken, verdict, movedFrom>>
    /\ UNCHANGED <<files, resume, scanVars, at, emptied, tasks, current, poolVars,
                   worker, events, eventsClosed, cancelVars>>

(* The reading ends; what is pending is released before the file is left.  *)
Settled == HoldsBack \/ taken = at

EndReading(v) ==
  /\ Settled
  /\ pc' = "flush" /\ verdict' = v
  /\ UNCHANGED <<files, resume, scanVars, at, taken, movedFrom, emptied, tasks,
                 current, continueSearch, poolVars, worker, events, eventsClosed,
                 stop, cancelVars, outputVars>>

(* The reader notices the stop at a chunk or at the end of the file. *)
SyncStopped ==
  /\ pc = "sync" /\ stop /\ AtChunk(nextFile, at)
  /\ EndReading("end")
  /\ UNCHANGED flags

LimitUnsaid     == flags' = flags
SayLimitReached == flags' = flags \cup {"limitReached"}

(* A further match over the global limit; the file's summary says so.      *)
SyncOverLimit ==
  /\ pc = "sync" /\ OverLimit(files[nextFile], at)
  /\ ~(stop /\ AtChunk(nextFile, at))
  /\ SayLimitReached
  /\ EndReading("end")

(* The end of the file, or a match over the per-file limit. *)
SyncEnds ==
  /\ pc = "sync"
  /\ \/ /\ OverPerFile(files[nextFile], at) /\ ~(stop /\ AtChunk(nextFile, at))
        /\ EndReading("continue")
     \/ /\ at = Len(files[nextFile].results) /\ files[nextFile].ending = "continue"
        /\ EndReading("continue")
     \/ /\ at = Len(files[nextFile].results) /\ files[nextFile].ending = "stop"
        /\ EndReading("halt")
  /\ UNCHANGED flags

(* The reader or the matcher throws: what is pending is lost. *)
SyncThrows ==
  /\ pc = "sync" /\ Settled
  /\ at = Len(files[nextFile].results) /\ files[nextFile].ending = "throw"
  /\ taken < at => ~InPath(nextFile, taken + 1)
  /\ flags' = flags \cup {"failed"}
  /\ continueSearch' = FALSE
  /\ pc' = "join"
  /\ UNCHANGED <<files, resume, scanVars, syncVars, tasks, current, poolVars,
                 worker, events, eventsClosed, stop, cancelVars, outputVars>>

(* flushPending: the pending matches in order, a moved-from one included,  *)
(* until one is refused.                                                   *)
FlushResult ==
  LET again == movedFrom = taken + 1
      bytes == IF again THEN EmptiedBytes ELSE MatchBytes(nextFile, taken + 1)
  IN
    /\ pc = "flush" /\ taken < at
    /\ \/ /\ Accept(<<nextFile, taken + 1>>, bytes, "flush")
          /\ taken' = taken + 1
          /\ emptied' = IF again THEN emptied \cup {<<nextFile, taken + 1>>}
                        ELSE emptied
       \/ Reject(bytes, "join") /\ UNCHANGED <<taken, emptied>>
       \/ SinkThrows(bytes) /\ UNCHANGED <<taken, emptied>>
    /\ UNCHANGED <<files, resume, scanVars, at, verdict, movedFrom, tasks, current,
                   poolVars, worker, events, eventsClosed, cancelVars>>

(* Everything found is with the sink: the file's summary is merged, and    *)
(* the scanner goes on or the search ends.                                 *)
FileDone ==
  /\ pc = "flush" /\ taken = at
  /\ \/ /\ verdict = "continue"
        /\ pc' = "scan" /\ nextFile' = nextFile + 1
        /\ UNCHANGED <<stop, continueSearch, flags>>
     \/ /\ verdict # "continue"
        /\ flags' = flags \cup (IF verdict = "halt" THEN {"halted"} ELSE {})
        /\ stop' = TRUE /\ continueSearch' = FALSE
        /\ pc' = "join" /\ UNCHANGED nextFile
  /\ UNCHANGED <<files, resume, publishedInitial, syncVars, tasks, current,
                 poolVars, worker, events, eventsClosed, cancelVars, outputVars>>

-----------------------------------------------------------------------------
(* The end of search(): close() lets the workers finish what is queued,    *)
(* requestStop(), also reached through the pool's destructor when an       *)
(* exception unwinds, stops their tokens first.  Both join every worker.   *)
ShutPool ==
  /\ pc = "join" /\ ~poolClosed
  /\ poolClosed' = TRUE
  /\ poolStop' = ~continueSearch
  /\ UNCHANGED <<files, pc, resume, scanVars, syncVars, tasks, current,
                 continueSearch, poolQueue, worker, events, eventsClosed, stop,
                 cancelVars, outputVars, flags>>

Joined ==
  /\ pc = "join" /\ poolClosed
  /\ \A w \in Workers : worker[w].state = "exited"
  /\ pc' = "returned"
  /\ UNCHANGED <<files, resume, scanVars, syncVars, tasks, current, continueSearch,
                 poolVars, worker, events, eventsClosed, stop, cancelVars,
                 outputVars, flags>>

CallingThread ==
  \/ ScanParallel \/ ScanSynchronous \/ ScanEnds \/ Submit \/ SubmitRefused
  \/ Ahead \/ Drain \/ PublishLoop \/ PopEmpty \/ PopResult \/ PopCompletion
  \/ SyncFind \/ SyncPublish \/ SyncStopped \/ SyncOverLimit \/ SyncEnds
  \/ SyncThrows \/ FlushResult \/ FileDone
  \/ ShutPool \/ Joined

-----------------------------------------------------------------------------
(* WorkerPool::run and the file task. *)
mainVars == <<files, pc, resume, scanVars, syncVars, tasks, current,
              continueSearch, poolClosed, poolStop, stop, cancelVars, outputVars,
              flags>>

(* A task is taken in the order of submission, also by a worker whose      *)
(* token is stopped while it waits in pop.                                 *)
TakeTask(w) ==
  /\ worker[w].state = "idle" /\ poolQueue # <<>>
  /\ worker' = [worker EXCEPT ![w] =
                  [state |-> "searching", file |-> Head(poolQueue), at |-> 0]]
  /\ poolQueue' = Tail(poolQueue)
  /\ UNCHANGED <<mainVars, events, eventsClosed>>

Exit(w) ==
  /\ worker[w].state = "idle"
  /\ poolStop \/ (poolClosed /\ poolQueue = <<>>)
  /\ worker' = [worker EXCEPT ![w].state = "exited"]
  /\ UNCHANGED <<mainVars, poolQueue, events, eventsClosed>>

PushEvent(f, event) ==
  /\ ~stop /\ Len(events[f]) < EventCapacity
  /\ events' = [events EXCEPT ![f] = Append(@, event)]

EmitResult(w) ==
  LET f == worker[w].file  i == worker[w].at IN
    /\ worker[w].state = "searching" /\ HasMatch(files[f], i)
    /\ PushEvent(f, ResultEvent(f, i + 1))
    /\ worker' = [worker EXCEPT ![w].at = i + 1]
    /\ UNCHANGED <<mainVars, poolQueue, eventsClosed>>

(* The reading throws after its last match: what a worker still holds back *)
(* is lost.                                                                *)
Throws(file, i) ==
  /\ file.ending = "throw"
  /\ Len(file.results) <= ResultLimit /\ Len(file.results) <= PerFileLimit
  /\ \/ i = Len(file.results)
     \/ HoldsBack /\ i < Len(file.results) /\ file.results[i + 1].chunk # 0

(* The completion, with the file's own summary. *)
EmitCompletion(w) ==
  LET f == worker[w].file
      i == worker[w].at
      file == files[f]
      throws == Throws(file, i)
      finished == i = Len(file.results)
  IN
    /\ worker[w].state = "searching" /\ (throws \/ ~HasMatch(file, i))
    /\ PushEvent(f, Completion(f,
         throws \/ (finished /\ file.ending = "continue") \/ OverPerFile(file, i),
         OverLimit(file, i),
         throws))
    /\ worker' = [worker EXCEPT ![w].state = "closing"]
    /\ UNCHANGED <<mainVars, poolQueue, eventsClosed>>

(* After a stop the reader ends the file or push refuses the next event;   *)
(* the completion is refused as well.                                      *)
Abandon(w) ==
  /\ worker[w].state = "searching" /\ stop
  /\ worker' = [worker EXCEPT ![w].state = "closing"]
  /\ UNCHANGED <<mainVars, poolQueue, events, eventsClosed>>

CloseEvents(w) ==
  /\ worker[w].state = "closing"
  /\ eventsClosed' = [eventsClosed EXCEPT ![worker[w].file] = TRUE]
  /\ worker' = [worker EXCEPT ![w] = Idle]
  /\ UNCHANGED <<mainVars, poolQueue, events>>

WorkerThread(w) ==
  \/ TakeTask(w) \/ Exit(w) \/ EmitResult(w) \/ EmitCompletion(w)
  \/ Abandon(w) \/ CloseEvents(w)

(* What a synchronous search holds back. *)
Pending ==
  IF HoldsBack /\ pc \in {"sync", "flush"}
  THEN {<<nextFile, i>> : i \in (taken + 1)..at} ELSE {}

(* The caller's stop request runs the callback that stops workStopSource. *)
Cancel ==
  /\ pc # "returned" /\ ~cancelled
  /\ cancelled' = TRUE
  /\ held' = Pending
  /\ stop' = TRUE
  /\ UNCHANGED <<files, pc, resume, scanVars, syncVars, tasks, current,
                 continueSearch, poolVars, worker, events, eventsClosed,
                 outputVars, flags>>

Returned == pc = "returned" /\ UNCHANGED vars

Next ==
  CallingThread \/ (\E w \in Workers : WorkerThread(w)) \/ Cancel \/ Returned

Spec == Init /\ [][Next]_vars

(* The operating system runs every thread that can run.  Nobody has to     *)
(* cancel.                                                                 *)
FairSpec ==
  Spec /\ WF_vars(CallingThread) /\ \A w \in Workers : WF_vars(WorkerThread(w))

-----------------------------------------------------------------------------
(* What the caller of search() is told: an exception, or the summary.  A   *)
(* summary may say several things; the refusal and the budget come first,  *)
(* because they may keep held-back results from the sink after the limit   *)
(* was seen.                                                               *)
TurnedDown == flags \cap {"refused", "memoryLimitReached", "sinkThrew"} # {}

Outcome ==
  IF pc # "returned" THEN "running"
  ELSE IF "failed" \in flags THEN "failed"
  ELSE IF flags \cap {"refused", "sinkThrew"} # {} THEN "stopped"
  ELSE IF "memoryLimitReached" \in flags THEN "memory"
  ELSE IF "limitReached" \in flags THEN "limit"
  ELSE IF "halted" \in flags THEN "halted"
  ELSE IF cancelled THEN "stopped"
  ELSE "complete"

(* The parallel search is the sequential one: the sink receives exactly    *)
(* the results of the scanner's order, cut only where the outcome says,    *)
(* and a summary without limit, error or cancellation means that nothing   *)
(* is missing.  Named exceptions, all of them actions or cases of          *)
(* SequentialSearch: a search that finds exactly resultLimit matches is    *)
(* "complete" (the summary does not say limitReached), and with            *)
(* contextAfterLines > 0 a refused result may be delivered emptied, with   *)
(* the held-back ones behind it, and those of a file that throws are lost. *)
Promise ==
  INSTANCE SequentialSearch WITH
    outcome <- Outcome, used <- resultBytes, turnedDown <- TurnedDown
ImplementsSequentialSearch == Promise!SeqSpec

(* submit() never waits for room, so the calling thread, which alone       *)
(* empties the event queues, never waits for a worker that waits for it.   *)
SubmitNeverBlocks ==
  pc = "submit" /\ ~stop => Len(poolQueue) < PoolCapacity

(* After the caller's cancellation no more is delivered than what a        *)
(* synchronous search held back for its context lines at that moment, and  *)
(* the rest of one chunk; at most one result when the file was given to a  *)
(* worker.                                                                 *)
CancellationIsPrompt ==
  \A r, s \in late \ held :
    /\ r[1] = s[1]
    /\ files[r[1]].results[r[2]].chunk = files[s[1]].results[s[2]].chunk
    /\ shouldSearchFileInParallel(r[1]) => r = s

(* A search returns whatever the limits, the files and the sink's answers  *)
(* do: no thread is left waiting for another one.                          *)
SearchReturns == <>(pc = "returned" \/ "sinkThrew" \in flags)

(* "Cooperative cancellation reaches the scanner, task queue, file         *)
(* readers, matchers, and result queues" (docs/development/                *)
(* performance.md): also when the sink throws, the pool's requestStop()    *)
(* ends the file tasks, and the exception reaches the caller.              *)
ThrowReachesCaller == "sinkThrew" \in flags ~> pc = "returned"
=============================================================================
